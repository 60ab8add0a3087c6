CONSTANTS
  WindowBits = 3
  NonceMax = 6
SPECIFICATION SessionSpec
INVARIANTS
  SessionTypeOK
  NonceUnique
  AtMostOnce
  ReplayCheckExact
PROPERTIES
  RefusedForGood
  PromiseSpec
CHECK_DEADLOCK FALSE
