CONSTANTS
  NODE_ID_BITS = 2
  self_id <- LocalId
  Contacts <- OwnAddresses
  Unroutable = {5}
  Targets <- SomeTargets
  alpha = 2
  k = 2
  max_rounds = 3
  max_recv_per_round = 2
  MaxAdvertised = 1
  MaxLookups = 2
SPECIFICATION Spec
INVARIANTS
  PendingExact
  TouchedTwice
  OwnDialsNeverFail
  ResultNearest
PROPERTIES
  LookupAdvances
CHECK_DEADLOCK FALSE
