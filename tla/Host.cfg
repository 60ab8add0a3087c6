CONSTANTS
  Addrs = {1, 2, 3}
  max_handshakes_in_flight = 2
  max_established = 2
  MaxTick = 7
  MaxIdle = 2
SPECIFICATION Spec
INVARIANTS
  TablesSound
PROPERTIES
  RejectedKeepsState
  ForgetsOnlyForCause
CHECK_DEADLOCK FALSE
