SPECIFICATION Spec
CONSTANTS
  piece_count = 2
  Topics = {1, 2}
  Generations = {1, 2}
  WellFormed = {1}
  MaxTick = 5
  MaxIdle = 2
INVARIANTS RelayBound DeliveredExactly
PROPERTIES RolesEndForCause
CHECK_DEADLOCK FALSE
