CONSTANTS
  Cap = 2
  Window = 4
  Cadence = {1, 2}
  MaxTime = 7
  Requests <- PagedRequests
SPECIFICATION Spec
INVARIANTS
  NothingRepeated
  NothingSkipped
CHECK_DEADLOCK FALSE
