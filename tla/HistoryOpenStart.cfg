CONSTANTS
  Cap = 2
  Window = 0
  Cadence = {1}
  MaxTime = 6
  Requests <- OpenStartRequests
SPECIFICATION Spec
INVARIANTS
  NothingRepeated
CHECK_DEADLOCK FALSE
