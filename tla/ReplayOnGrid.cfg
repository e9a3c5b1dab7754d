CONSTANTS
  Step = 2
  Sample = 4
  Legacy = {6, 8}
  BootFrames = 2
  MaxElapsed = 32
SPECIFICATION Spec
INVARIANTS
  ReplayExact
  ValuesDetermined
CHECK_DEADLOCK FALSE
