CONSTANT
  Cases <- MCCases
SPECIFICATION Spec
INVARIANT
  FramesExact
CHECK_DEADLOCK FALSE
