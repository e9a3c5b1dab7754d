CONSTANTS
  steady = steady
  icy = icy
  ragged = ragged
  lost = lost
  Loop = {steady, icy, ragged, lost}
  Edge <- MCEdge
  DeadTime <- MCDeadTime
  Scenario <- MCScenario
  Signal <- MCSignal
  LoopOf <- MCLoopOf
  Cadence <- MCCadence
  Jitters = {1, 4}
  Step = 2
  Cycle = 20
  Onset <- MCOnset
  End <- MCEnd
  LoadWindow <- MCLoadWindow
  Calls = {0, 5, 10}
  MaxElapsed = 45
SPECIFICATION Spec
INVARIANTS
  DelaysExact
  BuffersBounded
  EventsTellTruth
  FrozenSinceOnset
PROPERTY
  StampsIncrease
CHECK_DEADLOCK FALSE
