CONSTANTS
  SeedOrder <- MCSeedOrder
  Development = {1, 2}
  Validation = {3}
  HeldOut = {4}
  ScenarioOrder <- MCScenarioOrder
  Rules <- MCRules
  Worlds <- MCWorlds
  Evaluated <- MCEvaluated
  Selections <- MCSelections
  MaxJobs = 2
  MaxRaised = 1
  MaxStudies = 2
SPECIFICATION Spec
INVARIANTS
  NoLeak
  MatrixAgrees
  FramesStayInMemory
PROPERTY
  ScheduleFree
  StudyEnds
CHECK_DEADLOCK FALSE
