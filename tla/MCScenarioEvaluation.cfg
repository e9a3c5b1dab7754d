CONSTANTS
  l1 = l1
  l2 = l2
  Loop = {l1, l2}
  LoadLoop = {l1}
  Scenarios = {"normal.steady", "normal.load_change", "data.gap",
               "data.irregular_cadence", "process.disturbance"}
  Numeric = {"PV"}
  Cadence <- MCCadence
  Onset <- MCOnset
  End <- MCEnd
  LoadWindow <- MCLoadWindow
  Frame = 2
  Cycle = 32
  MaxAge = 8
  ResponseWindow = 6
SPECIFICATION Spec
INVARIANTS
  RegularizedCausal
  PhasesSummarize
  TransitionsComplete
CHECK_DEADLOCK FALSE
