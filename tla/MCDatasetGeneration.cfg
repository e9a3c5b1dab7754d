SPECIFICATION Spec
CONSTANTS
  a = a
  b = b
  d1 = d1
  d2 = d2
  t = t
  Seed = {1, 2}
  Duration = {2, 3}
  SampleSeconds = {1, 2}
  Step = 1
  DataPath = {d1, d2}
  TruthPath = {t}
  Observed <- MCObserved
  MaxRuns = 3
INVARIANTS
  VerifiedIsWhole
  ReturnedVerifies
  Reproducible
CHECK_DEADLOCK FALSE
