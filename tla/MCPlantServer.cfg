SPECIFICATION FairSpec
CONSTANTS
  a = a
  b = b
  c1 = c1
  c2 = c2
  Signal = {a, b}
  Config = {c1, c2}
  Sample = 2
  Spans = {0, 6}
  FlushLimit = 2
  Skew <- MCSkew
  Observed <- MCObserved
  Shift <- MCShift
  InitialDatabases <- MCInitialDatabases
  GapAt = 6
  ShiftAt = 4
  LegacyElapsed = 3
  MaxElapsed = 12
  MaxNow = 6
  MaxStarts = 3
  MaxAge = 1
INVARIANTS
  TypeOK
  DatabaseSound
  ServedIsRecorded
  OpenRowsAreServed
  DeathIsReported
  HeartbeatLeadsValues
  RetentionHolds
  FramesAligned
  LeadBounded
PROPERTIES
  PruneOnlyExpired
  ImplementsHistorian
  StartSettles
  FramesKeepComing
CHECK_DEADLOCK FALSE
