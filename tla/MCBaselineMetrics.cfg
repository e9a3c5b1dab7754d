CONSTANTS
  Loops = 2
  Scores <- MCScores
  Persistence = 2
  TopK = 1
  MaxFrames = 4
SPECIFICATION MetricsSpec
INVARIANTS
  DetectionAgrees
  LocalizationAgrees
PROPERTY
  DetectionCausal
CHECK_DEADLOCK FALSE
