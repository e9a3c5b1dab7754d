CONSTANTS
  Loops <- MCLoops
  Measurements = {8, 10, 12, 14}
  Setpoints = {10, 12}
  ManualOutputs = {9, 11}
  Lower = 0
  Upper = 20
  Bias = 10
  IntegralLower <- MCIntegralLower
  IntegralUpper = 10
  Gain <- MCGain
  IntegralGain <- MCIntegralGain
  HighMeasurement = 12
  Protective = 15
  SplitLow = 9
  SplitHigh = 11
  Capacity = 13
  Step = 8
  Travel = 4
  StickBand = 3
  BacklashBand = 3
SPECIFICATION Spec
INVARIANTS
  NoWindup
  LimitsDemanded
PROPERTIES
  Bumpless
  ActuatorApproaches
CHECK_DEADLOCK FALSE
