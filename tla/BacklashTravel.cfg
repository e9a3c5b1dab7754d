CONSTANTS
  Loops <- BacklashLoop
  Measurements = {8, 10, 12, 14}
  Setpoints = {10, 12}
  ManualOutputs = {88, 112}
  Lower = 0
  Upper = 200
  Bias = 100
  IntegralLower <- FineIntegralLower
  IntegralUpper = 100
  Gain <- MCGain
  IntegralGain <- MCIntegralGain
  HighMeasurement = 12
  Protective = 148
  SplitLow = 96
  SplitHigh = 104
  Capacity = 134
  Step = 5
  Travel = 25
  StickBand = 11
  BacklashBand = 7
SPECIFICATION Spec
PROPERTY
  BacklashTakesTravel
CHECK_DEADLOCK FALSE
