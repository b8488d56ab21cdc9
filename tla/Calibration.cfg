SPECIFICATION CalibrationSpec
CHECK_DEADLOCK FALSE
CONSTANTS
  Evaluations <- MCEvaluations
  Prices = {10, 11}
  MinGap = 1
  Horizon = 1
  Thresholds <- MCThresholds
  MaxReportAge = 2
  MaxNow = 5
  MaxCycles = 2
  MaxRuns = 2
INVARIANTS
  NothingLostOrDoubled
  MovesAreMeasured
  EdgeIsEarned
