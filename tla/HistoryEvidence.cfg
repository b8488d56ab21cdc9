SPECIFICATION HistorySpec
CONSTANTS
  Config <- DefaultConfig
  Policy <- DefaultPolicy
  Bands = {}
  Majors = {}
  Eligible = {}
  LeadMinBps = 200
  Sleeve <- MCSleeve
  WarmUp = 1
  SmaWindow = 3
  FearGreed <- MCFearGreed
  Thresholds <- MCThresholds
  TrainMin = 2
  ValidationMin = 1
  TokenDays <- MCTokenDays
  BnbDays <- MCBnbDays
  MaxDays = 4
CHECK_DEADLOCK FALSE
INVARIANTS
  ReportTellsTheLoss
  BandsPayInBothHalves
  NoLookAhead
  AheadOnlyOverAGap
