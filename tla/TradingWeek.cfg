SPECIFICATION Spec
CONSTANTS
  Config <- MCConfig
  Policy <- DefaultPolicy
  UnitsPerDay = 3
  WindowStart = 3
  WindowEnd = 8
  Returns = {0, 26}
  Horizon = 9
  MaxTrades = 3
  MaxCrashes = 1
CHECK_DEADLOCK FALSE
INVARIANTS
  PressOnce
  DailyCap
  DailyMinimum
  ReserveIsWhereItSays
