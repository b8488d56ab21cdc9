SPECIFICATION Spec
CONSTANTS
  Config <- MCConfig
  Policy <- DefaultPolicy
  RegimeCfg <- MCRegimeCfg
  Signals <- MCSignals
  Token = {cake, doge}
  PriceLevels = {3, 5}
  StartDay = 1
  MaxDay = 1
  MaxCash = 12
INVARIANTS
  ValueNeverOverstated
  PeaksAreOfTheirPeriod
PROPERTIES
  RegimeIsConfirmed
