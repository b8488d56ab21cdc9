SPECIFICATION Spec
CONSTANTS
  Says <- MCSays
  TrendingDeltaMin = 5
  TrendingTopN = 30
  VolumePct = 150
  SpikePct = 8
  RetracePct = 50
  Cooldown = 2
  LeadMinBps = 200
  MaxLen = 5
  Window = 4
  MaxAsOf = 6
INVARIANTS
  LedTwice
  NeverBuysTheVertical
