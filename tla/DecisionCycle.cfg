SPECIFICATION Spec
CONSTANTS
  Config <- MCConfig
  Policy <- MCPolicy
  Bands <- MCBands
  Majors <- MCMajors
  Eligible <- MCEligible
  Markets <- MCMarkets
  Scout <- MCScout
  Weather <- MCWeather
  Outcomes <- MCOutcomes
  X402Required = TRUE
  ViemFallback = TRUE
  CostSamples = 2
  MaxDays = 1
  MaxRestarts = 1
INVARIANTS
  NothingAtTheDrawdownCap
  OrdersFitTheBook
  SpendCapHolds
PROPERTIES
  PauseIsFinal
