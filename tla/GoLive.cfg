SPECIFICATION Spec
CHECK_DEADLOCK FALSE
CONSTANTS
  OpenDay = 1
  CloseDay = 3
  MaxAgeDays = 2
  Override = FALSE
  MaxFails = 2
  MaxDay = 3
  MaxOutages = 1
  MaxCrashes = 1
  MaxOperator = 1
INVARIANTS
  StaysStoodDown
PROPERTIES
  GoesLive
  StandsDown

