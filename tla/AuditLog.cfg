SPECIFICATION Spec
CONSTANTS
  Main = main
  Watch = watch
  MaxContent = 6
CHECK_DEADLOCK FALSE
INVARIANTS
  IntactUnlessOverlapped
  ForksJoinTwoLoops
  TrailsReadInOrder
  EditsDetected
