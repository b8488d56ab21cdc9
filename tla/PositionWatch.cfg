SPECIFICATION FairSpec
CONSTANTS
  Pos = {p1, p2}
  None = None
  Entry = 100
  Price = {96, 103, 106}
  InitBps = 300
  ArmBps = 300
  TrailBps = 300
  TightBps = 200
  CostBps = 140
  MaxOpen = 2
CHECK_DEADLOCK FALSE
INVARIANTS
  BreakevenCovers
  StopBelowPeak
PROPERTIES
  RatchetOnly
  RedEmptiesTheBook
