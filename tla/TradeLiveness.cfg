SPECIFICATION FairSpec
CONSTANTS
  Mandate = {m1, m2}
  Tx = {t1, t2}
  MaxOpen = 2
  None = None
  Building = Building
PROPERTIES
  ReviewHalts
  StartsOrEscalates
