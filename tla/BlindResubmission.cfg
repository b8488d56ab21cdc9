SPECIFICATION Spec
CONSTANTS
  Mandate = {m1}
  Tx = {t1, t2, t3}
  MaxOpen = 1
  None = None
  Building = Building
INVARIANTS
  NoBlindResubmission
