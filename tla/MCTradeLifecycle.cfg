SPECIFICATION Spec
CONSTANTS
  Mandate = {m1, m2}
  Tx = {t1, t2, t3}
  MaxOpen = 2
  None = None
  Building = Building
SYMMETRY Symmetry
INVARIANTS
  CommitRecordsAreTrue
  EntryFillsTraced
  NoUnwatchedHolding
  PositionsWereBought
  ExecutionsAreMarked
PROPERTIES
  ResumeForgetsNothing
  ImplementsCustody
