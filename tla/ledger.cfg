SPECIFICATION Spec
CONSTANTS
  None = None
  implementer = implementer
  review = review
  Run = {r1, r2}
  Helper = {h1}
  Stage = {implementer, review}
  Budgeted = {implementer}
  LimitOf = 1
  FreeOf = 2
  Limit <- LimitIs
  FreePieces <- FreeIs
  TotalLimit = 2
  RuntimeLimit = 2
  MaxRepeats = 1
  Piece = {u1, u2}
  Key = {k1}
  Signature = {g1}
  MaxEpoch = 2
SYMMETRY Symmetry
CHECK_DEADLOCK FALSE
INVARIANTS
  LedgerAddsUp
  WithinBudget
  OneAttemptPerPass
