SPECIFICATION Spec
CONSTANTS
  None = None
  NoBase = NoBase
  main = main
  head = head
  tip = tip
  high = high
  Reviewer = {v1}
  Finding = {high}
  AboveLow = {high}
  Tree = {t1, t2}
  Base = {NoBase, main}
  CommitOf <- CommitIs
  Branch = {b1, b2}
  MaxRounds = 1
  Run = {r1}
  Helper = {h1}
  Flag = {"--force"}
  MaxSnapshots = 3
  MaxResets = 1
SYMMETRY Symmetry
CONSTRAINT Bound
CHECK_DEADLOCK FALSE
INVARIANTS
  FindingsOfThisSnapshot
  MarkNotLaundered
  RoundsBounded
PROPERTIES
  DecisionsKept
  NothingSkipped
