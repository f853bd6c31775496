SPECIFICATION Spec
CONSTANTS
  None = None
  a = a
  b = b
  p1 = p1
  Unit = {a, b}
  Run = {r1, r2}
  Helper = {h1}
  Plan = {p1}
  DependsOn <- Pair
  Cap = 2
  Command = {"status", "clean", "merge"}
  Fault = {"kill"}
  MaxKills = 1
SYMMETRY Symmetry
CHECK_DEADLOCK FALSE
INVARIANTS
  InPlaceAlone
  AgentOwnsRecord
  WorktreesKept
PROPERTIES
  ResultsLast
