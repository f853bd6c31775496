SPECIFICATION Spec
CONSTANTS
  None = None
  a = a
  b = b
  p1 = p1
  Unit = {a, b}
  Run = {r1, r2}
  Helper = {h1}
  Plan = {p1, p2}
  DependsOn <- Mixed
  Cap = 2
  Command = {"cancel", "clean"}
  Fault = {"replan"}
  MaxKills = 1
SYMMETRY Symmetry
CHECK_DEADLOCK FALSE
INVARIANTS
  AgentsApart
  StartsOnMerged
