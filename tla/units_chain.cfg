SPECIFICATION FairSpec
CONSTANTS
  None = None
  a = a
  b = b
  p1 = p1
  Unit = {a, b}
  Run = {r1, r2}
  Helper = {h1}
  Plan = {p1}
  DependsOn <- Chain
  Cap = 2
  Command = {"status"}
  Fault = {"kill", "handoff", "gate"}
  MaxKills = 1
CHECK_DEADLOCK FALSE
PROPERTIES
  UnitsSettle
