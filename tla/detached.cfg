CONSTANTS
  Run = {r1}
  Workflow = {w1, w2}
  None = None
  Helper = {h1}
  MaxUses = 1
SPECIFICATION FairSpec
INVARIANTS AccountBeforeOutcome
PROPERTIES RemoveSpares OutcomeStands SettlesOnceNamed
CHECK_DEADLOCK FALSE
