CONSTANTS
  None = None
  Seat <- MCSeat
  Setups <- MCSetups
  Finding = {"high", "low"}
  AboveLow = {"high"}
  MaxRounds = 2
  Attempts = 2
  MaxTree = 2
  MaxLog = 2
SPECIFICATION FairSpec
INVARIANTS RecommendedRuns PanelSits
PROPERTIES AcceptedStays Concludes
CHECK_DEADLOCK FALSE
