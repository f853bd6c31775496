SPECIFICATION FairSpec
CONSTANTS
  Proc = {p1, p2, p3}
  Timeout = 2
  MaxWait = 6
  StaleAfter = 3
  Hold = 1
  Prompt = TRUE
  MaxEntries = 3
  MaxDeaths = 1
  NoFile = NoFile
INVARIANTS
  BrokenOrExclusive
PROPERTIES
  ImplementsLock
