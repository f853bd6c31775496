SPECIFICATION FairSpec
CONSTANTS
  MaxWrites = 2
  QueueSize = 1
CHECK_DEADLOCK FALSE
INVARIANTS
  OwnOutputKept
  HolderIsReported
  StopEndsCli
PROPERTIES
  Returns
