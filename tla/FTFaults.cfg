SPECIFICATION FairSpec
CONSTANTS
  NumNumbers = 3
  OptimSize = 1
  MaxChildren = 2
  MAX_PACKET_SIZE = 5
  MaxFaults = 2
  ServerCrash = TRUE
  PromptMirror = TRUE
  MasterDies = TRUE
  WorkerDies = TRUE
INVARIANTS FullInv MirrorHasCheckPoint OutputComplete
PROPERTIES FinishesUnlessAbandoned WorkersLeave
CHECK_DEADLOCK FALSE
