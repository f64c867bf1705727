SPECIFICATION FairSpec
CONSTANTS
  NumNumbers = 5
  OptimSize = 1
  MaxChildren = 2
  MAX_PACKET_SIZE = 7
  MaxFaults = 2
  ServerCrash = FALSE
  PromptMirror = TRUE
  MasterDies = FALSE
  WorkerDies = FALSE
INVARIANTS CountersAgree TasksSound
PROPERTIES Terminates RefinesPool
CHECK_DEADLOCK FALSE
