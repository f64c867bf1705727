SPECIFICATION Spec
CONSTANTS
  Clients = {"ana", "dan"}
  Connections = {"ana1", "ana2", "dan1"}
  User <- MCUser
  Level <- MCLevel
  ServerLevels = {2, 3}
  MaxBans = 2
  Fits = 1
  Names = {"f"}
  Work = {{"illegal", "ana1", "ana2"}, {"short", "crash", "ana1", "dan1"}, {"short", "long", "ana1", "dan1"}}
  MaxCommands = 1
  MaxCrashes = 1
INVARIANTS
  ListedIsStored
  ConfirmedIsSaved
PROPERTIES
  ServedRightly
  EveryoneIsAnswered
CHECK_DEADLOCK FALSE
