SPECIFICATION ShellSpec
CONSTANTS
  Lines <- MCLines
  Parse <- MCParse
  Files <- MCFiles
  Dirs = {"sub"}
  PipeSize = 1
  MaxProcs = 10
  MaxFaults = 1
INVARIANTS
  ParsedRight
  ConditionsRight
  NothingLeftRunning
  OutputKept
PROPERTIES
  PromptReturns
CHECK_DEADLOCK FALSE
