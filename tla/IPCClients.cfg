SPECIFICATION FairSpec
CONSTANTS
  u = u
  v = v
  w = w
  Words <- MCWords
  NoWord = NoWord
  Clients = {c1, c2}
  Buckets = 2
  Slots = 2
  Slack = 1
  Hash <- MCHash
  MaxMsg = 2
  Kinds = {"A", "R", "C", "P", "E"}
  MaxCommands = 3
  MaxPrints = 1
INVARIANTS LoneClientInStep
PROPERTIES CommandsReturn RefinesDict
CHECK_DEADLOCK FALSE
