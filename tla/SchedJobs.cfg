SPECIFICATION FairSchedulerSpec
CONSTANTS
  Clients = {c1, c2}
  Servers = {s1, s2}
  Mortal = {s1}
  None = None
  IDs = 2
INVARIANTS JobsKept
PROPERTY ServedOrUnlucky
CHECK_DEADLOCK FALSE
