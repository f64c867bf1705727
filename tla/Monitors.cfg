SPECIFICATION MCSpec
CONSTANTS
  Threads = {t1, t2, t3}
  Conditions = {c1}
  Policy = "SIGNAL_AND_WAIT"
  Free = Free
  Stale = Stale
  MaxCalls = 2
  Readers = {t1, t2}
  Writers = {t3, t4}
  Rounds = 1
INVARIANTS EntryExclusion EntryQueued NobodyWaitsInVain
PROPERTIES AnySignallersResume
CHECK_DEADLOCK FALSE
