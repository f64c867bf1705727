SPECIFICATION Spec
CONSTANTS
  Procs = {1, 3, 4}
  Owner <- Owners
  Syscalls = {read}
  Commands = {"INTERCEPT", "RELEASE", "START", "STOP", "EXIT"}
  Nobody = Nobody
  Serial = TRUE
  MaxListed = 2
INVARIANTS ReachesOriginal TableMatchesFlags
