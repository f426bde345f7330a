CONSTANTS
  Nobody = Nobody
  Procs = {p1, p2, p3}
  Pids = {1, 2, 3}
  Serial = FALSE
  OwnPidReused = FALSE
  MaxCrashes = 1
SPECIFICATION Spec
INVARIANTS OneOwner
CHECK_DEADLOCK FALSE
