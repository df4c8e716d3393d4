SPECIFICATION Spec
CONSTANTS
  NoPid = NoPid
  Pids = {p1, p2}
  MaxJobs = 2
  ForkMayFail = FALSE
  KeysOverlap = TRUE
INVARIANT FgPidIsForeground
CHECK_DEADLOCK FALSE
