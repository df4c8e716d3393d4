SPECIFICATION ShellsSpec
CONSTANTS
  NoPid = NoPid
  Pids = {p1, p2, daemon}
  Daemon = daemon
  KeysAtOnce = 2
  MaxJobs = 2
  ForkMayFail = TRUE
  KeysOverlap = TRUE
INVARIANTS TableTracksChildren StoppedJobsShown CrashNeedsRefusal
PROPERTY PromptComesBack
CHECK_DEADLOCK FALSE
