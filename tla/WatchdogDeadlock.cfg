SPECIFICATION FairSpec
CONSTANTS
  Pids = {p1, p2, p3}
  NoPid = NoPid
PROPERTIES
  CrashRestarts
CHECK_DEADLOCK FALSE
