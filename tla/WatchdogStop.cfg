SPECIFICATION Spec
CONSTANTS
  Pids = {p1, p2, p3}
  NoPid = NoPid
INVARIANTS
  StopKillsWorker
CHECK_DEADLOCK FALSE
