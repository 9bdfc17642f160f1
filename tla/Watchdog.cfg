SPECIFICATION LoggedSpec
CONSTANTS
  Pids = {p1, p2, p3}
  NoPid = NoPid
  MaxLines = 2
INVARIANTS
  TypeOK OneWorker WaitsForWorker TermIsFinal LinesOnce LogInPlace
PROPERTIES
  DeathRestarts TermStops
CHECK_DEADLOCK FALSE
