CONSTANTS
  Start = 2
  End = 8
  MaxTries = 2
  Sessions = {s1, s2}
SPECIFICATION Spec
SYMMETRY Symmetry
INVARIANTS TypeOK LeasesDisjoint UsedAccounted BoundIsLeased ScanCorrect
PROPERTY LeasesSpec
