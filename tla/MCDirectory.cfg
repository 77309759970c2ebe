SPECIFICATION Spec
SYMMETRY Symmetry
CONSTANTS
  Arrays = {a1, a2}
  Roots = {r1, r2}
  Names = {n1, n2}
  None = None
  Torn = Torn
  MaxSpent = 3
INVARIANTS
  NothingIsLost
  HomeHoldsFiles
  NoOrphans
CHECK_DEADLOCK FALSE
