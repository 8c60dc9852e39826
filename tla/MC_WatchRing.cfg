SPECIFICATION Spec
CONSTANTS
  Object = {o1, o2}
  Recreate = TRUE
  MaxRev = 5
  Capacities = {0, 2, 3}
  Limits = {0, 3}
  MaxQuiet = 1
SYMMETRY Symmetry
INVARIANTS
  RingIsWhole
  RecordsAreTheChanges
CHECK_DEADLOCK FALSE
