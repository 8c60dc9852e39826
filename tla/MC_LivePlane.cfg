SPECIFICATION FairSpec
CONSTANTS
  Object = {o1, o2}
  Recreate = TRUE
  MaxRev = 4
  PageLimit = 1
  BackoffMin = 1
  BackoffMax = 3
  MaxFaults = 1
INVARIANTS
  MirrorsCursor
PROPERTIES
  ImplementsMirror
  Converges
CHECK_DEADLOCK FALSE
