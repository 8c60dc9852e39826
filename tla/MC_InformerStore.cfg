SPECIFICATION Spec
CONSTANTS
  Object = {o1, o2}
  Recreate = TRUE
  MaxRev = 4
  PageLimit = 1
  Budget = {0, 2}
  MaxRevision = 6
  MaxFaults = 1
INVARIANTS
  FollowsCluster
PROPERTIES
  ChangesBumpRevision
CHECK_DEADLOCK FALSE
