SPECIFICATION Spec
CONSTANTS
  WatchKey = {k1, k2, k3}
  Caller = {c1, c2}
  MaxCap = 2
  MaxTtl = 2
  MaxTime = 3
SYMMETRY Symmetry
INVARIANTS
  CapHolds
PROPERTIES
  EvictsColdestFirst
  EvictsOnlyUnderPressure
