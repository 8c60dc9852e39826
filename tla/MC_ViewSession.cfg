SPECIFICATION FairSessionSpec
CONSTANTS
  WatchKey = {k1, k2}
  Task = {t1, t2, t3}
  Tui = tui
  Caller = {t1, t2, t3, tui}
  MaxCap = 2
  MaxTtl = 1
  MaxTime = 2
INVARIANTS
  SlotsAreHeld
PROPERTIES
  LeftViewsRelease
CHECK_DEADLOCK FALSE
