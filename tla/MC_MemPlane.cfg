SPECIFICATION Spec
CONSTANTS
  Ids = {1, 2, 3}
  Writer = {w}
  Reader = {r}
  Subscriber = {s}
  Windows <- AskedWindows
  HistoryCap = 2
  MaxRevision = 4
INVARIANTS
  PlaneAgrees
  PageExactWhenCurrent
  HistoryReplays
  SubscriberFollows
CONSTRAINT OneAtATime
CHECK_DEADLOCK FALSE
