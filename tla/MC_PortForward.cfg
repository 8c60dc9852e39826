SPECIFICATION FairForwardSpec
CONSTANTS
  Client = {c1, c2}
  MaxOutages = 1
INVARIANTS
  OneClientAtATime
PROPERTIES
  CancelledStops
  PlainServes
CHECK_DEADLOCK FALSE
