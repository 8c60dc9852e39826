SPECIFICATION Spec
CONSTANTS
  Procs = {p1, p2}
  Commands <- AllCommands
  Name = {"x", "f", "g", "d", "e"}
  Context = {"p", "s", "u"}
  Class <- Classes
  MaxSwitches = 1
SYMMETRY Symmetry
INVARIANTS
  DangerousNeedsReason
  RecordsAreTrue
  SequentialUpdatesKept
CHECK_DEADLOCK FALSE
