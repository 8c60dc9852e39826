SPECIFICATION Spec
CONSTANTS
  Proc = {p1, p2}
  Object = {o1, o2}
  Extension = {e1, e2}
  Context = {c1}
  MaxVersion = 1
  MaxSaves = 1
SYMMETRY Symmetry
INVARIANTS
  EditsAreOwn
  NothingLeftBehind
  GateNeverLoosened
  TogglesAddUp
CHECK_DEADLOCK FALSE
