SPECIFICATION TableSpec
CONSTANTS
  v1 = v1
  v2 = v2
  v3 = v3
  View <- Views
  KindOf <- MCKindOf
  Ids = {1, 2, 3}
  Contents <- NoneOrAll
  Name <- RowNames
  Heights = {1, 2}
  MaxDeltas = 1
SYMMETRY Symmetry
INVARIANTS
  WindowIsWatched
PROPERTIES
  KeyActsOnHighlighted
CHECK_DEADLOCK FALSE
