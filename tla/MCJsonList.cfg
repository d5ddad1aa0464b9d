CONSTANTS
  Nodes = {n1, n2, n3, n4, n5}
  NULL = NULL
  Indices = {0, 1, 2}
  MaxNew = 3
SPECIFICATION Spec
INVARIANTS WellLinked EachItemOnce DetachedPointsNowhere
PROPERTY Refines
SYMMETRY Symmetry
CHECK_DEADLOCK FALSE
