CONSTANTS
  o1 = o1
  o2 = o2
  h1 = h1
  h2 = h2
  Objects = {o1}
  Handles = {h1}
  MaxCells = 2
  NULL = NULL
SPECIFICATION Spec
CHECK_DEADLOCK FALSE
INVARIANTS
  PointersLive
