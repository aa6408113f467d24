CONSTANTS
  o1 = o1
  o2 = o2
  h1 = h1
  h2 = h2
  Objects = {o1, o2}
  Handles = {h1, h2}
  MaxCells = 3
  NULL = NULL
SPECIFICATION Spec
CHECK_DEADLOCK FALSE
SYMMETRY Symmetry
INVARIANTS
  TypeOK
  NoLeak
  TableIsLive
PROPERTIES
  DropsOlder
