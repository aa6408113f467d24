CONSTANTS
  s1 = s1
  s2 = s2
  a1 = a1
  a2 = a2
  Scripts = {s1, s2}
  Acls = {a1, a2}
  BAD = BAD
  Lengths <- MCLengths
  Lists <- MCLists
  MaxZxid = 4
  NULL = NULL
SPECIFICATION Spec
SYMMETRY Symmetry
INVARIANTS
  TypeOK
  ValueGoesWithStat
PROPERTIES
  NoLostUpdate
  NoLostAcl
