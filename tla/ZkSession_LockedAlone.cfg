CONSTANTS
  Workers = {1, 2}
  Keys = {k1}
  Locking = {TRUE}
  Attempts = 1
  MaxData = 1
  MaxChildren = 2
  k1 = k1
  k2 = k2
  DeadWorker = NULL
  NULL = NULL
SPECIFICATION Spec
CHECK_DEADLOCK FALSE
INVARIANTS
  LockedAlone
