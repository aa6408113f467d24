CONSTANTS
  Workers = {1, 2}
  Keys = {k1, k2}
  Locking = {TRUE, FALSE}
  Attempts = 2
  MaxData = 1
  MaxChildren = 2
  k1 = k1
  k2 = k2
  DeadWorker = 1
  NULL = NULL
SPECIFICATION MCFairSpec
ACTION_CONSTRAINT RequestsForK1
CHECK_DEADLOCK FALSE
INVARIANT TypeOK
 
