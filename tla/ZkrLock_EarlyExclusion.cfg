CONSTANTS
  Sessions = {1, 2}
  Early = {1, 2}
  MaxNodes = 2
  PathTries = 1
  LockTries = 1
  Retry = 1
  UnlockTries = 1
  NULL = NULL
  DeadOwner = NULL
SPECIFICATION Spec
CHECK_DEADLOCK FALSE
INVARIANTS MutualExclusion
