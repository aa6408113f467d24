CONSTANTS
  Sessions = {1, 2}
  Early = {}
  MaxNodes = 2
  PathTries = 4
  LockTries = 4
  Retry = 3
  UnlockTries = 3
  NULL = NULL
  DeadOwner = NULL
SPECIFICATION Spec
CHECK_DEADLOCK FALSE
INVARIANTS WaiterWatches
