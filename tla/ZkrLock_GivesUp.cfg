CONSTANTS
  Sessions = {1, 2}
  Early = {}
  MaxNodes = 3
  PathTries = 4
  LockTries = 4
  Retry = 3
  UnlockTries = 3
  NULL = NULL
  DeadOwner = 1
SPECIFICATION MCFairSpec
CHECK_DEADLOCK FALSE
PROPERTIES GivesUp
