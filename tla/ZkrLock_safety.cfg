CONSTANTS
  Sessions = {1, 2}
  Early = {}
  MaxNodes = 2
  PathTries = 1
  LockTries = 2
  Retry = 2
  UnlockTries = 2
  NULL = NULL
  DeadOwner = NULL
SPECIFICATION Spec
CHECK_DEADLOCK FALSE
INVARIANTS
  TypeOK
  OwnerIsFirst
  MutualExclusion
  OneNodePerSession
  OkIsInLine
PROPERTIES
  ImplementsWriteLock
