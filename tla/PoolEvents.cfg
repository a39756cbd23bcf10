CONSTANTS
  Events <- PoolEventNames
  AutoReset <- PoolAutoReset
  InitiallySet <- PoolInitiallySet
  Nobody = "nobody"
  Threads <- PoolThreads
  Script <- PoolScript
SPECIFICATION FairSpec
CHECK_DEADLOCK FALSE
INVARIANTS NoMutexDeadlock
PROPERTY UnInitReturns
