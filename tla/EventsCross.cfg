CONSTANTS
  Events = {"m", "n"}
  AutoReset = {}
  InitiallySet = {}
  Nobody = "nobody"
  Threads <- CrossThreads
  Script <- CrossScript
SPECIFICATION Spec
CHECK_DEADLOCK FALSE
INVARIANT NoMutexDeadlock
