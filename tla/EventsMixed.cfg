CONSTANTS
  Events = {"a", "m"}
  AutoReset = {"a"}
  InitiallySet = {}
  Nobody = "nobody"
  Threads <- MixedThreads
  Script <- MixedScript
SPECIFICATION Spec
CHECK_DEADLOCK FALSE
INVARIANTS TypeOK RefCountExact AutoResetExclusive NoFalseWakeup
