CONSTANTS
  Events = {"a", "b", "m"}
  AutoReset = {"a", "b"}
  InitiallySet = {}
  Nobody = "nobody"
  Threads <- LiveThreads
  Script <- LiveScript
SPECIFICATION FairSpec
CHECK_DEADLOCK FALSE
INVARIANTS EventsLeftExact SignalNotLost
PROPERTIES SatisfiedWaitReturns SetEventReleases PulseReleases
