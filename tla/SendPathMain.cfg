CONSTANTS
  Packets <- MCPackets
  Kind <- MCKind
  Chunks <- MCChunks
  MaxQueue = 2
  RingCap = 2
  Stops = "anytime"
SPECIFICATION FairSpec
CHECK_DEADLOCK FALSE
INVARIANTS TypeOK SemCountsList StreamUnbroken ChunksFiled
PROPERTIES QueueSpec AcceptedIsHandled
