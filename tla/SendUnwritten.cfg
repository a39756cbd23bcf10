CONSTANTS
  Packets <- FewPackets
  Kind <- FewKind
  Chunks <- FewChunks
  MaxQueue = 1
  RingCap = 2
  Stops = "never"
SPECIFICATION FairSpec
CHECK_DEADLOCK FALSE
PROPERTY QueuedIsWritten
