CONSTANTS
  Packets <- MCPackets
  Kind <- MCKind
  Chunks <- MCChunks
  MaxQueue = 2
  RingCap = 2
  Arriving <- Responses
  HeadReady = TRUE
SPECIFICATION SysFairSpec
CHECK_DEADLOCK FALSE
INVARIANTS TornDownAlone ChunksHandedOver
PROPERTIES SendPathSpec UnInitGoesOn ExitEndsJoins UnInitHeldBy
