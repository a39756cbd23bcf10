CONSTANTS
  ReadSize = 3
  MaxBytes = 7
  Callbacks <- RecvAndSend
SPECIFICATION FairSpec
CHECK_DEADLOCK FALSE
INVARIANTS TypeOK LoopUsesOwnSocket ArrivalSeen StopClosesOwn
PROPERTIES StopJoinsIfPeerGone
