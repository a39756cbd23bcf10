CONSTANTS
  ReadSize = 2
  MaxBytes = 6
  Callbacks <- NoCallbacks
SPECIFICATION FairSpec
CHECK_DEADLOCK FALSE
PROPERTIES StopJoins
