CONSTANTS
  Producers = {p1, p2}
  Drainers = {d}
  Writers = {}
  Cap = 2
  MaxPush = 3
SPECIFICATION FairSpec
INVARIANTS TypeOK BlankConservation CountInRange
PROPERTIES FifoSpec FullRingHolds
CHECK_DEADLOCK FALSE
