SPECIFICATION FairSpec
CONSTANTS
  Blk = 3
  SlipMax = 2
  FifoCap = 8
  Sock = 6
  Chunk = 4
CHECK_DEADLOCK FALSE
INVARIANTS OneBlockEach FifoFollowsSlip
PROPERTIES LineTurns EndReachesOther
