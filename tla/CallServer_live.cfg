SPECIFICATION FairSpec
CONSTANTS
  Ids = {i1}
  NoId = NoId
  Threads = {t1, t2}
  MaxCalls = 0
  Passive = FALSE
  StreamHeader = TRUE
  Vanishes = FALSE
  DelayedInvites = FALSE
  PipeCap = 2
  MaxNet = 2
INVARIANTS OneCallPerId WriteHasTarget
PROPERTIES EndedIsReaped HangUpEndsCall MainLoopReturns
