SPECIFICATION Spec
CONSTANTS
  Ids = {i1, i2}
  NoId = NoId
  Threads = {t1, t2}
  MaxCalls = 1
  Passive = FALSE
  StreamHeader = FALSE
  Vanishes = TRUE
  DelayedInvites = TRUE
  PipeCap = 1
  MaxNet = 2
SYMMETRY Symmetry
INVARIANT CapRespected
PROPERTY ImplementsLifecycle
