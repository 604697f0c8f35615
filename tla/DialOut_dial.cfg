SPECIFICATION FairSpec
CONSTANTS
  MaxAuth = 1
  MaxNet = 2
CHECK_DEADLOCK FALSE
INVARIANT NoCallLeftBehind
PROPERTIES CancelSettles SetupEnds HangUpEndsProgram
