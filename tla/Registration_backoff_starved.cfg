SPECIFICATION FairSpec
CONSTANTS
  T1 = 1
  T2 = 4
  TimerF = 12
  Second = 2
  BackoffCap = 6
  CapShift = 2
  LongLife = 16
  LongMargin = 6
  RegExpires = 20
  HasPassword = TRUE
  Grants = {20}
  Lossy = TRUE
  MaxDelay = 99
  Rejects = FALSE
  ChallengeLimit = 4
  MaxFlight = 2
  MaxFail = 4
PROPERTY BackoffElapses
