SPECIFICATION Spec
CONSTANTS
  T1 = 1
  T2 = 4
  TimerF = 12
  Second = 2
  BackoffCap = 6
  CapShift = 2
  LongLife = 16
  LongMargin = 6
  RegExpires = 20
  HasPassword = TRUE
  Grants = {5, 14, 20, 40}
  Lossy = FALSE
  MaxDelay = 2
  Rejects = FALSE
  ChallengeLimit = 1
  MaxFlight = 1
  MaxFail = 4
INVARIANT BindingNeverLapses
PROPERTY BurstNeedsShortGrant
