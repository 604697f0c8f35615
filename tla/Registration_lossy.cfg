SPECIFICATION CooperativeSpec
CONSTANTS
  T1 = 1
  T2 = 4
  TimerF = 12
  Second = 2
  BackoffCap = 6
  CapShift = 2
  LongLife = 16
  LongMargin = 6
  RegExpires = 10
  HasPassword = TRUE
  Grants = {4, 10}
  Lossy = TRUE
  MaxDelay = 99
  Rejects = TRUE
  ChallengeLimit = 4
  MaxFlight = 2
  MaxFail = 4
INVARIANTS RetransmitOnSchedule BackoffAfterRepeat
PROPERTIES BackoffNeverShrinks NeverSilent BindingRecovers
