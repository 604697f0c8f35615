SPECIFICATION FairSpec
CONSTANTS
  Baud = 600
  WarmUp = 12
  Acquire = 40
  S1Repeats = 15
  OnesRepeats = 9
  MaxRates = {1200, 2400}
  Lags = {14, 44}
  Leads = {5, 9}
  Settlings = {105}
  FadeTimes = {300, 530, 560, 910, 1150}
  FadeLengths = {40}
INVARIANTS RatesAgree DataHasListener
PROPERTIES HandshakeCompletes FadeSurvived
