SPECIFICATION FairSpec
CONSTANTS
  Frame = 2
  Sample = 2
  BufBytes = 3
  Decoded = {0, 2}
  IgnoreRtp = FALSE
  MaxSent = 4
  MaxQueue = 1
  MaxDue = 2
  MaxLead = 1
CHECK_DEADLOCK FALSE
INVARIANTS PeerAudioConserved ConsumerClocked
PROPERTIES PeerAudioPlayed ByeEndsBridge
