SPECIFICATION FairSpec
CONSTANTS
  DataBits = 2
  Parity = "E"
  StopBits = 1
  BitSamples = 2
  RxWindow = 5
  OnHold = 2
  OffHold = 1
  TxSize = 1
  RxSize = 1
  LeadIn = 5
  BannerLen = 2
  Prefix = 2
  HeaderLen = 3
  MaxSessions = 2
  ReadBytes = 3
  MaxWritten = 1
  MaxOthers = 2
  PeerBytes <- MCPeerBytes
CHECK_DEADLOCK FALSE
INVARIANTS TypeOK CountMatches FarReadsInOrder
PROPERTIES DataPeerDialled QueuedIsHeard
