SPECIFICATION FairSpec
CONSTANTS
  ByteBits = 2
  TxSize = 2
  RxSize = 1
  ExpectHeader = TRUE
  MaxWaiting = 2
  MaxBits = 2
  MaxBytes = 1
  Count = 5
CHECK_DEADLOCK FALSE
INVARIANT PeerBytesInOrder
PROPERTIES QueuedIsTransmitted UnreadIsReadBelowFull
