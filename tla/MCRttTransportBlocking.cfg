CONSTANTS
  a = a
  b = b
  Uninit = Uninit
  Byte <- MCByte
  Size = 4
  HostBuf = 2
  MaxSent = 6
SPECIFICATION FairBlockingSpec
PROPERTIES
  ImplementsByteChannel
  WriteReturns
  PublishedIsDelivered
