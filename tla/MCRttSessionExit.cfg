CONSTANTS
  a = a
  b = b
  Uninit = Uninit
  Byte <- MCByte
  Size = 3
  HostBuf = 2
  MaxSent = 4
SPECIFICATION FairSession
CHECK_DEADLOCK FALSE
PROPERTY
  TargetIsFreedOnExit
