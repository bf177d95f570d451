CONSTANTS
  a = a
  b = b
  Uninit = Uninit
  Byte <- MCByte
  Size = 3
  HostBuf = 2
  MaxSent = 6
SPECIFICATION Spec
INVARIANTS
  TypeOK
  FifoIntact
  RingInv
  OverrunNeedsTrim
  NoUninitRead
