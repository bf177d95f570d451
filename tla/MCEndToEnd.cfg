CONSTANTS
  Uninit = Uninit
  NoMark = NoMark
  Byte = {0, 1, 2}
  Message <- MCMessage
  MaxMarker = 3
  Size = 3
  HostBuf = 2
  MaxSent = 100
  MaxMessages = 3
  MaxResets = 1
SPECIFICATION EndToEndSpec
CONSTRAINT Alternating
CHECK_DEADLOCK FALSE
INVARIANTS
  EndToEndTypeOK
  StreamIsContiguous
  AttachedLogsAreIntact
  DownloadedLogsAreComplete
