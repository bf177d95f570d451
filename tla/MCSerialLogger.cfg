CONSTANTS
  c1 = c1
  c2 = c2
  c3 = c3
  MaxMarker = 3
  MaxCalls = 3
  Context <- AllContexts
  Payload <- FewPayloads
  Level <- TwoLevels
SPECIFICATION FairSpec
INVARIANTS
  TypeOK
  OneWriter
  OneFramePerMessage
  FramesDecode
PROPERTIES
  ImplementsLogStream
  WriterReleased
