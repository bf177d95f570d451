CONSTANTS
  MaxMarker = 255
  MaxLoss = 2
  MaxMessages = 2
  Call <- MCCall
  Strings <- MCStrings
SPECIFICATION Spec
CHECK_DEADLOCK FALSE
INVARIANT DecodeNeverPanics
