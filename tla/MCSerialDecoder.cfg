CONSTANTS
  MaxMarker = 3
  MaxLoss = 3
  MaxMessages = 4
  Call <- MCCall
  Strings <- MCStrings
SPECIFICATION Spec
CHECK_DEADLOCK FALSE
INVARIANTS
  TypeOK
  LossIsBounded
PROPERTY
  IntactMessageIsLogged
