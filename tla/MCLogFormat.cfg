SPECIFICATION Spec
CONSTANTS
  LongSize = 4
  Format <- AllFormats
  Arg <- AllArgs
  MaxArgs = 2
INVARIANTS
  TypeOK
  PrintsWhatWasLogged
CHECK_DEADLOCK FALSE
