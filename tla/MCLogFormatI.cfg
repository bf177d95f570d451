SPECIFICATION Spec
CONSTANTS
  LongSize = 4
  Format <- FormatsWithI
  Arg <- FewArgs
  MaxArgs = 2
INVARIANT PrintsLikePrintf
CHECK_DEADLOCK FALSE
