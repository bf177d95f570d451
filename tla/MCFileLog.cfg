SPECIFICATION Spec
CONSTANTS
  t1 = t1  t2 = t2
  Context = {t1, t2}
  Payload <- SmallPayloads
  MaxCalls = 2
  MaxRuns = 2
SYMMETRY Threads
INVARIANTS
  TypeOK
  RunIsReadFirst
  WholeFileIsRead
PROPERTY
  ImplementsLogStream
CHECK_DEADLOCK FALSE
