SPECIFICATION Spec
CONSTANTS
  t1 = t1
  t2 = t2
  Threads = {t1, t2}
  Calls <- MCCalls
  ClusterSize = 2
  DataStart = 1
  ImageLen = 8
  MaxDirBytes = 4
\* Both calls return and nothing follows them.
CHECK_DEADLOCK FALSE
INVARIANTS
  TypeOK
  CursorIsMine
  BytesInPlace
  OkIsComplete
PROPERTIES
  PoisonIsFinal
  CallsReturn
  ReadsAreAtomic
