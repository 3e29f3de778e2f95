SPECIFICATION Spec
CONSTANTS
  Images <- MCImages
  MAX_DEPTH = 3
  ReadsFail = TRUE
  ClusterSize = 2
  DataStart = 2
  ImageLen = 8
  MaxDirBytes = 8
  FIXED_ROOT = 99
  MaxIndex = 8
  Heap = {2, 3, 4}
  Names = {"a", ".", ".."}
\* The audit returns and nothing follows it.
CHECK_DEADLOCK FALSE
INVARIANTS
  TypeOK
  ReportedOnce
  WalkIsComplete
  OnlyLiveDirsWalked
PROPERTIES
  AuditEnds
