SPECIFICATION NavSpec
CONSTANTS
  Volumes <- AllVolumes
  ClusterSize = 2
  DataStart = 2
  ImageLen = 9
  MaxDirBytes = 8
  FIXED_ROOT = 99
  MaxIndex = 6
  Heap = {2, 3, 4, 5}
  Names = {"a", "d", ".."}
\* A node without entries under it leads nowhere.
CHECK_DEADLOCK FALSE
INVARIANTS
  NavTypeOK
  HandlesAreStable
  VfsIdsAreExact
  VfsListedIsFound
  RunsAreWhatIsRead
