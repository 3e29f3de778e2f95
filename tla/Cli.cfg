SPECIFICATION CliSpec
CONSTANTS
  Images <- CliImages
  MAX_DEPTH = 3
  ReadsFail = TRUE
  ClusterSize = 2
  DataStart = 2
  ImageLen = 8
  MaxDirBytes = 8
  FIXED_ROOT = 99
  MaxIndex = 8
  Heap = {2, 3, 4}
  Names = {"a", ".", ".."}
\* The program exits and nothing follows it.
CHECK_DEADLOCK FALSE
INVARIANTS
  TwoWalksAgree
PROPERTIES
  ListingEnds
