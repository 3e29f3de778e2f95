SPECIFICATION Spec
CONSTANTS
  U32_MAX = 2147483647
  FAT12_MAX_CLUSTERS = 4085
  FAT16_MAX_CLUSTERS = 65525
  MAX_FAT_BYTES = 268435456
  BootLen = 512
  Boots <- AllBoots
  Volumes <- AllLayouts
  Cuts <- AllCuts
\* open returns and nothing follows it.
CHECK_DEADLOCK FALSE
INVARIANTS
  LayoutFitsVolume
  WrittenVolumeIsRead
  EntriesCached
