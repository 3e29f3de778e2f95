SPECIFICATION SumSpec
CONSTANTS
  Half = 32768
  Bytes <- AllBytes
  BytesPerSector = 12
  RegionSectors = 11
  Regions <- MCRegions
\* The sum is made and nothing follows.
CHECK_DEADLOCK FALSE
INVARIANTS
  TellsOneByte
