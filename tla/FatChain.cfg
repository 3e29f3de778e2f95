SPECIFICATION Spec
CONSTANTS
  Volumes <- AllVolumes
  Starts <- AllStarts
\* The call returns and nothing follows it.
CHECK_DEADLOCK FALSE
INVARIANTS
  TypeOK
  ChainLinked
  CycleHitsCap
  SaneChainIsWhole
  EntryIsItsBits
PROPERTIES
  ImplementsAbs
  Returns
