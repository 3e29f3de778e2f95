SPECIFICATION Spec
CONSTANTS
  Dirs <- MCDirs
  MaxSlots = 3
  MaxIndex = 65535
\* The scan ends and nothing follows it.
CHECK_DEADLOCK FALSE
INVARIANTS
  PartsAreBound
