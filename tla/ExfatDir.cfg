SPECIFICATION Spec
CONSTANTS
  Dirs <- MCDirs
  MaxSlots = 5
  MaxIndex = 65535
  NameUnits = 2
\* The scan ends and nothing follows it.
CHECK_DEADLOCK FALSE
INVARIANTS
  TypeOK
  SetsAreDisjoint
  ListsEverySet
  WrittenSetIsRead
