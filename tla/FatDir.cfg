SPECIFICATION Spec
CONSTANTS
  Dirs <- MCDirs
  MaxSlots = 5
  MaxIndex = 65535
\* The scan ends and nothing follows it.
CHECK_DEADLOCK FALSE
INVARIANTS
  TypeOK
  NamedByItsRun
  WrittenNameIsRead
  ListsAllEntries
