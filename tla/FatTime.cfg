SPECIFICATION Spec
CONSTANTS
  LastYear = 2107
  Times <- MCTimes
\* The calendar stops with the last year a date can hold.
CHECK_DEADLOCK FALSE
INVARIANTS
  DaysAreCounted
PROPERTIES
  OrderIsKept
