SPECIFICATION FairSpec
CONSTANTS
  TicksPerSecond = 2
  SecondsPerMinute = 2
  StartOffset <- MCStartOffset
  EndOffset <- MCEndOffset
  Value = {1, 4}
  Queries <- MCQueries
  MaxTime = 9
  MaxRows = 3
INVARIANTS TypeOK ExactOnWholeSteps LiveRowsShown
PROPERTIES ShownStaysShown LateRowsShown
\* The clock stops at MaxTime.
CHECK_DEADLOCK FALSE
