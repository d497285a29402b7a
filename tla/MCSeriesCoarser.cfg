SPECIFICATION Spec
CONSTANTS
  TicksPerSecond = 2
  SecondsPerMinute = 2
  StartOffset <- MCStartOffset
  EndOffset <- MCEndOffset
  Value = {1, 4}
  Queries <- CoarserQueries
  MaxTime = 9
  MaxRows = 3
INVARIANTS CoarserAverageExact
CHECK_DEADLOCK FALSE
