SPECIFICATION FairSpec
CONSTANTS
  MaxBatches = 2
  MaxAttempts = 2
  Rejects = FALSE
  MaxReads = 4
  MaxRestarts = 0
PROPERTIES FreshDataKeepsFlowing
CHECK_DEADLOCK FALSE
