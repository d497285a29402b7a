SPECIFICATION FairSpec
CONSTANTS
  Metric <- MCMetric
  Worker = {w1, w2}
  Batches <- MCBatches
  Rules <- MCRules
  Caps = {1}
  DefaultCap = 2
  HasNotifiers = TRUE
  MaxRequests = 2
  MaxReloads = 2
  MaxDays = 2
  MaxRestarts = 1
INVARIANTS TypeOK CapRespected
PROPERTIES ImplementsAlarmLog SuppressedOnlyAtCap CheckEnds
CHECK_DEADLOCK FALSE
