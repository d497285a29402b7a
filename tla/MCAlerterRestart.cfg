SPECIFICATION Spec
CONSTANTS
  Metric <- MCMetric
  Worker = {w1}
  Batches <- MCBatches
  Rules <- MCRules
  Caps = {1}
  DefaultCap = 1
  HasNotifiers = TRUE
  MaxRequests = 2
  MaxReloads = 2
  MaxDays = 1
  MaxRestarts = 1
INVARIANTS HardCeiling
CHECK_DEADLOCK FALSE
