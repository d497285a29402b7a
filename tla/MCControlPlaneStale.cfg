SPECIFICATION Spec
CONSTANTS
  Metric <- MCMetric
  RuleValue = {"seed", "tight", "wide"}
  Admin = {a1, a2}
  Requests <- MCRequests
  SeedInterval = 5
  SeedCap = 6
  SeedRules <- MCSeedRules
  DefaultCap = 1
  MaxPuts = 1
  MaxFailures = 0
  MaxRestarts = 0
INVARIANTS BoundsTakeEffect
