SPECIFICATION FairSpec
CONSTANTS
  Metric <- MCMetric
  RuleValue = {"seed", "tight", "wide"}
  Admin = {a1, a2}
  Requests <- MCRequests
  SeedInterval = 5
  SeedCap = 6
  SeedRules <- MCSeedRules
  DefaultCap = 1
  MaxPuts = 2
  MaxFailures = 1
  MaxRestarts = 1
INVARIANTS TypeOK CacheWasStored CapTakesEffect
PROPERTIES CacheConverges CollectorFollows
