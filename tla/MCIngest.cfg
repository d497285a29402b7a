SPECIFICATION FairSpec
CONSTANTS
  Client <- MCClient
  Source <- MCSource
  Token <- MCToken
  Tokens <- MCTokens
  Metric <- MCMetric
  Worker = {w1, w2}
  Backlog <- MCBacklog
  Retries <- MCRetries
  ChunkRows = 2
  MaxFailures = 1
  MaxTimeouts = 1
  MaxRestarts = 1
INVARIANTS TypeOK AckedIsHandled RefusedLeavesNothing OwnSourceOnly CountedOnce MetricsConsistent
PROPERTIES StoredIsChecked
CHECK_DEADLOCK FALSE
