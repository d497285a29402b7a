SPECIFICATION Spec
CONSTANTS
  Client <- StaleClient
  Source <- StaleSource
  Token = {"ts", "tf"}
  Tokens <- StaleTokens
  Metric <- MCMetric
  Worker = {w1}
  Backlog <- StaleBacklog
  Retries <- StaleRetries
  ChunkRows = 2
  MaxFailures = 0
  MaxTimeouts = 0
  MaxRestarts = 0
INVARIANTS OneEventPerCrossing
