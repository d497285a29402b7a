SPECIFICATION FairSpec
CONSTANTS
  NumFiles = 5
  NoTx = {2, 3}
  Statements <- MCStatements
  Attempts = 2
  MaxFailures = 3
  MaxKills = 2
INVARIANTS TypeOK NeverHalfRecorded ServesMigrated
PROPERTIES ImplementsSchemaUpgrade EventuallyServes
CHECK_DEADLOCK FALSE
