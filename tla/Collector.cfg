SPECIFICATION FairSpec
CONSTANTS
  MaxBatches = 2
  MaxAttempts = 2
  Rejects = TRUE
  MaxReads = 3
  MaxRestarts = 2
INVARIANTS
  TypeOK NoSilentLoss ChronologicalNames DeliveredInOrder CapacityRespected
  SenderDiesOnlyByEviction
PROPERTIES RemovedOnlyWhenAnswered ImplementsDeliveryQueue EventuallySettled
CHECK_DEADLOCK FALSE
