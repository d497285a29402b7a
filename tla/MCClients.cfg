SPECIFICATION Spec
CONSTANTS
  Producer = {p1, p2}
  Worker = {w1, w2}
  Flags <- MCFlags
  MaxOtherRows = 1
  MaxCountFails = 1
  Temperature = {"STM"}
  Pressure = {"OC"}
  Points <- MCPoints
  Lookback = 2
  Retention = 4
  Day = 2
  Days = 2
  FillBatch = 2
  Horizon = 6
  MaxFailures = 2
  MaxRuns = 2
SYMMETRY Alike
INVARIANTS
  SentOnce
  DeltaCoversOk
  BackfillComplete
  LastPointArrives
CHECK_DEADLOCK FALSE
