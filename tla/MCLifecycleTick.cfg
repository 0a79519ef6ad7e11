SPECIFICATION FairSpec
CONSTANTS
  Trends = {t1, t2}
  Batches = {b1, b2}
  Executions = {e1}
  Cap = 2
  Overlap = FALSE
  Detached = FALSE
  NoBatch = NoBatch
INVARIANTS
  TypeOK
  OneApplicationPerBatch
  TwoCycleRetirement
  ClosedBatchLosesNoTrend
PROPERTIES
  ImplementsEvaluation
  NoBatchStuck
