SPECIFICATION Spec
CONSTANTS
  Batches = 4
  MaxRuns = 3
  MaxCuts = 2
  MaxAged = 1
  MaxAppendFailures = 1
  MaxIngestLives = 2
INVARIANTS TypeOK LogInOrder NothingLost WatermarkNeverOverstated
