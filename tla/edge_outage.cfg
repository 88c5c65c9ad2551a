SPECIFICATION Spec
CONSTANTS
  Batches = 3
  MaxRuns = 2
  MaxCuts = 2
  MaxAged = 1
  MaxAppendFailures = 1
  MaxIngestLives = 2
INVARIANTS OutageSurvived
