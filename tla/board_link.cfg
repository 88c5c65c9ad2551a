SPECIFICATION Spec
CONSTANTS
  Runs = 2
  Steps = 2
  CycleAfter = 1
  HelloLimit = 2
  Faults = 1
INVARIANTS
  TypeOK
  LogAheadOfKernel
  PinnedRunReplays
PROPERTIES
  RunEnds
CHECK_DEADLOCK FALSE
