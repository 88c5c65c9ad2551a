SPECIFICATION FairSpec
CONSTANTS
  PollErrorBudget = 1
  MaxPods = 2
  MaxMeddles = 1
INVARIANTS TypeOK OutcomeTrue 
PROPERTIES ForeignJobKept JobsGoAway
CHECK_DEADLOCK FALSE
