CONSTANTS
  Run = {r1, r2, r3}
  Contents = {a, b}
  None = None
  MaxFaults = 2
  MaxKills = 1
  MaxLate = 1
SPECIFICATION Spec
SYMMETRY Symmetry
INVARIANTS TypeOK RefusalIsClean SuccessInBothStores DisagreementNamed RepairConverges
CHECK_DEADLOCK FALSE
