CONSTANTS
  Instance = {1, 2, 3}
  Ports <- PortNames
  Edges <- Connections
  OutputPeriod = 2
  Period <- Periods
  End = 8
  Model = {2, 3}
  Stateless = {1}
  Consumer = {2}
  SubStep = {3}
  Scenarios <- SilentScenarios
SPECIFICATION Spec
CHECK_DEADLOCK FALSE
INVARIANT EveryCommandReported
