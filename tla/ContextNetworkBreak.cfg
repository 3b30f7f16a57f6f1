SPECIFICATION FairSpec
CONSTANTS
  Scenarios <- BreakScenarios
PROPERTIES
  EveryLossLeadsToReconnect
CHECK_DEADLOCK FALSE
