SPECIFICATION FairSpec
CONSTANTS
  Scenarios <- AllScenarios
INVARIANTS
  TypeOK
  DisconnectedIsQuiet
  OffTheNetwork
  LoginOnItsWay
  BudgetHolds
PROPERTIES
  KickStopsReconnect
  AttemptEnds
  DropLeadsToReconnect
CHECK_DEADLOCK FALSE
