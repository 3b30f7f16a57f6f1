SPECIFICATION FairSpec
CONSTANTS
  A = A
  Callsigns = {A}
  MMCheckAgain = 1
  MMMaxAge = 1
  MMMaxAgeThreshold = 2
  MMVerify = 3
  UpdateInterval = 1
  TimeoutAircraft = 2
  TimeoutAtc = 3
  Scenarios <- AirspaceScenarios
INVARIANTS
  TypeOK
  NoStaleReadiness
  Watched
  LeavesNothing
PROPERTIES
  GetsMatched
  CrashedIsRemoved
CHECK_DEADLOCK FALSE
