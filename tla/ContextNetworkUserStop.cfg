SPECIFICATION Spec
CONSTANTS
  Scenarios <- UserStopScenarios
INVARIANTS
  NoReconnectAfterUserDisconnect
CHECK_DEADLOCK FALSE
