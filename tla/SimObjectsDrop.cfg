SPECIFICATION FairSpec
CONSTANTS
  A = A
  B = B
  m1 = m1
  m2 = m2
  Callsigns = {A, B}
  Models = {m1, m2}
  Scenarios <- DropScenarios
PROPERTIES
  DropsEndDisabled
CHECK_DEADLOCK FALSE
