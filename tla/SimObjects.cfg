SPECIFICATION FairSpec
CONSTANTS
  A = A
  B = B
  m1 = m1
  m2 = m2
  Callsigns = {A, B}
  Models = {m1, m2}
  Scenarios <- ObjectScenarios
INVARIANTS
  TypeOK
  OnePendingAdded
  NoPhantom
  NoGhosts
  RenderedAgrees
PROPERTIES
  LeavesSimulator
  ComesToSimulator
CHECK_DEADLOCK FALSE
