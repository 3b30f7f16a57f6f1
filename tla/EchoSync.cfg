SPECIFICATION Spec
CONSTANTS
  d1 = d1
  q1 = q1
  q2 = q2
  nobody = nobody
  a = a
  x = x
  Clients <- MCClients
  Direct <- MCDirect
  Values <- MCValues
  Accepts <- MCAccepts
  Nobody = nobody
  MaxQueue = 2
INVARIANTS
  TypeOK
  PendingExact
  Convergence
  IInv
CHECK_DEADLOCK FALSE
