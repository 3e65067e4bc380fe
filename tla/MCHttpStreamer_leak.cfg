CONSTANTS
  t1 = t1
  t2 = t2
  k1 = k1
  k2 = k2
  k3 = k3
  Handlers <- MCHandlers
  Sockets <- MCSockets
  NoSocket = NoSocket
  MaxClients = 2
  MaxThrows = 1
SPECIFICATION Spec
CHECK_DEADLOCK FALSE
INVARIANTS
  SubscribersReturned
