CONSTANTS
  w1 = w1
  w2 = w2
  c1 = c1
  c2 = c2
  c3 = c3
  NoConn = NoConn
  Workers <- MCWorkers
  Conns <- MCConns
SPECIFICATION Spec
INVARIANTS
  TypeOK
  NoConnectionRejected
  ShutdownDrainsConnections
PROPERTIES
  StopAfterAcceptJoined
  ShutdownTerminates
  QueuedConnectionServed
