\* Two connections, one of a client that sends files, with heartbeats or without:
\* one is accepted while the other is served, swept, left or stopped.
SPECIFICATION FairSpec
CONSTANTS
  c1 = c1
  c2 = c2
  NoConn = NoConn
  Conns <- TwoConns
  Senders <- OneConn
  Beaters <- BeatsOrNot
  MaxAhead = 2
INVARIANTS
  TypeOK
  WholeFileIsHandedOver
PROPERTIES
  LockIsReleased
  LeftIsErased
  StopEnds
\* The process may die, and ends when the service has stopped.
CHECK_DEADLOCK FALSE
