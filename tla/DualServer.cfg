SPECIFICATION Spec
CONSTANTS
  Clients = {u1, u2}
  Connected = {u2}
  MaxLines = 2
  MaxFaults = 1
  Conns = {t1, t2}
  NoConn = NoConn
  MaxProcs = 1
  Backlog = 2
  MaxTyped = 2
INVARIANTS
  UdpInStep
  EchoIsTrue
PROPERTIES
  UdpAnswered
  TcpAnswered
CHECK_DEADLOCK FALSE
