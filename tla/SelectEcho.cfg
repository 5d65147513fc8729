SPECIFICATION Spec
CONSTANTS
  Conns = {c1, c2, c3}
  NoConn = NoConn
  NFds = 6
  FdSetSize = 6
  Backlog = 1
  MaxLine = 2
  Room = 1
  MaxSent = 3
INVARIANTS
  TableSound
  ReadyCounted
PROPERTIES
  EchoSafe
  EchoArrives
CHECK_DEADLOCK FALSE
