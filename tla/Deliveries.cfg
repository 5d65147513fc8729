\* Two clients of different names; every deliverable message is delivered.
CONSTANTS
  c1 = c1
  c2 = c2
  c3 = c3
  c4 = c4
  ann = ann
  bob = bob
  club = club
  Names = {ann, bob}
  NoUser = NoUser
  Fds = {4, 5, 6}
  NoFd = NoFd
  Groups = {Online, Offline}
  Texts = {hi}
  NoTitle = NoTitle
  Conns = {c1, c3}
  NoConn = NoConn
  Unregistered = Unregistered
  NameOf <- MCNameOf
  Slots = {0, 1}
  Online = Online
  Offline = Offline
  NoMsg = NoMsg
  MaxRequests = 2
  ExclusiveNames = TRUE
SPECIFICATION FairSpec
\* The server may stop: exit() and SIGPIPE end it, and clients may leave.
CHECK_DEADLOCK FALSE
PROPERTIES
  DeliveredIfBothStay
  HangUpEndsSession
