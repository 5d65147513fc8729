\* A session whose user is not in the online group.
CONSTANTS
  c1 = c1
  c2 = c2
  c3 = c3
  c4 = c4
  ann = ann
  bob = bob
  club = club
  Names = {ann, bob}
  NoUser = NoUser
  Fds = {4, 5, 6}
  NoFd = NoFd
  Groups = {Online, Offline}
  Texts = {hi}
  NoTitle = NoTitle
  Conns = {c1, c2, c3}
  NoConn = NoConn
  Unregistered = Unregistered
  NameOf <- MCNameOf
  Slots = {0, 1}
  Online = Online
  Offline = Offline
  NoMsg = NoMsg
  MaxRequests = 0
  ExclusiveNames = FALSE
SPECIFICATION Spec
\* The server may stop: exit() and SIGPIPE end it, and clients may leave.
CHECK_DEADLOCK FALSE
INVARIANTS
  SessionIsOnline
