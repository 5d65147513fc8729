\* Four clients, two of them of one name and one without a name, connect as they
\* like.
CONSTANTS
  c1 = c1
  c2 = c2
  c3 = c3
  c4 = c4
  ann = ann
  bob = bob
  club = club
  Names = {ann, bob}
  NoUser = NoUser
  Fds = {4, 5}
  NoFd = NoFd
  Groups = {Online, Offline}
  Texts = {hi}
  NoTitle = NoTitle
  Conns = {c1, c2, c3, c4}
  NoConn = NoConn
  Unregistered = Unregistered
  NameOf <- MCNameOf
  Slots = {0, 1}
  Online = Online
  Offline = Offline
  NoMsg = NoMsg
  MaxRequests = 1
  ExclusiveNames = FALSE
SYMMETRY Twins
SPECIFICATION Spec
\* The server may stop: exit() and SIGPIPE end it, and clients may leave.
CHECK_DEADLOCK FALSE
INVARIANTS
  TypeOK
  RegistryConsistent
  OnlineIsServed
PROPERTIES
  NoSilentLoss
  MailboxSpec
