--------------------------------- MODULE Chat ---------------------------------
(***************************************************************************)
(* The chat registry: class Chat (project/src/chat.cpp), with the Group    *)
(* and Message classes and the message hash it is built from.              *)
(*                                                                         *)
(* The registry is a plain object protected by the server's chat_mtx, so   *)
(* its methods are operators on its three fields:                          *)
(*   us  - users, std::map<int, User>: the name recorded at each socket    *)
(*   cr  - the names of the groups that exist, and                         *)
(*   mb  - the members of each group (std::vector<Group>)                  *)
(*   ms  - messages, std::map<size_t, Message>: the queued messages, no    *)
(*         two of them with the same hash                                  *)
(* A method that returns bool is split in two: what it returns, and what   *)
(* it makes of the field.  A vector without duplicates is kept as a set:   *)
(* its order only shows in the tables the server prints.                   *)
(*                                                                         *)
(* Here and in the other modules, a definition that is introduced by       *)
(* "Fault:" is not part of the model.  It is the definition after it with  *)
(* a bug, and serves to see a property fail.                               *)
(***************************************************************************)
EXTENDS Integers

CONSTANTS
  Names,      \* user names
  NoUser,     \* an empty entry of the users map
  Fds,        \* the descriptors a connection may get
  NoFd,       \* what getSocketFromUser returns for an unknown user (-1)
  Groups,     \* group names
  Texts,      \* message contents and file paths
  NoTitle     \* the empty title of a text message

ASSUME ChatAssumption ==
  /\ NoUser \notin Names
  /\ Fds \subseteq Nat
  /\ NoFd \notin Fds
  /\ NoTitle \notin Texts

-----------------------------------------------------------------------------
(* Users.                                                                  *)

UserMaps == [Fds -> Names \cup {NoUser}]

HasUser(us, u) == u # NoUser /\ \E f \in Fds : us[f] = u

\* The socket recorded for u; the map is walked in the order of the sockets.
SocketOf(us, u) ==
  IF HasUser(us, u)
  THEN CHOOSE f \in Fds : us[f] = u /\ \A g \in Fds : us[g] = u => f <= g
  ELSE NoFd

\* Fault: the name is not looked for.
AddUserUnchecked(us, u, f) == [us EXCEPT ![f] = u]

\* addUser refuses a name that is known, and otherwise writes the entry of
\* the socket whatever is there already.
AddUser(us, u, f) == IF HasUser(us, u) THEN us ELSE [us EXCEPT ![f] = u]

DelUser(us, u) == [f \in Fds |-> IF f = SocketOf(us, u) THEN NoUser ELSE us[f]]

-----------------------------------------------------------------------------
(* Groups.                                                                 *)

MemberMaps == [Groups -> SUBSET Names]

\* Fault: the user is not looked for.
AddUnknownUserToGroupOK(us, cr, mb, u, g) == g \in cr /\ u \notin mb[g]

AddUserToGroupOK(us, cr, mb, u, g) ==
  /\ HasUser(us, u)
  /\ g \in cr
  /\ u \notin mb[g]

AddUserToGroup(us, cr, mb, u, g) ==
  IF AddUserToGroupOK(us, cr, mb, u, g)
  THEN [mb EXCEPT ![g] = @ \cup {u}]
  ELSE mb

DelUserFromGroup(mb, u, g) == [mb EXCEPT ![g] = @ \ {u}]

-----------------------------------------------------------------------------
(* Messages.  A message with a title is a file: the title is its path.     *)

Messages ==
  [src : Names, dst : Names, title : Texts \cup {NoTitle}, content : Texts]

IsFile(m) == m.title # NoTitle

\* std::hash<Message> mixes the hashes of the source, of the destination and
\* of the title, or of the content when there is no title.  The hash is taken
\* to be injective on these three; that a file and a text, or two files of
\* the same path, hash alike is kept.
Hash(m) == <<m.src, m.dst, IF IsFile(m) THEN m.title ELSE m.content>>

MsgIds == Names \X Names \X Texts

HasMessage(ms, id) == \E m \in ms : Hash(m) = id

AddMessage(ms, m) == IF HasMessage(ms, Hash(m)) THEN ms ELSE ms \cup {m}

\* Fault: all the messages for the user are taken for the one.
DelInbox(ms, id) == {m \in ms : m.dst # id[2]}

DelMessage(ms, id) == {m \in ms : Hash(m) # id}

MessagesIds(ms) == {Hash(m) : m \in ms}
=============================================================================
