--------------------------- MODULE ChatServerProofs ---------------------------
(***************************************************************************)
(* Theorems about ChatServer, for every set of connections, names, slots   *)
(* and descriptors.                                                        *)
(***************************************************************************)
EXTENDS ChatServer, TLAPS

-----------------------------------------------------------------------------
(* What the operations of the registry return.                             *)

\* The registry's methods keep the types of its fields.
LEMMA AddUserType ==
  ASSUME NEW us \in UserMaps, NEW u \in Names, NEW f
  PROVE  AddUser(us, u, f) \in UserMaps
  BY DEF AddUser, UserMaps

LEMMA DelUserType ==
  ASSUME NEW us \in UserMaps, NEW u
  PROVE  DelUser(us, u) \in UserMaps
  BY DEF DelUser, UserMaps

LEMMA AddUserToGroupType ==
  ASSUME NEW us \in UserMaps, NEW cr, NEW mb \in MemberMaps, NEW u, NEW g \in Groups
  PROVE  AddUserToGroup(us, cr, mb, u, g) \in MemberMaps
<1>1. CASE AddUserToGroupOK(us, cr, mb, u, g)
  <2>1. u \in Names
    BY <1>1 DEF AddUserToGroupOK, HasUser, UserMaps
  <2> QED BY <1>1, <2>1 DEF AddUserToGroup, MemberMaps
<1>2. CASE ~AddUserToGroupOK(us, cr, mb, u, g)
  BY <1>2 DEF AddUserToGroup
<1> QED BY <1>1, <1>2

LEMMA DelUserFromGroupType ==
  ASSUME NEW mb \in MemberMaps, NEW u, NEW g \in Groups
  PROVE  DelUserFromGroup(mb, u, g) \in MemberMaps
  BY DEF DelUserFromGroup, MemberMaps

\* What the hash and the identifiers of queued messages are.
LEMMA HashType ==
  ASSUME NEW m \in Messages
  PROVE  Hash(m) \in MsgIds
  BY DEF Messages, Hash, MsgIds, IsFile

-----------------------------------------------------------------------------
(* Types.  What the loop reads by identifier is a message only because its *)
(* identifiers stay valid, and what a worker registers is a name only      *)
(* because it has a connection, so the three are proved together.          *)

\* A worker that runs has a connection, and a name from when it has looked
\* the name up.
WorkersConsistent ==
  \A w \in Slots :
    /\ pc[w] \notin {"free", "release"} => conn[w] \in Conns
    /\ pc[w] \in {"newcomer", "returning"} => user[w] \in Names

TypeInv == TypeOK /\ LoopIdsValid /\ WorkersConsistent

\* An identifier of a queued message denotes that message.
LEMMA MessageAtType ==
  ASSUME NEW id \in MessagesIds(messages)
  PROVE  MessageAt(id) \in messages /\ Hash(MessageAt(id)) = id
  BY DEF MessagesIds, MessageAt

\* The type invariant holds at first, and every step keeps it.
LEMMA TypeInit == Init => TypeInv
  BY ChatServerAssumption
  DEF Init, TypeInv, TypeOK, LoopIdsValid, WorkersConsistent, UserMaps,
      MemberMaps, PCs, Answers, Code, MessagesIds

\* The clients and the accept loop.
LEMMA TypeOutside ==
  ASSUME TypeInv, AcceptStep \/ \E c \in Conns : Client(c)
  PROVE  TypeInv'
<1> USE DEF TypeInv, TypeOK, LoopIdsValid, WorkersConsistent
<1>1. ASSUME NEW c \in Conns, Connect(c)
      PROVE  TypeInv'
  BY <1>1 DEF Connect, chatVars, workerVars, loopVars
<1>2. ASSUME NEW c \in Conns, HangUp(c)
      PROVE  TypeInv'
  BY <1>2 DEF HangUp, chatVars, workerVars, loopVars
<1>3. ASSUME NEW d \in Conns, NEW w \in Slots, Accept(d, w)
      PROVE  TypeInv'
  BY <1>3 DEF Accept, TakeFd, PCs, chatVars, loopVars
<1>4. ASSUME NEW d \in Conns, AcceptNoSlot(d)
      PROVE  TypeInv'
  BY <1>4 DEF AcceptNoSlot, TakeFd, chatVars, workerVars, loopVars
<1>5. ASSUME NEW d \in Conns, AcceptFails(d)
      PROVE  TypeInv'
  BY <1>5 DEF AcceptFails, Die, chatVars, workerVars, loopVars, netVars
<1> QED BY <1>1, <1>2, <1>3, <1>4, <1>5 DEF Client, AcceptStep

\* The steps that a worker takes of its own accord.
LEMMA TypeWorker ==
  ASSUME TypeInv, NEW w \in Slots, WorkerStep(w)
  PROVE  TypeInv'
<1> USE ChatServerAssumption
    DEF TypeInv, TypeOK, LoopIdsValid, WorkersConsistent, PCs
<1>1. CASE RegisterAdd(w)
  BY <1>1, AddUserType DEF RegisterAdd, loopVars, netVars
<1>2. CASE RegisterFails(w)
  BY <1>2 DEF RegisterFails, chatVars, loopVars, netVars
<1>3. CASE RegisterNewcomer(w)
  BY <1>3, AddUserToGroupType DEF RegisterNewcomer, loopVars, netVars
<1>4. CASE RegisterReturning(w)
  BY <1>4, AddUserType, DelUserType, AddUserToGroupType, DelUserFromGroupType
  DEF RegisterReturning, loopVars, netVars
<1>5. CASE Greet(w)
  BY <1>5 DEF Greet, WorkerSend, chatVars, loopVars, netVars
<1>6. CASE RecvEof(w)
  BY <1>6 DEF RecvEof, chatVars, loopVars, netVars
<1>7. CASE SendAnswer(w)
  <2>1. Code("OK") \in Answers
    BY DEF Code, Answers
  <2> QED BY <1>7, <2>1 DEF SendAnswer, WorkerSend, chatVars, loopVars, netVars
<1>8. CASE Unregister(w)
  BY <1>8, AddUserToGroupType, DelUserFromGroupType
  DEF Unregister, loopVars, netVars
<1>9. CASE Close(w)
  BY <1>9 DEF Close, chatVars, loopVars
<1>10. CASE Release(w)
  BY <1>10 DEF Release, chatVars, loopVars, netVars
<1>11. CASE RecvFails(w)
  BY <1>11 DEF RecvFails, Die, chatVars, workerVars, loopVars, netVars
<1> QED BY <1>1, <1>2, <1>3, <1>4, <1>5, <1>6, <1>7, <1>8, <1>9, <1>10, <1>11
        DEF WorkerStep

\* A request leaves alone what the handlers do not write themselves.
LEMMA TypeRequest ==
  ASSUME TypeInv, NEW w \in Slots, NEW a \in Answers, Request(w, a),
         created' \subseteq Groups, members' \in MemberMaps,
         messages \subseteq messages', messages' \subseteq Messages
  PROVE  TypeInv'
<1>1. LoopIdsValid'
  BY DEF TypeInv, LoopIdsValid, MessagesIds, Request, loopVars
<1>2. nreq' \in 0..MaxRequests
  BY ChatServerAssumption DEF TypeInv, TypeOK, Request
<1> QED
  BY <1>1, <1>2
  DEF TypeInv, TypeOK, WorkersConsistent, Request, PCs, loopVars, netVars

\* The requests that a worker handles.
LEMMA TypeHandle ==
  ASSUME TypeInv, NEW w \in Slots, Handle(w)
  PROVE  TypeInv'
<1> USE DEF TypeInv, TypeOK
<1>1. CASE HandleExit(w) \/ HandleWho(w) \/ HandleInvalid(w)
  <2>1. \A k \in {"OK", "USERS_LIST", "INVALID_REQUEST_ERR"} : Code(k) \in Answers
    BY DEF Code, Answers
  <2> QED BY <1>1, <2>1, TypeRequest DEF HandleExit, HandleWho, HandleInvalid
<1>2. ASSUME NEW m \in Messages, HandleSend(w, m)
      PROVE  TypeInv'
  <2>1. \A k \in {"NO_MSG_DST_ERR", "MSG_EXISTS", "MSG_QUEUED"} : Code(k) \in Answers
    BY DEF Code, Answers
  <2>2. messages \subseteq messages' /\ messages' \subseteq Messages
    BY <1>2 DEF HandleSend, AddMessage
  <2> QED BY <1>2, <2>1, <2>2, TypeRequest DEF HandleSend
<1>3. ASSUME NEW g \in Groups, HandleCreateGroup(w, g)
      PROVE  TypeInv'
  <2>1. \A k \in {"GROUP_EXISTS", "GROUP_CREATED"} : GroupCode(k, g) \in Answers
    BY DEF GroupCode, Answers
  <2> QED BY <1>3, <2>1, TypeRequest DEF HandleCreateGroup
<1>4. ASSUME NEW g \in Groups, HandleJoinGroup(w, g)
      PROVE  TypeInv'
  <2>1. \A k \in {"NO_GROUP_ERR", "USER_ALREADY_IN_GROUP", "USER_ADDED_TO_GROUP"} :
          GroupCode(k, g) \in Answers
    BY DEF GroupCode, Answers
  <2> QED BY <1>4, <2>1, TypeRequest, AddUserToGroupType DEF HandleJoinGroup
<1>5. ASSUME NEW g \in Groups, NEW t \in Texts, HandleSendGroup(w, g, t)
      PROVE  TypeInv'
  <2>1. Code("MSG_QUEUED") \in Answers /\ GroupCode("NO_GROUP_ERR", g) \in Answers
          /\ GroupCode("NOT_IN_GROUP_ERR", g) \in Answers
    BY DEF Code, GroupCode, Answers
  <2>2. members[g] \subseteq Names
    BY DEF MemberMaps
  <2>3. user[w] \in members[g] => GroupMessages(user[w], g, t) \subseteq Messages
    BY <2>2 DEF GroupMessages, Messages
  <2>4. messages \subseteq messages' /\ messages' \subseteq Messages
    BY <1>5, <2>3 DEF HandleSendGroup
  <2> QED BY <1>5, <2>1, <2>4, TypeRequest DEF HandleSendGroup
<1> QED BY <1>1, <1>2, <1>3, <1>4, <1>5 DEF Handle

\* The steps of the messages loop.
LEMMA TypeLoop ==
  ASSUME TypeInv, LoopStep
  PROVE  TypeInv'
<1> USE DEF TypeInv, TypeOK, LoopIdsValid, WorkersConsistent
<1>1. CASE LoopLock
  BY <1>1, HashType DEF LoopLock, MessagesIds, chatVars, workerVars, netVars
<1>2. CASE LoopNotify
  BY <1>2 DEF LoopNotify, chatVars, workerVars, netVars
<1>3. CASE LoopKilled
  BY <1>3 DEF LoopKilled, Die, chatVars, workerVars, loopVars, netVars
<1>4. CASE LoopUnlock
  BY <1>4 DEF LoopUnlock, chatVars, workerVars, netVars
<1>5. ASSUME NEW id \in todo, LoopSkip(id)
      PROVE  TypeInv'
  BY <1>5 DEF LoopSkip, chatVars, workerVars, netVars
<1>6. ASSUME NEW id \in todo, LoopDeliver(id)
      PROVE  TypeInv'
  <2>1. cur' \in Messages /\ messages' \subseteq Messages
    BY <1>6, MessageAtType DEF LoopDeliver, DelMessage
  <2>2. LoopIdsValid'
    BY <1>6 DEF LoopDeliver, DelMessage, MessagesIds
  <2> QED BY <1>6, <2>1, <2>2 DEF LoopDeliver, workerVars, netVars
<1>7. ASSUME NEW id \in todo, LoopDeliverFails(id)
      PROVE  TypeInv'
  BY <1>7 DEF LoopDeliverFails, chatVars, workerVars, netVars
<1> QED BY <1>1, <1>2, <1>3, <1>4, <1>5, <1>6, <1>7 DEF LoopStep

\* Every step keeps the type invariant.
LEMMA TypeStep == TypeInv /\ [Next]_vars => TypeInv'
<1> SUFFICES ASSUME TypeInv, [Next]_vars
             PROVE  TypeInv'
  OBVIOUS
<1>1. CASE Next
  BY <1>1, TypeOutside, TypeWorker, TypeHandle, TypeLoop DEF Next
<1>2. CASE UNCHANGED vars
  BY <1>2 DEF TypeInv, TypeOK, LoopIdsValid, WorkersConsistent, MessagesIds,
              vars, chatVars, workerVars, loopVars, netVars
<1> QED BY <1>1, <1>2

\* The type invariant of the proofs.
LEMMA TypeInvariant == Spec => []TypeInv
  BY TypeInit, TypeStep, PTL DEF Spec

\* Every variable keeps its type (the threads of server.cpp, whatever their
\* interleaving).
THEOREM TypeCorrect == Spec => []TypeOK
<1>1. TypeInv => TypeOK
  BY DEF TypeInv
<1> QED BY <1>1, TypeInvariant, PTL

\* The identifiers that the messages loop (messagesLoop) has copied and has yet
\* to look at are identifiers of queued messages: getMessage is defined.
THEOREM LoopIdsCorrect == Spec => []LoopIdsValid
<1>1. TypeInv => LoopIdsValid
  BY DEF TypeInv
<1> QED BY <1>1, TypeInvariant, PTL

-----------------------------------------------------------------------------
(* The registry.                                                           *)

NamesUnique(us) ==
  \A f, g \in Fds : us[f] = us[g] /\ us[f] # NoUser => f = g

IdsUnique(ms) == \A m, n \in ms : Hash(m) = Hash(n) => m = n

\* addUser and delUser never record a name twice.
LEMMA AddUserUnique ==
  ASSUME NEW us \in UserMaps, NamesUnique(us), NEW u \in Names, NEW f
  PROVE  NamesUnique(AddUser(us, u, f))
  BY ChatAssumption DEF NamesUnique, AddUser, HasUser, UserMaps

LEMMA DelUserUnique ==
  ASSUME NEW us \in UserMaps, NamesUnique(us), NEW u
  PROVE  NamesUnique(DelUser(us, u))
  BY DEF NamesUnique, DelUser, UserMaps

\* The socket of a name that is recorded once is where it is recorded.
LEMMA SocketOfUnique ==
  ASSUME NEW us \in UserMaps, NamesUnique(us), NEW f \in Fds, us[f] # NoUser
  PROVE  SocketOf(us, us[f]) = f
<1> DEFINE Lowest(g) == us[g] = us[f] /\ \A h \in Fds : us[h] = us[f] => g <= h
<1>1. Lowest(f)
  BY ChatAssumption DEF NamesUnique
<1>2. \A g \in Fds : Lowest(g) => g = f
  BY DEF NamesUnique
<1>3. (CHOOSE g \in Fds : Lowest(g)) = f
  <2> HIDE DEF Lowest
  <2> QED BY <1>1, <1>2
<1> QED BY <1>3 DEF SocketOf, HasUser

\* addMessage never queues two messages with one hash.
LEMMA AddMessageUnique ==
  ASSUME NEW ms, IdsUnique(ms), NEW m
  PROVE  IdsUnique(AddMessage(ms, m))
  BY DEF IdsUnique, AddMessage, HasMessage

\* The messages to a group differ in their destination.
LEMMA GroupMessagesUnique ==
  ASSUME NEW u, NEW g, NEW t, NEW k \in GroupMessages(u, g, t),
         NEW l \in GroupMessages(u, g, t), Hash(k) = Hash(l)
  PROVE  k = l
  BY DEF GroupMessages, Hash

\* Every step keeps the registry consistent.
LEMMA RegistryStep == TypeInv /\ RegistryConsistent /\ [Next]_vars => RegistryConsistent'
<1> SUFFICES ASSUME TypeInv, NamesUnique(users), IdsUnique(messages), [Next]_vars
             PROVE  NamesUnique(users') /\ IdsUnique(messages')
  BY DEF RegistryConsistent, NamesUnique, IdsUnique
<1>1. ASSUME NEW c \in Conns, Client(c)
      PROVE  UNCHANGED chatVars
  BY <1>1 DEF Client, Connect, HangUp
<1>2. CASE AcceptStep
  BY <1>2 DEF AcceptStep, Accept, AcceptNoSlot, AcceptFails, Die, chatVars
<1>3. ASSUME NEW w \in Slots, WorkerStep(w)
      PROVE  NamesUnique(users') /\ UNCHANGED messages
  <2>1. CASE RegisterAdd(w)
    BY <2>1, AddUserUnique DEF RegisterAdd, TypeInv, TypeOK
  <2>2. CASE RegisterReturning(w)
    <3>1. user[w] \in Names
      BY <2>2 DEF RegisterReturning, TypeInv, WorkersConsistent
    <3>2. DelUser(users, user[w]) \in UserMaps /\ NamesUnique(DelUser(users, user[w]))
      BY DelUserType, DelUserUnique DEF TypeInv, TypeOK
    <3> QED BY <2>2, <3>1, <3>2, AddUserUnique DEF RegisterReturning
  <2>3. CASE ~RegisterAdd(w) /\ ~RegisterReturning(w)
    BY <1>3, <2>3
    DEF WorkerStep, RegisterFails, RegisterNewcomer, Greet, RecvEof, RecvFails, Die,
        SendAnswer, WorkerSend, Unregister, Close, Release, chatVars
  <2> QED BY <2>1, <2>2, <2>3
<1>4. ASSUME NEW w \in Slots, Handle(w)
      PROVE  UNCHANGED users /\ IdsUnique(messages')
  <2>1. CASE HandleExit(w) \/ HandleWho(w) \/ HandleInvalid(w)
    BY <2>1 DEF HandleExit, HandleWho, HandleInvalid, Request
  <2>2. ASSUME NEW m \in Messages, HandleSend(w, m)
        PROVE  UNCHANGED users /\ IdsUnique(messages')
    BY <2>2, AddMessageUnique DEF HandleSend, Request
  <2>3. ASSUME NEW g \in Groups, HandleCreateGroup(w, g) \/ HandleJoinGroup(w, g)
        PROVE  UNCHANGED users /\ IdsUnique(messages')
    BY <2>3 DEF HandleCreateGroup, HandleJoinGroup, Request
  <2>4. ASSUME NEW g \in Groups, NEW t \in Texts, HandleSendGroup(w, g, t)
        PROVE  UNCHANGED users /\ IdsUnique(messages')
    BY <2>4, GroupMessagesUnique DEF HandleSendGroup, Request, IdsUnique, HasMessage
  <2> QED BY <1>4, <2>1, <2>2, <2>3, <2>4 DEF Handle
<1>5. CASE LoopStep
  BY <1>5
  DEF LoopStep, LoopLock, LoopNotify, LoopKilled, LoopUnlock, LoopSkip, LoopDeliver,
      LoopDeliverFails, DelMessage, Die, IdsUnique, chatVars
<1>6. CASE UNCHANGED vars
  BY <1>6 DEF vars, chatVars
<1> QED BY <1>1, <1>2, <1>3, <1>4, <1>5, <1>6 DEF Next, chatVars

\* Although a worker learns that a name is free in one critical section and
\* takes it over in another, no name is ever recorded at two sockets; and no
\* two queued messages have the same hash (registerUser, Chat::addMessage).
THEOREM RegistryCorrect == Spec => []RegistryConsistent
<1>1. Init => RegistryConsistent
  BY DEF Init, RegistryConsistent
<1> QED BY <1>1, RegistryStep, TypeInvariant, PTL DEF Spec

-----------------------------------------------------------------------------
(* The online group and the sessions.                                      *)

\* A worker that stays where it was, or starts to serve, ends no session; the
\* others are not disturbed.
LEMMA SessionsStep ==
  ASSUME NEW w \in Slots,
         \A v \in Slots \ {w} : pc'[v] = pc[v] /\ user'[v] = user[v]
  PROVE  /\ Sessions \ {user[w]} \subseteq Sessions'
         /\ Sessions' \ {user'[w]} \subseteq Sessions
         /\ Serving(w) => user[w] \in Sessions
         /\ Serving(w)' => user'[w] \in Sessions'
         /\ ~Serving(w) => Sessions \subseteq Sessions'
         /\ ~Serving(w)' => Sessions' \subseteq Sessions
  BY DEF Sessions, Serving

\* No operation on another group touches the online group.
LEMMA OnlineUntouched ==
  ASSUME NEW cr, NEW us \in UserMaps, NEW mb \in MemberMaps, NEW u,
         NEW g \in Groups \ {Online}
  PROVE  /\ AddUserToGroup(us, cr, mb, u, g)[Online] = mb[Online]
         /\ DelUserFromGroup(mb, u, g)[Online] = mb[Online]
  BY ChatServerAssumption
  DEF AddUserToGroup, DelUserFromGroup, MemberMaps

\* Every step keeps the members of the online group served.
LEMMA OnlineStep == TypeInv /\ OnlineIsServed /\ [Next]_vars => OnlineIsServed'
<1> SUFFICES ASSUME TypeInv, OnlineIsServed, [Next]_vars
             PROVE  OnlineIsServed'
  OBVIOUS
<1> USE DEF OnlineIsServed
<1>1. ASSUME NEW c \in Conns, Client(c)
      PROVE  OnlineIsServed'
  BY <1>1 DEF Client, Connect, HangUp, Sessions, Serving, chatVars, workerVars
<1>2. CASE AcceptStep
  <2>1. ASSUME NEW c \in Conns, NEW w \in Slots, Accept(c, w)
        PROVE  OnlineIsServed'
    <3>1. ~Serving(w)
      BY <2>1 DEF Accept, LowestFreeSlot, Serving
    <3>2. \A v \in Slots \ {w} : pc'[v] = pc[v] /\ user'[v] = user[v]
      BY <2>1 DEF Accept, TypeInv, TypeOK
    <3> QED BY <2>1, <3>1, <3>2, SessionsStep DEF Accept, chatVars
  <2>2. ASSUME NEW c \in Conns, AcceptNoSlot(c) \/ AcceptFails(c)
        PROVE  OnlineIsServed'
    BY <2>2 DEF AcceptNoSlot, AcceptFails, Die, Sessions, Serving, chatVars, workerVars
  <2> QED BY <1>2, <2>1, <2>2 DEF AcceptStep
<1>3. ASSUME NEW w \in Slots, WorkerStep(w)
      PROVE  OnlineIsServed'
  <2> USE DEF TypeInv, TypeOK
  <2>0. \A v \in Slots \ {w} : pc'[v] = pc[v] /\ user'[v] = user[v]
    BY <1>3
    DEF WorkerStep, RegisterAdd, RegisterFails, RegisterNewcomer, RegisterReturning,
        Greet, RecvEof, RecvFails, Die, SendAnswer, WorkerSend, Unregister, Close,
        Release, workerVars
  <2>1. CASE RegisterAdd(w) \/ RegisterFails(w) \/ Close(w) \/ Release(w)
    <3>1. ~Serving(w) /\ UNCHANGED members
      BY <2>1 DEF RegisterAdd, RegisterFails, Close, Release, Serving, chatVars
    <3> QED BY <2>0, <3>1, SessionsStep
  <2>2. CASE RegisterNewcomer(w)
    <3>1. user[w] \in Names /\ ~Serving(w) /\ Serving(w)' /\ user'[w] = user[w]
      BY <2>2 DEF RegisterNewcomer, WorkersConsistent, Serving
    <3>2. members'[Online] \subseteq members[Online] \cup {user[w]}
      BY <2>2, ChatServerAssumption DEF RegisterNewcomer, AddUserToGroup, MemberMaps
    <3> QED BY <2>0, <3>1, <3>2, SessionsStep
  <2>3. CASE RegisterReturning(w)
    <3>1. user[w] \in Names /\ ~Serving(w) /\ Serving(w)' /\ user'[w] = user[w]
      BY <2>3 DEF RegisterReturning, WorkersConsistent, Serving
    <3> DEFINE mb == DelUserFromGroup(members, user[w], Offline)
    <3>2. mb \in MemberMaps /\ mb[Online] = members[Online]
      BY ChatServerAssumption, DelUserFromGroupType, OnlineUntouched
    <3>3. members'[Online] \subseteq members[Online] \cup {user[w]}
      <4> HIDE DEF mb
      <4>1. \E us \in UserMaps : members' = AddUserToGroup(us, created, mb, user[w], Online)
        BY <2>3, <3>1, AddUserType, DelUserType DEF RegisterReturning, mb
      <4> QED BY <3>2, <4>1, ChatServerAssumption DEF AddUserToGroup, MemberMaps
    <3> QED BY <2>0, <3>1, <3>3, SessionsStep
  <2>4. CASE Greet(w) \/ RecvEof(w) \/ RecvFails(w) \/ SendAnswer(w)
    <3>1. UNCHANGED <<user, members>> /\ (Serving(w) => Serving(w)')
      BY <2>4 DEF Greet, RecvEof, RecvFails, Die, SendAnswer, WorkerSend, Serving,
                  chatVars, workerVars
    <3> QED BY <2>0, <3>1, SessionsStep
  <2>5. CASE Unregister(w)
    <3> DEFINE mb == DelUserFromGroup(members, user[w], Online)
    <3>1. mb \in MemberMaps /\ mb[Online] = members[Online] \ {user[w]}
      BY ChatServerAssumption, DelUserFromGroupType DEF DelUserFromGroup, MemberMaps
    <3>2. members'[Online] = members[Online] \ {user[w]}
      <4> HIDE DEF mb
      <4>1. members' = AddUserToGroup(users, created, mb, user[w], Offline)
        BY <2>5 DEF Unregister, mb
      <4> QED BY <3>1, <4>1, OnlineUntouched, ChatServerAssumption
    <3> QED BY <2>0, <3>2, SessionsStep
  <2> QED BY <1>3, <2>1, <2>2, <2>3, <2>4, <2>5 DEF WorkerStep
<1>4. ASSUME NEW w \in Slots, Handle(w)
      PROVE  OnlineIsServed'
  <2>1. PICK a : Request(w, a)
    BY <1>4 DEF Handle, HandleExit, HandleWho, HandleInvalid, HandleSend,
                HandleCreateGroup, HandleJoinGroup, HandleSendGroup
  <2>2. members'[Online] = members[Online]
    <3>1. ASSUME NEW g \in Groups \ {Online}, HandleJoinGroup(w, g)
          PROVE  members'[Online] = members[Online]
      BY <3>1, OnlineUntouched DEF HandleJoinGroup, TypeInv, TypeOK
    <3> QED BY <1>4, <3>1 DEF Handle, HandleExit, HandleWho, HandleInvalid,
                              HandleSend, HandleCreateGroup, HandleSendGroup
  <2>3. UNCHANGED user /\ (\A v \in Slots \ {w} : pc'[v] = pc[v])
          /\ (Serving(w) => Serving(w)')
    BY <2>1 DEF Request, Serving, TypeInv, TypeOK
  <2> QED BY <2>2, <2>3, SessionsStep
<1>5. CASE LoopStep
  BY <1>5
  DEF LoopStep, LoopLock, LoopNotify, LoopKilled, LoopUnlock, LoopSkip, LoopDeliver,
      LoopDeliverFails, Die, Sessions, Serving, chatVars, workerVars
<1>6. CASE UNCHANGED vars
  BY <1>6 DEF vars, chatVars, workerVars, Sessions, Serving
<1> QED BY <1>1, <1>2, <1>3, <1>4, <1>5, <1>6 DEF Next

\* Whoever is in the online group is served by a worker that has registered
\* it, even when several clients use one name (registerUser, userInteraction).
THEOREM OnlineCorrect == Spec => []OnlineIsServed
<1>1. Init => OnlineIsServed
  BY ChatServerAssumption DEF Init, OnlineIsServed
<1> QED BY <1>1, OnlineStep, TypeInvariant, PTL DEF Spec

-----------------------------------------------------------------------------
(* Messages.                                                               *)

\* Only a delivery takes messages out of the store.
LEMMA OnlyDeliveryRemoves ==
  ASSUME Next, ~\E id \in todo : LoopDeliver(id)
  PROVE  messages \subseteq messages'
<1>1. ASSUME NEW c \in Conns, Client(c)
      PROVE  UNCHANGED messages
  BY <1>1 DEF Client, Connect, HangUp, chatVars
<1>2. CASE AcceptStep
  BY <1>2 DEF AcceptStep, Accept, AcceptNoSlot, AcceptFails, Die, chatVars
<1>3. ASSUME NEW w \in Slots, WorkerStep(w)
      PROVE  UNCHANGED messages
  BY <1>3
  DEF WorkerStep, RegisterAdd, RegisterFails, RegisterNewcomer, RegisterReturning,
      Greet, RecvEof, RecvFails, Die, SendAnswer, WorkerSend, Unregister, Close,
      Release, chatVars
<1>4. ASSUME NEW w \in Slots, Handle(w)
      PROVE  messages \subseteq messages'
  BY <1>4
  DEF Handle, HandleExit, HandleWho, HandleInvalid, HandleSend, HandleCreateGroup,
      HandleJoinGroup, HandleSendGroup, AddMessage
<1>5. CASE LoopStep
  BY <1>5
  DEF LoopStep, LoopLock, LoopNotify, LoopKilled, LoopUnlock, LoopSkip,
      LoopDeliverFails, Die, chatVars
<1> QED BY <1>1, <1>2, <1>3, <1>4, <1>5 DEF Next

\* A delivery takes out one message: the one whose source is notified next.
LEMMA DeliveryRemovesOne ==
  ASSUME TypeInv, RegistryConsistent, NEW id \in todo, LoopDeliver(id)
  PROVE  /\ cur' \in messages
         /\ messages' = messages \ {cur'}
         /\ Deliverable(cur')
         /\ ConnAt(SocketOf(users, cur'.dst)) # NoConn
<1>1. id \in MessagesIds(messages)
  BY DEF TypeInv, LoopIdsValid
<1>2. cur' = MessageAt(id) /\ cur' \in messages /\ Hash(cur') = id
  BY <1>1, MessageAtType DEF LoopDeliver
<1>3. messages' = messages \ {cur'}
  BY <1>2 DEF LoopDeliver, DelMessage, RegistryConsistent
<1> QED BY <1>2, <1>3 DEF LoopDeliver, Deliver, SendResults

\* A message leaves the store only when it has been written to an open
\* descriptor while its source and its destination are online (messagesLoop).
THEOREM NoSilentLossCorrect == Spec => NoSilentLoss
<1> DEFINE Delivered(m) ==
      /\ mpc = "deliver" /\ mpc' = "notify" /\ cur' = m
      /\ Deliverable(m)
      /\ ConnAt(SocketOf(users, m.dst)) # NoConn
<1>1. TypeInv /\ RegistryConsistent /\ [Next]_vars
        => [\A m \in messages \ messages' : Delivered(m)]_vars
  <2> SUFFICES ASSUME TypeInv, RegistryConsistent, Next
               PROVE  \A m \in messages \ messages' : Delivered(m)
    OBVIOUS
  <2>1. ASSUME NEW id \in todo, LoopDeliver(id)
        PROVE  \A m \in messages \ messages' : Delivered(m)
    BY <2>1, DeliveryRemovesOne DEF LoopDeliver, Deliver
  <2> QED BY <2>1, OnlyDeliveryRemoves
<1> QED BY <1>1, TypeInvariant, RegistryCorrect, PTL DEF Spec, NoSilentLoss

-----------------------------------------------------------------------------
(* The server implements the mailbox.                                      *)

\* One session at most begins or ends in a step, and no message with it.
LEMMA SessionsOneByOne ==
  ASSUME TypeInv, Next
  PROVE  \/ Sessions' = Sessions
         \/ /\ \E u \in Names : Sessions' \in {Sessions \cup {u}, Sessions \ {u}}
            /\ UNCHANGED messages
<1> USE DEF TypeInv, TypeOK
<1>1. ASSUME UNCHANGED <<pc, user>>
      PROVE  Sessions' = Sessions
  BY <1>1 DEF Sessions, Serving
<1>2. ASSUME NEW w \in Slots, \A v \in Slots \ {w} : pc'[v] = pc[v] /\ user'[v] = user[v],
             UNCHANGED user \/ ~Serving(w)
      PROVE  \/ Sessions' = Sessions
             \/ \E u \in Names : Sessions' \in {Sessions \cup {u}, Sessions \ {u}}
  <2>1. (Serving(w) => user[w] \in Names) /\ (Serving(w)' => user'[w] \in Names)
    BY DEF Serving
  <2>2. CASE ~Serving(w) /\ ~Serving(w)'
    BY <1>2, <2>2, SessionsStep
  <2>3. CASE ~Serving(w) /\ Serving(w)'
    <3>1. Sessions' = Sessions \cup {user'[w]}
      BY <1>2, <2>3, SessionsStep
    <3> QED BY <2>1, <2>3, <3>1
  <2>4. CASE Serving(w) /\ Serving(w)'
    <3>1. user'[w] = user[w]
      BY <1>2, <2>4
    <3>2. /\ Sessions \ {user[w]} \subseteq Sessions'
          /\ Sessions' \ {user[w]} \subseteq Sessions
          /\ user[w] \in Sessions /\ user[w] \in Sessions'
      BY <1>2, <2>4, <3>1, SessionsStep
    <3>3. \A u : u \in Sessions' <=> u \in Sessions
      BY <3>2, Zenon
    <3>4. Sessions' = Sessions
      BY <3>3, Zenon
    <3> QED BY <3>4
  <2>5. CASE Serving(w) /\ ~Serving(w)'
    <3>1. Sessions' \in {Sessions, Sessions \ {user[w]}}
      BY <1>2, <2>5, SessionsStep
    <3> QED BY <2>1, <2>5, <3>1
  <2> QED BY <2>2, <2>3, <2>4, <2>5
<1>3. ASSUME NEW c \in Conns, Client(c)
      PROVE  UNCHANGED <<pc, user>>
  BY <1>3 DEF Client, Connect, HangUp, workerVars
<1>4. ASSUME NEW c \in Conns, NEW w \in Slots, Accept(c, w)
      PROVE  /\ \A v \in Slots \ {w} : pc'[v] = pc[v] /\ user'[v] = user[v]
             /\ UNCHANGED <<user, messages>>
  BY <1>4 DEF Accept, chatVars
<1>5. ASSUME NEW c \in Conns, AcceptNoSlot(c) \/ AcceptFails(c)
      PROVE  UNCHANGED <<pc, user>>
  BY <1>5 DEF AcceptNoSlot, AcceptFails, Die, workerVars
<1>6. ASSUME NEW w \in Slots, WorkerStep(w)
      PROVE  /\ \A v \in Slots \ {w} : pc'[v] = pc[v] /\ user'[v] = user[v]
             /\ UNCHANGED user \/ ~Serving(w)
             /\ UNCHANGED messages
  BY <1>6
  DEF WorkerStep, RegisterAdd, RegisterFails, RegisterNewcomer, RegisterReturning,
      Greet, RecvEof, RecvFails, Die, SendAnswer, WorkerSend, Unregister, Close,
      Release, Serving, chatVars, workerVars
<1>7. ASSUME NEW w \in Slots, Handle(w)
      PROVE  Sessions' = Sessions
  <2>1. PICK a : Request(w, a)
    BY <1>7 DEF Handle, HandleExit, HandleWho, HandleInvalid, HandleSend,
                HandleCreateGroup, HandleJoinGroup, HandleSendGroup
  <2>2. UNCHANGED user /\ \A v \in Slots : Serving(v)' <=> Serving(v)
    BY <2>1 DEF Request, Serving
  <2> QED BY <2>2 DEF Sessions
<1>8. CASE LoopStep
  BY <1>1, <1>8
  DEF LoopStep, LoopLock, LoopNotify, LoopKilled, LoopUnlock, LoopSkip, LoopDeliver,
      LoopDeliverFails, Die, workerVars
<1>9. CASE AcceptStep
  BY <1>1, <1>2, <1>4, <1>5, <1>9 DEF AcceptStep
<1>10. CASE \E w \in Slots : WorkerStep(w)
  BY <1>2, <1>6, <1>10
<1> QED BY <1>1, <1>3, <1>7, <1>8, <1>9, <1>10 DEF Next

\* Every step of the server is a step of the mailbox, or leaves it alone.
LEMMA MailboxStep ==
  ASSUME TypeInv, RegistryConsistent, OnlineIsServed, Next, TypeInv', RegistryConsistent'
  PROVE  [Letters!Next]_(Letters!mailboxVars)
<1>1. CASE \E id \in todo : LoopDeliver(id)
  <2>1. PICK id \in todo : LoopDeliver(id)
    BY <1>1
  <2>2. /\ cur' \in messages /\ messages' = messages \ {cur'}
        /\ Deliverable(cur')
    BY <2>1, DeliveryRemovesOne
  <2>3. UNCHANGED Sessions
    BY <2>1 DEF LoopDeliver, workerVars, Sessions, Serving
  <2>4. {cur'.src, cur'.dst} \subseteq Sessions /\ cur' \in Messages
    BY <2>2 DEF Deliverable, OnlineIsServed, TypeInv, TypeOK
  <2>5. Letters!Deliver(cur')
    BY <2>2, <2>3, <2>4 DEF Letters!Deliver
  <2> QED BY <2>2, <2>5 DEF Letters!Next
<1>2. CASE UNCHANGED Sessions /\ ~\E id \in todo : LoopDeliver(id)
  <2>1. messages \subseteq messages' /\ messages' \subseteq Messages
    BY <1>2, OnlyDeliveryRemoves DEF TypeInv, TypeOK
  <2>2. Letters!Queue
    BY <1>2, <2>1 DEF Letters!Queue, RegistryConsistent
  <2> QED BY <2>2 DEF Letters!Next
<1>3. CASE ~UNCHANGED Sessions
  <2>1. PICK u \in Names : Sessions' \in {Sessions \cup {u}, Sessions \ {u}}
    BY <1>3, SessionsOneByOne
  <2>2. UNCHANGED messages
    BY <1>3, SessionsOneByOne
  <2>3. Letters!Login(u) \/ Letters!Logout(u)
    BY <2>1, <2>2 DEF Letters!Login, Letters!Logout
  <2> QED BY <2>3 DEF Letters!Next
<1> QED BY <1>1, <1>2, <1>3

\* Seen through its sessions and its queued messages, the server is a mailbox
\* (userInteraction, handle and messagesLoop together).
THEOREM ServerIsMailbox == Spec => MailboxSpec
<1>1. Init => Letters!Init
  BY DEF Init, Letters!Init, Sessions, Serving
<1>2. /\ TypeInv /\ TypeInv' /\ RegistryConsistent /\ RegistryConsistent'
      /\ OnlineIsServed /\ [Next]_vars
      => [Letters!Next]_(Letters!mailboxVars)
  <2>1. UNCHANGED vars => UNCHANGED Letters!mailboxVars
    BY DEF vars, chatVars, workerVars, Letters!mailboxVars, Sessions, Serving
  <2> QED BY <2>1, MailboxStep
<1> QED BY <1>1, <1>2, TypeInvariant, RegistryCorrect, OnlineCorrect, PTL
        DEF Spec, MailboxSpec, Letters!Spec

-----------------------------------------------------------------------------
(* Connections.  These facts hold whatever the clients do.                 *)

WorkersOwnConnections ==
  \A w \in Slots :
    /\ conn[w] \in Conns => net[conn[w]] = "open"
    /\ pc[w] \in {"free", "release"} => conn[w] = NoConn
    /\ pc[w] \in {"free", "register", "release"} => user[w] = NoUser
    /\ user[w] \in Names => conn[w] \in Conns /\ user[w] = NameOf[conn[w]]
    /\ \A v \in Slots \ {w} : conn[w] \in Conns => conn[v] # conn[w]

DescriptorsDistinct ==
  \A c \in Conns :
    net[c] = "open" =>
      /\ fd[c] \in Fds
      /\ \A d \in Conns \ {c} : net[d] = "open" => fd[d] # fd[c]

ConnInv == WorkersOwnConnections /\ DescriptorsDistinct /\ Online \in created

\* No connection is open at first.
LEMMA ConnInit == Init => ConnInv
  BY ChatAssumption, ChatServerAssumption
  DEF Init, ConnInv, WorkersOwnConnections, DescriptorsDistinct

\* Every step keeps the workers' connections and the descriptors apart.
LEMMA ConnStep == TypeInv /\ ConnInv /\ [Next]_vars => ConnInv'
<1> SUFFICES ASSUME TypeInv, ConnInv, [Next]_vars
             PROVE  ConnInv'
  OBVIOUS
<1> USE ChatAssumption, ChatServerAssumption
    DEF TypeInv, TypeOK, ConnInv, WorkersOwnConnections, DescriptorsDistinct
<1>1. ASSUME NEW c \in Conns, Client(c)
      PROVE  ConnInv'
  BY <1>1 DEF Client, Connect, HangUp, chatVars, workerVars
<1>2. CASE AcceptStep
  <2>1. ASSUME NEW c \in Conns, NEW w \in Slots, Accept(c, w)
        PROVE  ConnInv'
    <3>1. conn[w] = NoConn /\ user[w] = NoUser /\ net[c] # "open"
      BY <2>1 DEF Accept, LowestFreeSlot
    <3>2. PICK f \in Fds : /\ LowestFreeFd(f)
                           /\ net' = [net EXCEPT ![c] = "open"]
                           /\ fd' = [fd EXCEPT ![c] = f]
      BY <2>1 DEF Accept, TakeFd
    <3>3. DescriptorsDistinct'
      BY <3>2 DEF LowestFreeFd, FreeFd
    <3>4. WorkersOwnConnections'
      BY <2>1, <3>1, <3>2 DEF Accept
    <3> QED BY <2>1, <3>3, <3>4 DEF Accept, chatVars
  <2>2. ASSUME NEW c \in Conns, AcceptNoSlot(c)
        PROVE  ConnInv'
    <3>1. PICK f \in Fds : /\ LowestFreeFd(f)
                           /\ net' = [net EXCEPT ![c] = "open"]
                           /\ fd' = [fd EXCEPT ![c] = f]
      BY <2>2 DEF AcceptNoSlot, TakeFd
    <3>2. DescriptorsDistinct'
      BY <3>1 DEF LowestFreeFd, FreeFd
    <3>3. WorkersOwnConnections'
      BY <2>2, <3>1 DEF AcceptNoSlot, workerVars
    <3> QED BY <2>2, <3>2, <3>3 DEF AcceptNoSlot, chatVars
  <2>3. ASSUME NEW c \in Conns, AcceptFails(c)
        PROVE  ConnInv'
    BY <2>3 DEF AcceptFails, Die, chatVars, workerVars, netVars
  <2> QED BY <1>2, <2>1, <2>2, <2>3 DEF AcceptStep
<1>3. ASSUME NEW w \in Slots, WorkerStep(w)
      PROVE  ConnInv'
  <2>1. CASE RegisterAdd(w)
    <3>1. conn[w] \in Conns
      BY <2>1 DEF RegisterAdd, WorkersConsistent
    <3> QED BY <2>1, <3>1 DEF RegisterAdd, netVars
  <2>2. CASE Close(w)
    <3>1. conn[w] \in Conns
      BY <2>2 DEF Close, WorkersConsistent
    <3>2. DescriptorsDistinct'
      BY <2>2, <3>1 DEF Close
    <3>3. WorkersOwnConnections'
      BY <2>2, <3>1 DEF Close
    <3> QED BY <2>2, <3>2, <3>3 DEF Close, chatVars
  <2>3. CASE RegisterNewcomer(w) \/ RegisterReturning(w) \/ Unregister(w)
    BY <2>3 DEF RegisterNewcomer, RegisterReturning, Unregister, netVars
  <2>4. CASE RegisterFails(w)
    BY <2>4 DEF RegisterFails, chatVars, netVars
  <2>5. CASE Greet(w) \/ RecvEof(w) \/ RecvFails(w) \/ SendAnswer(w) \/ Release(w)
    BY <2>5
    DEF Greet, RecvEof, RecvFails, Die, SendAnswer, WorkerSend, Release, chatVars,
        workerVars, netVars
  <2> QED BY <1>3, <2>1, <2>2, <2>3, <2>4, <2>5 DEF WorkerStep
<1>4. ASSUME NEW w \in Slots, Handle(w)
      PROVE  ConnInv'
  <2>1. PICK a : Request(w, a)
    BY <1>4 DEF Handle, HandleExit, HandleWho, HandleInvalid, HandleSend,
                HandleCreateGroup, HandleJoinGroup, HandleSendGroup
  <2>2. created \subseteq created'
    BY <1>4 DEF Handle, HandleExit, HandleWho, HandleInvalid, HandleSend,
                HandleCreateGroup, HandleJoinGroup, HandleSendGroup
  <2> QED BY <2>1, <2>2 DEF Request, netVars
<1>5. CASE LoopStep
  BY <1>5
  DEF LoopStep, LoopLock, LoopNotify, LoopKilled, LoopUnlock, LoopSkip, LoopDeliver,
      LoopDeliverFails, Die, chatVars, workerVars, netVars
<1>6. CASE UNCHANGED vars
  BY <1>6 DEF vars, chatVars, workerVars, netVars
<1> QED BY <1>1, <1>2, <1>3, <1>4, <1>5, <1>6 DEF Next

\* No two workers serve one connection, no two open connections have one
\* descriptor, and a worker's connection stays open until the worker itself
\* closes it (serverLoop, userInteraction).
THEOREM ConnectionsCorrect == Spec => []ConnInv
  BY ConnInit, ConnStep, TypeInvariant, PTL DEF Spec
=============================================================================
