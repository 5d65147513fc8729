--------------------------- MODULE ChatTurnsProofs ----------------------------
(***************************************************************************)
(* Theorems about ChatServer when the clients of one name take turns       *)
(* (ExclusiveNames): what the server writes reaches whom it is meant for.  *)
(***************************************************************************)
EXTENDS ChatServerProofs

-----------------------------------------------------------------------------
(* The inductive invariant.                                                *)

InUse(c) == net[c] \in {"backlog", "open"}

TurnsKept ==
  \A c, d \in Conns :
    InUse(c) /\ InUse(d) /\ NameOf[c] = NameOf[d] /\ NameOf[c] \in Names => c = d

\* The user a worker has registered is recorded at the worker's socket.
Recorded ==
  \A w \in Slots :
    Serving(w) \/ pc[w] = "newcomer" => users[fd[conn[w]]] = user[w]

NotifiedIsOnline == mpc = "notify" => cur \in Messages /\ cur.src \in members[Online]

TurnsInv ==
  TurnsKept /\ Recorded /\ SessionIsOnline /\ NotifiedIsOnline /\ JoinAnswerTruthful

\* What holds whatever the clients do.
ServerInv == TypeInv /\ RegistryConsistent /\ OnlineIsServed /\ ConnInv

\* All of what ChatServerProofs shows.
LEMMA ServerInvariant == Spec => []ServerInv
  BY TypeInvariant, RegistryCorrect, OnlineCorrect, ConnectionsCorrect, PTL DEF ServerInv

\* Two workers whose users have a name have different ones.
LEMMA UsersDiffer ==
  ASSUME ServerInv, TurnsKept, NEW v \in Slots, NEW w \in Slots \ {v}, user[v] \in Names
  PROVE  user[v] # user[w]
  BY DEF ServerInv, ConnInv, WorkersOwnConnections, TurnsKept, InUse

-----------------------------------------------------------------------------
(* The steps.                                                              *)

\* The invariant holds at first.
LEMMA TurnsInit == Init => TurnsInv
  BY DEF Init, TurnsInv, TurnsKept, InUse, Recorded, SessionIsOnline, Serving,
         NotifiedIsOnline, JoinAnswerTruthful, SaysAlreadyIn

\* Two connections of one name are never in use at the same time.
LEMMA TurnsKeptStep ==
  ASSUME ExclusiveNames, ServerInv, TurnsKept, [Next]_vars
  PROVE  TurnsKept'
<1> USE DEF TurnsKept, InUse, ServerInv, TypeInv, TypeOK
<1>1. ASSUME NEW c \in Conns, Client(c)
      PROVE  TurnsKept'
  BY <1>1 DEF Client, Connect, HangUp
<1>2. CASE AcceptStep
  BY <1>2 DEF AcceptStep, Accept, AcceptNoSlot, AcceptFails, TakeFd, Die, netVars
<1>3. ASSUME NEW w \in Slots, WorkerStep(w)
      PROVE  TurnsKept'
  BY <1>3
  DEF WorkerStep, RegisterAdd, RegisterFails, RegisterNewcomer, RegisterReturning,
      Greet, RecvEof, RecvFails, Die, SendAnswer, WorkerSend, Unregister, Close,
      Release, netVars
<1>4. ASSUME NEW w \in Slots, Handle(w)
      PROVE  TurnsKept'
  BY <1>4 DEF Handle, HandleExit, HandleWho, HandleInvalid, HandleSend,
              HandleCreateGroup, HandleJoinGroup, HandleSendGroup, Request, netVars
<1>5. CASE LoopStep
  BY <1>5
  DEF LoopStep, LoopLock, LoopNotify, LoopKilled, LoopUnlock, LoopSkip, LoopDeliver,
      LoopDeliverFails, Die, netVars
<1>6. CASE UNCHANGED vars
  BY <1>6 DEF vars, netVars
<1> QED BY <1>1, <1>2, <1>3, <1>4, <1>5, <1>6 DEF Next

\* The clients, the accept loop and the messages loop disturb no session.
LEMMA TurnsOutside ==
  ASSUME ServerInv, TurnsInv,
         \/ \E c \in Conns : Client(c)
         \/ AcceptStep
         \/ LoopStep
  PROVE  (Recorded /\ SessionIsOnline /\ NotifiedIsOnline /\ JoinAnswerTruthful)'
<1> USE DEF ServerInv, TypeInv, TypeOK, TurnsInv, Recorded, SessionIsOnline,
            NotifiedIsOnline, JoinAnswerTruthful, SaysAlreadyIn, Serving
<1>1. ASSUME NEW c \in Conns, Client(c)
      PROVE  (Recorded /\ SessionIsOnline /\ NotifiedIsOnline /\ JoinAnswerTruthful)'
  BY <1>1 DEF Client, Connect, HangUp, chatVars, workerVars, loopVars
<1>2. CASE AcceptStep
  <2>1. ASSUME NEW c \in Conns, net[c] = "backlog", TakeFd(c)
        PROVE  \A v \in Slots : conn[v] \in Conns => fd'[conn[v]] = fd[conn[v]]
    BY <2>1 DEF TakeFd, ConnInv, WorkersOwnConnections
  <2>2. \A v \in Slots : Serving(v) \/ pc[v] = "newcomer" => conn[v] \in Conns
    BY DEF WorkersConsistent
  <2>3. ASSUME NEW c \in Conns, NEW w \in Slots, Accept(c, w)
        PROVE  (Recorded /\ SessionIsOnline /\ NotifiedIsOnline /\ JoinAnswerTruthful)'
    <3>1. \A v \in Slots : conn[v] \in Conns => fd'[conn[v]] = fd[conn[v]]
      BY <2>1, <2>3 DEF Accept
    <3>2. \A v \in Slots \ {w} : pc'[v] = pc[v] /\ conn'[v] = conn[v]
      BY <2>3 DEF Accept
    <3>3. pc'[w] = "register"
      BY <2>3 DEF Accept
    <3> QED BY <2>2, <2>3, <3>1, <3>2, <3>3 DEF Accept, chatVars, loopVars
  <2>4. ASSUME NEW c \in Conns, AcceptNoSlot(c)
        PROVE  (Recorded /\ SessionIsOnline /\ NotifiedIsOnline /\ JoinAnswerTruthful)'
    <3>1. \A v \in Slots : conn[v] \in Conns => fd'[conn[v]] = fd[conn[v]]
      BY <2>1, <2>4 DEF AcceptNoSlot
    <3> QED BY <2>2, <2>4, <3>1 DEF AcceptNoSlot, chatVars, workerVars, loopVars
  <2>5. ASSUME NEW c \in Conns, AcceptFails(c)
        PROVE  (Recorded /\ SessionIsOnline /\ NotifiedIsOnline /\ JoinAnswerTruthful)'
    BY <2>5 DEF AcceptFails, Die, chatVars, workerVars, loopVars, netVars
  <2> QED BY <1>2, <2>3, <2>4, <2>5 DEF AcceptStep
<1>3. CASE LoopStep
  <2>1. UNCHANGED <<users, members, workerVars, netVars>>
    BY <1>3
    DEF LoopStep, LoopLock, LoopNotify, LoopKilled, LoopUnlock, LoopSkip, LoopDeliver,
        LoopDeliverFails, Die, chatVars
  <2>2. NotifiedIsOnline'
    <3>1. ASSUME NEW id \in todo, LoopDeliver(id)
          PROVE  NotifiedIsOnline'
      <4>1. cur' \in messages /\ Deliverable(cur')
        BY <3>1, DeliveryRemovesOne
      <4> QED BY <3>1, <4>1 DEF LoopDeliver, Deliverable
    <3> QED
      BY <1>3, <3>1
      DEF LoopStep, LoopLock, LoopNotify, LoopKilled, LoopUnlock, LoopSkip,
          LoopDeliverFails, Deliver, Die, chatVars, loopVars
  <2> QED BY <2>1, <2>2 DEF workerVars, netVars
<1> QED BY <1>1, <1>2, <1>3

\* The requests keep the invariant.
LEMMA TurnsHandle ==
  ASSUME ServerInv, TurnsInv, NEW w \in Slots, Handle(w)
  PROVE  (Recorded /\ SessionIsOnline /\ NotifiedIsOnline /\ JoinAnswerTruthful)'
<1> USE DEF ServerInv, TypeInv, TypeOK, TurnsInv
<1>1. PICK a : Request(w, a)
  BY DEF Handle, HandleExit, HandleWho, HandleInvalid, HandleSend, HandleCreateGroup,
         HandleJoinGroup, HandleSendGroup
<1>2. \A g \in Groups : members[g] \subseteq members'[g]
  BY DEF Handle, HandleExit, HandleWho, HandleInvalid, HandleSend, HandleCreateGroup,
         HandleJoinGroup, HandleSendGroup, AddUserToGroup, MemberMaps
<1>3. pc[w] = "recv" /\ \A v \in Slots : Serving(v)' <=> Serving(v)
  BY <1>1 DEF Request, Serving
<1>4. Recorded' /\ SessionIsOnline' /\ NotifiedIsOnline'
  <2>1. \A v \in Slots : pc'[v] = "newcomer" => pc[v] = "newcomer"
    BY <1>1 DEF Request
  <2> QED
    BY <1>1, <1>2, <1>3, <2>1, ChatServerAssumption
    DEF Request, Recorded, SessionIsOnline, NotifiedIsOnline, loopVars, netVars
<1>5. SaysAlreadyIn(w)' /\ user[w] \in Names => user[w] \in members'[answer'[w].group]
  <2>1. user[w] \in Names => HasUser(users, user[w])
    BY <1>3, ChatAssumption
    DEF Recorded, HasUser, Serving, ConnInv, WorkersOwnConnections, DescriptorsDistinct
  <2>2. ASSUME NEW g \in Groups, HandleJoinGroup(w, g), user[w] \in Names
        PROVE  SaysAlreadyIn(w)' => user[w] \in members'[answer'[w].group]
    BY <2>1, <2>2
    DEF SaysAlreadyIn, HandleJoinGroup, Request, GroupCode, AddUserToGroup,
        AddUserToGroupOK
  <2>3. ASSUME ~\E g \in Groups : HandleJoinGroup(w, g)
        PROVE  ~SaysAlreadyIn(w)'
    BY <2>3 DEF SaysAlreadyIn, Handle, HandleExit, HandleWho, HandleInvalid, HandleSend,
                HandleCreateGroup, HandleSendGroup, Request, Code, GroupCode
  <2> QED BY <2>2, <2>3
<1>6. JoinAnswerTruthful'
  <2>1. ASSUME NEW v \in Slots \ {w}, SaysAlreadyIn(v)
        PROVE  answer[v].group \in Groups
    BY <2>1 DEF SaysAlreadyIn, Answers
  <2> QED BY <1>1, <1>2, <1>5, <2>1 DEF JoinAnswerTruthful, SaysAlreadyIn, Request
<1> QED BY <1>4, <1>6

\* What a worker does to its own entries leaves those of the others alone when
\* the others' users stay recorded and in their groups.
LEMMA TurnsOthers ==
  ASSUME ServerInv, TurnsInv, NEW w \in Slots,
         \A v \in Slots \ {w} :
           /\ pc'[v] = pc[v] /\ conn'[v] = conn[v]
           /\ user'[v] = user[v] /\ answer'[v] = answer[v]
           /\ Serving(v) \/ pc[v] = "newcomer" =>
                /\ users'[fd'[conn[v]]] = users[fd[conn[v]]]
                /\ \A g \in Groups : user[v] \in members[g] => user[v] \in members'[g],
         Serving(w)' \/ pc'[w] = "newcomer" => users'[fd'[conn'[w]]] = user'[w],
         Serving(w)' => user'[w] \in members'[Online],
         ~SaysAlreadyIn(w)'
  PROVE  Recorded' /\ SessionIsOnline' /\ JoinAnswerTruthful'
<1> USE DEF ServerInv, TypeInv, TypeOK, TurnsInv
<1>1. Recorded'
  BY DEF Recorded, Serving
<1>2. SessionIsOnline'
  BY ChatServerAssumption DEF SessionIsOnline, Serving
<1>3. JoinAnswerTruthful'
  <2>1. ASSUME NEW v \in Slots \ {w}, SaysAlreadyIn(v)', user'[v] \in Names
        PROVE  user'[v] \in members'[answer'[v].group]
    <3>1. SaysAlreadyIn(v) /\ user[v] \in members[answer[v].group]
      BY <2>1 DEF JoinAnswerTruthful, SaysAlreadyIn
    <3>2. answer[v].group \in Groups
      BY <3>1 DEF Answers, SaysAlreadyIn
    <3>3. Serving(v)
      BY <2>1, <3>1 DEF SaysAlreadyIn, Serving
    <3> QED BY <3>1, <3>2, <3>3
  <2> QED BY <2>1 DEF JoinAnswerTruthful
<1> QED BY <1>1, <1>2, <1>3

\* The socket a worker records its user at is no other worker's socket.
LEMMA SocketsDiffer ==
  ASSUME ServerInv, NEW w \in Slots, conn[w] \in Conns,
         NEW v \in Slots \ {w}, Serving(v) \/ pc[v] = "newcomer"
  PROVE  /\ conn[v] \in Conns /\ conn[v] # conn[w]
         /\ fd[conn[v]] \in Fds /\ fd[conn[v]] # fd[conn[w]]
         /\ fd[conn[w]] \in Fds
  BY DEF ServerInv, TypeInv, WorkersConsistent, Serving, ConnInv,
         WorkersOwnConnections, DescriptorsDistinct

\* A registration keeps the invariant: its user is recorded and online.
LEMMA TurnsRegister ==
  ASSUME ServerInv, TurnsInv, NEW w \in Slots,
         RegisterAdd(w) \/ RegisterNewcomer(w) \/ RegisterReturning(w)
  PROVE  Recorded' /\ SessionIsOnline' /\ JoinAnswerTruthful'
<1> USE DEF ServerInv, TypeInv, TypeOK
<1>1. conn[w] \in Conns /\ fd[conn[w]] \in Fds /\ ~SaysAlreadyIn(w)'
  BY DEF SaysAlreadyIn, RegisterAdd, RegisterNewcomer, RegisterReturning, WorkersConsistent,
         ConnInv, WorkersOwnConnections, DescriptorsDistinct
<1>2. \A v \in Slots \ {w} :
        /\ pc'[v] = pc[v] /\ conn'[v] = conn[v]
        /\ user'[v] = user[v] /\ answer'[v] = answer[v]
  BY DEF RegisterAdd, RegisterNewcomer, RegisterReturning
<1>3. UNCHANGED <<fd, conn>>
  BY DEF RegisterAdd, RegisterNewcomer, RegisterReturning, netVars
<1>4. CASE RegisterAdd(w)
  <2>1. \A v \in Slots \ {w} : Serving(v) \/ pc[v] = "newcomer" =>
          users'[fd[conn[v]]] = users[fd[conn[v]]]
    BY <1>1, <1>4, SocketsDiffer DEF RegisterAdd, AddUser, UserMaps
  <2>2. ~Serving(w)'
    BY <1>4 DEF RegisterAdd, Serving
  <2>3. pc'[w] = "newcomer" => users'[fd[conn[w]]] = user'[w]
    BY <1>1, <1>4 DEF RegisterAdd, AddUser, UserMaps
  <2> QED BY <1>1, <1>2, <1>3, <1>4, <2>1, <2>2, <2>3, TurnsOthers DEF RegisterAdd
<1>5. CASE RegisterNewcomer(w)
  <2>1. users[fd[conn[w]]] = user[w] /\ user[w] \in Names /\ user[w] # NoUser
    BY <1>5, ChatAssumption DEF RegisterNewcomer, TurnsInv, Recorded, WorkersConsistent
  <2>2. \A g \in Groups : members[g] \subseteq members'[g]
    BY <1>5 DEF RegisterNewcomer, AddUserToGroup, MemberMaps
  <2>3. user[w] \in members'[Online]
    BY <1>1, <1>5, <2>1, ChatServerAssumption
    DEF RegisterNewcomer, AddUserToGroup, AddUserToGroupOK, HasUser, MemberMaps, ConnInv
  <2> QED BY <1>1, <1>2, <1>3, <1>5, <2>1, <2>2, <2>3, TurnsOthers DEF RegisterNewcomer
<1>6. CASE RegisterReturning(w)
  <2> DEFINE us == DelUser(users, user[w])
             mb == DelUserFromGroup(members, user[w], Offline)
  <2>1. user[w] \in Names /\ user[w] # NoUser
    BY <1>6, ChatAssumption DEF RegisterReturning, WorkersConsistent
  <2>2. us \in UserMaps /\ ~HasUser(us, user[w])
    <3>1. us \in UserMaps
      BY DelUserType
    <3>2. ASSUME NEW f \in Fds
          PROVE  us[f] # user[w]
      <4>1. CASE users[f] = user[w]
        <5>1. SocketOf(users, user[w]) = f
          BY <2>1, <4>1, SocketOfUnique DEF RegistryConsistent, NamesUnique
        <5> QED BY <2>1, <5>1 DEF DelUser
      <4>2. CASE users[f] # user[w]
        BY <2>1, <4>2 DEF DelUser
      <4> QED BY <4>1, <4>2
    <3> QED BY <3>1, <3>2 DEF HasUser
  <2>3. users' = [us EXCEPT ![fd[conn[w]]] = user[w]]
    BY <1>6, <2>2 DEF RegisterReturning, AddUser
  <2>4. ASSUME NEW v \in Slots \ {w}, Serving(v) \/ pc[v] = "newcomer"
        PROVE  users'[fd[conn[v]]] = users[fd[conn[v]]]
    <3>1. fd[conn[v]] \in Fds /\ fd[conn[v]] # fd[conn[w]]
      BY <1>1, <2>4, SocketsDiffer
    <3>2. users[fd[conn[v]]] = user[v] /\ user[v] # user[w]
      BY <2>1, <2>4, UsersDiffer DEF TurnsInv, Recorded
    <3>3. users[SocketOf(users, user[w])] = user[w] \/ SocketOf(users, user[w]) = NoFd
      <4>1. CASE HasUser(users, user[w])
        <5>1. PICK f \in Fds : users[f] = user[w]
          BY <4>1 DEF HasUser
        <5>2. SocketOf(users, user[w]) = f
          BY <2>1, <5>1, SocketOfUnique DEF RegistryConsistent, NamesUnique
        <5> QED BY <5>1, <5>2
      <4> QED BY <4>1 DEF SocketOf
    <3>4. us[fd[conn[v]]] = users[fd[conn[v]]]
      BY <3>1, <3>2, <3>3, ChatAssumption DEF DelUser
    <3> QED BY <1>1, <2>2, <2>3, <3>1, <3>4 DEF UserMaps
  <2>5. users'[fd[conn[w]]] = user[w]
    BY <1>1, <2>2, <2>3 DEF UserMaps
  <2>6. mb \in MemberMaps
    BY DelUserFromGroupType, ChatServerAssumption
  <2>7. members' = AddUserToGroup(users', created, mb, user[w], Online)
    BY <1>6 DEF RegisterReturning
  <2>8. user[w] \in members'[Online]
    <3>1. HasUser(users', user[w])
      BY <1>1, <2>1, <2>5 DEF HasUser
    <3> QED BY <2>6, <2>7, <3>1, ChatServerAssumption
            DEF AddUserToGroup, AddUserToGroupOK, MemberMaps, ConnInv
  <2>9. ASSUME NEW v \in Slots \ {w}, Serving(v) \/ pc[v] = "newcomer",
               NEW g \in Groups, user[v] \in members[g]
        PROVE  user[v] \in members'[g]
    <3>1. user[v] # user[w]
      BY <2>1, <2>9, UsersDiffer DEF TurnsInv
    <3>2. user[v] \in mb[g]
      BY <2>9, <3>1, ChatServerAssumption DEF DelUserFromGroup, MemberMaps
    <3>3. mb[g] \subseteq members'[g]
      BY <2>6, <2>7, ChatServerAssumption DEF AddUserToGroup, MemberMaps
    <3> QED BY <3>2, <3>3
  <2>10. user'[w] = user[w]
    BY <1>6 DEF RegisterReturning
  <2> HIDE DEF us, mb
  <2> QED BY <1>1, <1>2, <1>3, <2>4, <2>5, <2>8, <2>9, <2>10, TurnsOthers
<1> QED BY <1>4, <1>5, <1>6

\* The end of a session keeps the invariant: no other session has its user.
LEMMA TurnsLeave ==
  ASSUME ServerInv, TurnsInv, NEW w \in Slots, Unregister(w) \/ Close(w)
  PROVE  Recorded' /\ SessionIsOnline' /\ JoinAnswerTruthful'
<1> USE DEF ServerInv, TypeInv, TypeOK
<1>1. /\ ~Serving(w)' /\ pc'[w] # "newcomer" /\ ~SaysAlreadyIn(w)'
      /\ UNCHANGED <<users, answer>>
  BY DEF Unregister, Close, Serving, SaysAlreadyIn, chatVars
<1>2. CASE Unregister(w)
  <2> DEFINE mb == DelUserFromGroup(members, user[w], Online)
  <2>1. mb \in MemberMaps
    BY DelUserFromGroupType, ChatServerAssumption
  <2>2. members' = AddUserToGroup(users, created, mb, user[w], Offline)
    BY <1>2 DEF Unregister
  <2>3. ASSUME NEW v \in Slots \ {w}, Serving(v) \/ pc[v] = "newcomer",
               NEW g \in Groups, user[v] \in members[g]
        PROVE  user[v] \in members'[g]
    <3>1. user[v] \in Names
      BY <2>3 DEF Serving, WorkersConsistent
    <3>2. user[v] # user[w]
      BY <3>1, UsersDiffer DEF TurnsInv
    <3>3. user[v] \in mb[g]
      BY <2>3, <3>2, ChatServerAssumption DEF DelUserFromGroup, MemberMaps
    <3>4. mb[g] \subseteq members'[g]
      BY <2>1, <2>2, ChatServerAssumption DEF AddUserToGroup, MemberMaps
    <3> QED BY <3>3, <3>4
  <2>4. UNCHANGED <<conn, user, fd>> /\ \A v \in Slots \ {w} : pc'[v] = pc[v]
    BY <1>2 DEF Unregister, netVars
  <2> HIDE DEF mb
  <2> QED BY <1>1, <2>3, <2>4, TurnsOthers
<1>3. CASE Close(w)
  <2>1. conn[w] \in Conns
    BY <1>3 DEF Close, WorkersConsistent
  <2>2. ASSUME NEW v \in Slots \ {w}, Serving(v) \/ pc[v] = "newcomer"
        PROVE  fd'[conn[v]] = fd[conn[v]]
    BY <1>3, <2>1, <2>2, SocketsDiffer DEF Close
  <2>3. UNCHANGED members
    BY <1>3 DEF Close, chatVars
  <2>4. \A v \in Slots \ {w} : pc'[v] = pc[v] /\ conn'[v] = conn[v] /\ user'[v] = user[v]
    BY <1>3 DEF Close
  <2> QED BY <1>1, <2>2, <2>3, <2>4, TurnsOthers
<1> QED BY <1>2, <1>3

\* Every step of a worker keeps the invariant.
LEMMA TurnsWorker ==
  ASSUME ServerInv, TurnsInv, NEW w \in Slots, WorkerStep(w)
  PROVE  (Recorded /\ SessionIsOnline /\ NotifiedIsOnline /\ JoinAnswerTruthful)'
<1> USE DEF ServerInv, TypeInv, TypeOK, TurnsInv
<1>1. NotifiedIsOnline'
  <2>1. CASE mpc = "sleep"
    BY <2>1
    DEF WorkerStep, RegisterAdd, RegisterFails, RegisterNewcomer, RegisterReturning,
        Greet, RecvEof, RecvFails, Die, SendAnswer, WorkerSend, Unregister, Close,
        Release, loopVars, chatVars, NotifiedIsOnline
  <2>2. CASE mpc # "sleep"
    BY <2>2
    DEF WorkerStep, RegisterAdd, RegisterFails, RegisterNewcomer, RegisterReturning,
        Greet, RecvEof, RecvFails, Die, SendAnswer, WorkerSend, Unregister, Close,
        Release, ChatFree, loopVars, chatVars, NotifiedIsOnline
  <2> QED BY <2>1, <2>2
<1>2. CASE RegisterAdd(w) \/ RegisterNewcomer(w) \/ RegisterReturning(w)
  BY <1>1, <1>2, TurnsRegister
<1>3. CASE Unregister(w) \/ Close(w)
  BY <1>1, <1>3, TurnsLeave
<1>4. CASE \/ RegisterFails(w) \/ Greet(w) \/ RecvEof(w) \/ RecvFails(w)
           \/ SendAnswer(w) \/ Release(w)
  <2> USE <1>4 DEF RegisterFails, Greet, RecvEof, RecvFails, Die, SendAnswer, WorkerSend,
                   Release
  <2>1. /\ UNCHANGED <<users, members, conn, fd>>
        /\ \A v \in Slots \ {w} :
             pc'[v] = pc[v] /\ answer'[v] = answer[v] /\ user'[v] = user[v]
    BY DEF chatVars, workerVars, netVars
  <2>2. Serving(w)' => Serving(w) /\ user'[w] = user[w]
    BY ChatServerAssumption DEF Serving, workerVars
  <2>3. CASE RecvFails(w)
    BY <1>1, <2>3 DEF Recorded, SessionIsOnline, JoinAnswerTruthful, SaysAlreadyIn,
                      Serving, chatVars, workerVars, netVars
  <2>4. CASE ~RecvFails(w)
    <3>1. pc'[w] # "newcomer" /\ ~SaysAlreadyIn(w)'
      BY <2>4 DEF SaysAlreadyIn, Code
    <3>2. Serving(w)' => users[fd[conn[w]]] = user'[w] /\ user'[w] \in members[Online]
      BY <2>2 DEF Recorded, SessionIsOnline
    <3> QED BY <1>1, <2>1, <3>1, <3>2, TurnsOthers
  <2> QED BY <2>3, <2>4
<1> QED BY <1>2, <1>3, <1>4 DEF WorkerStep

\* Every step keeps the invariant.
LEMMA TurnsStep ==
  ASSUME ExclusiveNames
  PROVE  ServerInv /\ TurnsInv /\ [Next]_vars => TurnsInv'
<1> SUFFICES ASSUME ServerInv, TurnsInv, [Next]_vars
             PROVE  TurnsInv'
  OBVIOUS
<1>1. TurnsKept'
  BY TurnsKeptStep DEF TurnsInv
<1>2. CASE Next
  <2>1. (Recorded /\ SessionIsOnline /\ NotifiedIsOnline /\ JoinAnswerTruthful)'
    BY <1>2, TurnsOutside, TurnsWorker, TurnsHandle DEF Next
  <2> QED BY <1>1, <2>1 DEF TurnsInv
<1>3. CASE UNCHANGED vars
  BY <1>1, <1>3
  DEF TurnsInv, Recorded, SessionIsOnline, NotifiedIsOnline, JoinAnswerTruthful,
      SaysAlreadyIn, Serving, vars, chatVars, workerVars, loopVars, netVars
<1> QED BY <1>2, <1>3

-----------------------------------------------------------------------------
(* The theorems.                                                           *)

\* The invariant of clients that take turns.
LEMMA TurnsInvariant ==
  ASSUME ExclusiveNames
  PROVE  Spec => []TurnsInv
  BY TurnsInit, TurnsStep, ServerInvariant, PTL DEF Spec

\* When the clients of a name take turns, the users online are exactly those
\* that a worker serves (registerUser and the end of userInteraction).
THEOREM OnlineIffServedCorrect ==
  ASSUME ExclusiveNames
  PROVE  Spec => []OnlineIffServed
<1>1. ServerInv /\ TurnsInv => OnlineIffServed
  BY DEF ServerInv, TurnsInv, OnlineIsServed, SessionIsOnline, OnlineIffServed,
         Sessions, Serving
<1> QED BY <1>1, ServerInvariant, TurnsInvariant, PTL

\* A user that is online is recorded at the socket of its own client.
LEMMA OnlineIsRouted ==
  ASSUME ServerInv, TurnsInv, NEW u \in members[Online]
  PROVE  Routed(u)
<1> USE DEF ServerInv, TypeInv, TypeOK
<1>1. PICK w \in Slots : Serving(w) /\ user[w] = u
  BY DEF OnlineIsServed, Sessions
<1>2. /\ conn[w] \in Conns /\ net[conn[w]] = "open" /\ NameOf[conn[w]] = u
      /\ fd[conn[w]] \in Fds
  BY <1>1 DEF Serving, ConnInv, WorkersOwnConnections, DescriptorsDistinct
<1>3. users[fd[conn[w]]] = u /\ u # NoUser
  BY <1>1, ChatAssumption DEF TurnsInv, Recorded, Serving
<1>4. SocketOf(users, u) = fd[conn[w]]
  BY <1>2, <1>3, SocketOfUnique DEF RegistryConsistent, NamesUnique
<1> QED BY <1>2, <1>4 DEF Routed

\* When the clients of a name take turns, every message the loop sends goes to
\* the client of its destination, and every notification to that of its source
\* (messagesLoop).
THEOREM SendsAreRoutedCorrect ==
  ASSUME ExclusiveNames
  PROVE  Spec => []SendsAreRouted
<1>1. ServerInv /\ TurnsInv => SendsAreRouted
  <2> SUFFICES ASSUME ServerInv, TurnsInv
               PROVE  SendsAreRouted
    OBVIOUS
  <2>1. ASSUME NEW id \in todo, Deliverable(MessageAt(id))
        PROVE  Routed(MessageAt(id).dst)
    BY <2>1, OnlineIsRouted DEF Deliverable
  <2>2. mpc = "notify" => Routed(cur.src)
    BY OnlineIsRouted DEF TurnsInv, NotifiedIsOnline
  <2> QED BY <2>1, <2>2 DEF SendsAreRouted
<1> QED BY <1>1, ServerInvariant, TurnsInvariant, PTL

\* When the clients of a name take turns, a client that has registered a name
\* and is told it is in a group already is in it (JOIN_GROUP in handle,
\* Chat::addUserToGroup).
THEOREM JoinAnswerCorrect ==
  ASSUME ExclusiveNames
  PROVE  Spec => []JoinAnswerTruthful
<1>1. TurnsInv => JoinAnswerTruthful
  BY DEF TurnsInv
<1> QED BY <1>1, TurnsInvariant, PTL

=============================================================================
