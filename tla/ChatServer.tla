------------------------------ MODULE ChatServer ------------------------------
(***************************************************************************)
(* The chat server (project/src/server.cpp): the accept loop of serverLoop,*)
(* one worker thread per connection (userInteraction, with registerUser    *)
(* and handle), and the messages loop that delivers what is queued.  The   *)
(* threads share the registry of Chat under chat_mtx.                      *)
(*                                                                         *)
(* A step of a worker is one critical section of chat_mtx, or one send, or *)
(* one close.  The messages loop keeps chat_mtx over a whole pass, in      *)
(* which it sends once or twice for every message, so its sends are steps  *)
(* of their own during which the workers cannot enter a critical section.  *)
(* Receiving a request and the critical section that follows are one step: *)
(* nothing shared is touched between them.                                 *)
(*                                                                         *)
(* The clients are the environment.  A client connects, sends REGISTER and *)
(* then requests that client.cpp can build; the framing of the bytes is    *)
(* not modelled here.  It may hang up at any time, and what it sent before *)
(* may still be received.                                                  *)
(***************************************************************************)
EXTENDS Chat

CONSTANTS
  Conns,          \* the TCP connections clients open
  NoConn,
  Unregistered,   \* the name of the user that a failed registration returns
  NameOf,         \* the user a connection's client is served as: the name it
                  \* registers, or Unregistered when it was started with an
                  \* empty one
  Slots,          \* the slots of free_thread and threads (MAX_NUM_THREADS)
  Online,         \* ONLINE_GROUP: no client can type its leading space
  Offline,        \* OFFLINE_GROUP
  NoMsg,
  MaxRequests,    \* bound on the requests of all the clients together
  ExclusiveNames  \* clients of one name come one after the other, each
                  \* only when the server has closed the one before

ASSUME ChatServerAssumption ==
  /\ NoConn \notin Conns
  /\ Unregistered \notin Names \cup {NoUser}
  /\ NameOf \in [Conns -> Names \cup {Unregistered}]
  /\ Slots \subseteq Nat
  /\ Online \in Groups /\ Offline \in Groups /\ Online # Offline
  /\ NoMsg \notin Messages
  /\ MaxRequests \in Nat
  /\ ExclusiveNames \in BOOLEAN

VARIABLES
  alive,     \* the process runs: neither exit() nor a signal has ended it
  users, created, members, messages,         \* the Chat object
  pc,        \* where each worker is; "free" when free_thread[i]
  conn,      \* the connection each worker serves
  user,      \* the local variable user of userInteraction
  answer,    \* the answer a worker is about to send
  mpc,       \* where the messages loop is; it holds chat_mtx unless "sleep"
  todo,      \* messages_ids that the loop has yet to look at
  cur,       \* the message whose source is to be notified
  net,       \* what became of each connection
  fd,        \* the descriptor of each open connection
  hungup,    \* the connections whose client has closed its end
  nreq       \* how many requests were received

chatVars == <<users, created, members, messages>>
workerVars == <<pc, conn, user, answer>>
loopVars == <<mpc, todo, cur>>
netVars == <<net, fd, hungup>>
vars == <<alive, chatVars, workerVars, loopVars, netVars, nreq>>

-----------------------------------------------------------------------------
(* Types.                                                                  *)

PCs == {"free", "register", "newcomer", "returning", "greet", "recv",
        "answer", "unregister", "close", "release"}

\* What the answers carry, as far as the properties tell them apart.
Answers ==
  [code : {"OK", "USERS_LIST", "NO_MSG_DST_ERR", "MSG_EXISTS", "MSG_QUEUED",
           "INVALID_REQUEST_ERR"}]
  \cup
  [code : {"GROUP_EXISTS", "GROUP_CREATED", "NO_GROUP_ERR", "NOT_IN_GROUP_ERR",
           "USER_ALREADY_IN_GROUP", "USER_ADDED_TO_GROUP"}, group : Groups]

Code(c) == [code |-> c]
GroupCode(c, g) == [code |-> c, group |-> g]

TypeOK ==
  /\ alive \in BOOLEAN
  /\ users \in UserMaps
  /\ created \subseteq Groups
  /\ members \in MemberMaps
  /\ messages \subseteq Messages
  /\ pc \in [Slots -> PCs]
  /\ conn \in [Slots -> Conns \cup {NoConn}]
  /\ user \in [Slots -> Names \cup {NoUser, Unregistered}]
  /\ answer \in [Slots -> Answers]
  /\ mpc \in {"sleep", "deliver", "notify"}
  /\ todo \subseteq MsgIds
  /\ cur \in Messages \cup {NoMsg}
  /\ net \in [Conns -> {"idle", "backlog", "open", "gone"}]
  /\ fd \in [Conns -> Fds \cup {NoFd}]
  /\ hungup \subseteq Conns
  /\ nreq \in 0..MaxRequests

-----------------------------------------------------------------------------
(* The sockets, as the code uses them.                                     *)

FreeFd(f) == \A c \in Conns : net[c] = "open" => fd[c] # f

\* A new descriptor is the lowest free one.
LowestFreeFd(f) == FreeFd(f) /\ \A g \in Fds : g < f => ~FreeFd(g)

ConnAt(f) ==
  IF \E c \in Conns : net[c] = "open" /\ fd[c] = f
  THEN CHOOSE c \in Conns : net[c] = "open" /\ fd[c] = f
  ELSE NoConn

\* send fails on a descriptor that is not open.  Once the peer has closed, the
\* bytes may still be taken and lost, the call may fail, or SIGPIPE, which the
\* server does not handle, may end the process.
SendResults(c) ==
  IF c = NoConn THEN {"err"}
  ELSE IF c \in hungup THEN {"ok", "err", "kill"}
  ELSE {"ok"}

\* exit() in any thread, or SIGPIPE, ends the whole process.
Die ==
  /\ alive' = FALSE
  /\ UNCHANGED <<chatVars, workerVars, loopVars, netVars, nreq>>

ChatFree == mpc = "sleep"

Init ==
  /\ alive = TRUE
  /\ users = [f \in Fds |-> NoUser]
  /\ created = {Online, Offline}
  /\ members = [g \in Groups |-> {}]
  /\ messages = {}
  /\ pc = [w \in Slots |-> "free"]
  /\ conn = [w \in Slots |-> NoConn]
  /\ user = [w \in Slots |-> NoUser]
  /\ answer = [w \in Slots |-> Code("OK")]
  /\ mpc = "sleep" /\ todo = {} /\ cur = NoMsg
  /\ net = [c \in Conns |-> "idle"]
  /\ fd = [c \in Conns |-> NoFd]
  /\ hungup = {}
  /\ nreq = 0

-----------------------------------------------------------------------------
(* The clients.                                                            *)

Connect(c) ==
  /\ net[c] = "idle"
  /\ ExclusiveNames =>
       \A d \in Conns \ {c} :
         NameOf[d] = NameOf[c] /\ NameOf[c] \in Names => net[d] \in {"idle", "gone"}
  /\ net' = [net EXCEPT ![c] = "backlog"]
  /\ UNCHANGED <<alive, chatVars, workerVars, loopVars, fd, hungup, nreq>>

HangUp(c) ==
  /\ net[c] \in {"backlog", "open"}
  /\ c \notin hungup
  /\ hungup' = hungup \cup {c}
  /\ UNCHANGED <<alive, chatVars, workerVars, loopVars, net, fd, nreq>>

-----------------------------------------------------------------------------
(* The accept loop.                                                        *)

LowestFreeSlot(w) == pc[w] = "free" /\ \A v \in Slots : v < w => pc[v] # "free"

TakeFd(c) ==
  \E f \in Fds : /\ LowestFreeFd(f)
                 /\ net' = [net EXCEPT ![c] = "open"]
                 /\ fd' = [fd EXCEPT ![c] = f]

Accept(c, w) ==
  /\ net[c] = "backlog"
  /\ LowestFreeSlot(w)
  /\ TakeFd(c)
  /\ pc' = [pc EXCEPT ![w] = "register"]
  /\ conn' = [conn EXCEPT ![w] = c]
  /\ UNCHANGED <<alive, chatVars, user, answer, loopVars, hungup, nreq>>

\* No slot is free: the connection is neither served nor closed.
AcceptNoSlot(c) ==
  /\ net[c] = "backlog"
  /\ \A w \in Slots : pc[w] # "free"
  /\ TakeFd(c)
  /\ UNCHANGED <<alive, chatVars, workerVars, loopVars, hungup, nreq>>

\* No descriptor is left: accept fails, and error("accept") ends the process.
AcceptFails(c) ==
  /\ net[c] = "backlog"
  /\ \A f \in Fds : ~FreeFd(f)
  /\ Die

-----------------------------------------------------------------------------
(* A worker: registerUser.                                                 *)

\* The first critical section.  That the name is in use is remembered as the
\* next step.  The address compared in between is never filled in, neither
\* here nor in the recorded user, so the two are always equal and USER_EXISTS
\* is never answered.
RegisterAdd(w) ==
  LET u == NameOf[conn[w]] IN
  /\ pc[w] = "register"
  /\ u \in Names
  /\ ChatFree
  /\ pc' = [pc EXCEPT ![w] = IF HasUser(users, u) THEN "returning" ELSE "newcomer"]
  /\ user' = [user EXCEPT ![w] = u]
  /\ users' = AddUser(users, u, fd[conn[w]])
  /\ UNCHANGED <<alive, created, members, messages, conn, answer, loopVars,
                 netVars, nreq>>

\* The client hung up before REGISTER arrived, or its REGISTER holds no name.
\* The user returned stands for an invalid request, but userInteraction tests
\* another, empty message, and goes on as if the client had registered.
RegisterFails(w) ==
  /\ pc[w] = "register"
  /\ conn[w] \in hungup \/ NameOf[conn[w]] = Unregistered
  /\ pc' = [pc EXCEPT ![w] = "greet"]
  /\ user' = [user EXCEPT ![w] = Unregistered]
  /\ UNCHANGED <<alive, chatVars, conn, answer, loopVars, netVars, nreq>>

\* The second critical section of a name that was not known.
RegisterNewcomer(w) ==
  /\ pc[w] = "newcomer"
  /\ ChatFree
  /\ pc' = [pc EXCEPT ![w] = "greet"]
  /\ members' = AddUserToGroup(users, created, members, user[w], Online)
  /\ UNCHANGED <<alive, users, created, messages, conn, user, answer, loopVars,
                 netVars, nreq>>

\* Fault: the online group is joined before the user is in the map again.
RegisterReturningInWrongOrder(w) ==
  LET us == AddUser(DelUser(users, user[w]), user[w], fd[conn[w]])
      mb == DelUserFromGroup(members, user[w], Offline)
  IN
  /\ pc[w] = "returning"
  /\ ChatFree
  /\ pc' = [pc EXCEPT ![w] = "greet"]
  /\ users' = us
  /\ members' = AddUserToGroup(DelUser(users, user[w]), created, mb, user[w], Online)
  /\ UNCHANGED <<alive, created, messages, conn, user, answer, loopVars,
                 netVars, nreq>>

\* Fault: the user is taken out of the map and not put back.
RegisterReturningForgets(w) ==
  LET mb == DelUserFromGroup(members, user[w], Offline) IN
  /\ pc[w] = "returning"
  /\ ChatFree
  /\ pc' = [pc EXCEPT ![w] = "greet"]
  /\ users' = DelUser(users, user[w])
  /\ members' = AddUserToGroup(users, created, mb, user[w], Online)
  /\ UNCHANGED <<alive, created, messages, conn, user, answer, loopVars,
                 netVars, nreq>>

\* The second critical section of a name that was known.
RegisterReturning(w) ==
  LET us == AddUser(DelUser(users, user[w]), user[w], fd[conn[w]])
      mb == DelUserFromGroup(members, user[w], Offline)
  IN
  /\ pc[w] = "returning"
  /\ ChatFree
  /\ pc' = [pc EXCEPT ![w] = "greet"]
  /\ users' = us
  /\ members' = AddUserToGroup(us, created, mb, user[w], Online)
  /\ UNCHANGED <<alive, created, messages, conn, user, answer, loopVars,
                 netVars, nreq>>

\* A worker's send: on an error it calls error(), which exits.
WorkerSend(w, next) ==
  \/ /\ "ok" \in SendResults(conn[w])
     /\ pc' = [pc EXCEPT ![w] = next]
     /\ UNCHANGED <<alive, chatVars, conn, user, loopVars, netVars, nreq>>
  \/ /\ SendResults(conn[w]) \cap {"err", "kill"} # {}
     /\ alive' = FALSE
     /\ UNCHANGED <<chatVars, pc, conn, user, loopVars, netVars, nreq>>

\* The answer to the registration is OK, whatever registerUser returned.
Greet(w) ==
  /\ pc[w] = "greet"
  /\ WorkerSend(w, "recv")
  /\ UNCHANGED answer

-----------------------------------------------------------------------------
(* A worker: receive and handle.                                           *)

\* Fault: the loop goes on when the client is gone.
RecvEofIgnored(w) ==
  /\ pc[w] = "recv"
  /\ conn[w] \in hungup
  /\ UNCHANGED vars

RecvEof(w) ==
  /\ pc[w] = "recv"
  /\ conn[w] \in hungup
  /\ pc' = [pc EXCEPT ![w] = "unregister"]
  /\ UNCHANGED <<alive, chatVars, conn, user, answer, loopVars, netVars, nreq>>

\* A client that closes with something unread resets the connection: recv
\* fails, and error("recv") ends the process.
RecvFails(w) ==
  /\ pc[w] = "recv"
  /\ conn[w] \in hungup
  /\ Die

\* A request arrives and a is what handle answers.  REGISTER has arrived before
\* it, with a name or without.
Request(w, a) ==
  /\ pc[w] = "recv"
  /\ user[w] = NameOf[conn[w]]
  /\ nreq < MaxRequests
  /\ nreq' = nreq + 1
  /\ pc' = [pc EXCEPT ![w] = "answer"]
  /\ answer' = [answer EXCEPT ![w] = a]
  /\ UNCHANGED <<alive, users, conn, user, loopVars, netVars>>

HandleExit(w) ==
  /\ Request(w, Code("OK"))
  /\ UNCHANGED <<created, members, messages>>

HandleWho(w) ==
  /\ ChatFree
  /\ Request(w, Code("USERS_LIST"))
  /\ UNCHANGED <<created, members, messages>>

\* SEND_MSG and SEND_FILE of a client without a name: the empty field is lost,
\* and what is left is too short for a message.
HandleInvalid(w) ==
  /\ user[w] = Unregistered
  /\ Request(w, Code("INVALID_REQUEST_ERR"))
  /\ UNCHANGED <<created, members, messages>>

\* SEND_MSG and SEND_FILE.  A client writes its own name as the source.
HandleSend(w, m) ==
  LET known  == HasUser(users, m.dst)
      exists == HasMessage(messages, Hash(m))
  IN
  /\ ChatFree
  /\ m.src = user[w]
  /\ Request(w, Code(IF ~known THEN "NO_MSG_DST_ERR"
                     ELSE IF exists THEN "MSG_EXISTS"
                     ELSE "MSG_QUEUED"))
  /\ messages' = IF known THEN AddMessage(messages, m) ELSE messages
  /\ UNCHANGED <<created, members>>

HandleCreateGroup(w, g) ==
  /\ ChatFree
  /\ Request(w, GroupCode(IF g \in created THEN "GROUP_EXISTS" ELSE "GROUP_CREATED", g))
  /\ created' = created \cup {g}
  /\ UNCHANGED <<members, messages>>

\* addUserToGroup fails when the user is a member, and also when it is no
\* longer in the users map: both are answered USER_ALREADY_IN_GROUP.
HandleJoinGroup(w, g) ==
  LET added == AddUserToGroupOK(users, created, members, user[w], g) IN
  /\ ChatFree
  /\ Request(w, GroupCode(IF g \notin created THEN "NO_GROUP_ERR"
                          ELSE IF ~added THEN "USER_ALREADY_IN_GROUP"
                          ELSE "USER_ADDED_TO_GROUP", g))
  /\ members' = AddUserToGroup(users, created, members, user[w], g)
  /\ UNCHANGED <<created, messages>>

\* What addMessage makes of the store when called for every other member.
GroupMessages(u, g, t) ==
  {[src |-> u, dst |-> v, title |-> NoTitle, content |-> t] : v \in members[g] \ {u}}

HandleSendGroup(w, g, t) ==
  LET sends == g \in created /\ user[w] \in members[g]
      fresh == {m \in GroupMessages(user[w], g, t) : ~HasMessage(messages, Hash(m))}
  IN
  /\ ChatFree
  /\ Request(w, IF sends THEN Code("MSG_QUEUED")
                ELSE GroupCode(IF g \in created THEN "NOT_IN_GROUP_ERR"
                               ELSE "NO_GROUP_ERR", g))
  /\ messages' = IF sends THEN messages \cup fresh ELSE messages
  /\ UNCHANGED <<created, members>>

\* The answer is sent when the critical section is over.  EXIT is the one
\* request that is answered OK; it ends the session.
SendAnswer(w) ==
  /\ pc[w] = "answer"
  /\ WorkerSend(w, IF answer[w].code = "OK" THEN "unregister" ELSE "recv")
  /\ answer' = [answer EXCEPT ![w] = Code("OK")]

-----------------------------------------------------------------------------
(* A worker: the end of userInteraction.                                   *)

\* Fault: the user stays in the online group.
UnregisterStaysOnline(w) ==
  /\ pc[w] = "unregister"
  /\ ChatFree
  /\ pc' = [pc EXCEPT ![w] = "close"]
  /\ members' = AddUserToGroup(users, created, members, user[w], Offline)
  /\ UNCHANGED <<alive, users, created, messages, conn, user, answer, loopVars,
                 netVars, nreq>>

\* Fault: chat_mtx is not taken.
UnregisterUnlocked(w) ==
  LET mb == DelUserFromGroup(members, user[w], Online) IN
  /\ pc[w] = "unregister"
  /\ pc' = [pc EXCEPT ![w] = "close"]
  /\ members' = AddUserToGroup(users, created, mb, user[w], Offline)
  /\ UNCHANGED <<alive, users, created, messages, conn, user, answer, loopVars,
                 netVars, nreq>>

Unregister(w) ==
  LET mb == DelUserFromGroup(members, user[w], Online) IN
  /\ pc[w] = "unregister"
  /\ ChatFree
  /\ pc' = [pc EXCEPT ![w] = "close"]
  /\ members' = AddUserToGroup(users, created, mb, user[w], Offline)
  /\ UNCHANGED <<alive, users, created, messages, conn, user, answer, loopVars,
                 netVars, nreq>>

Close(w) ==
  /\ pc[w] = "close"
  /\ pc' = [pc EXCEPT ![w] = "release"]
  /\ net' = [net EXCEPT ![conn[w]] = "gone"]
  /\ fd' = [fd EXCEPT ![conn[w]] = NoFd]
  /\ conn' = [conn EXCEPT ![w] = NoConn]
  /\ user' = [user EXCEPT ![w] = NoUser]
  /\ UNCHANGED <<alive, chatVars, answer, loopVars, hungup, nreq>>

\* free_thread[id] = true.
Release(w) ==
  /\ pc[w] = "release"
  /\ pc' = [pc EXCEPT ![w] = "free"]
  /\ UNCHANGED <<alive, chatVars, conn, user, answer, loopVars, netVars, nreq>>

-----------------------------------------------------------------------------
(* The messages loop.                                                      *)

LoopLock ==
  /\ mpc = "sleep"
  /\ mpc' = "deliver"
  /\ todo' = MessagesIds(messages)
  /\ UNCHANGED <<alive, chatVars, workerVars, cur, netVars, nreq>>

MessageAt(id) == CHOOSE m \in messages : Hash(m) = id

\* Fault: only the destination has to be online.
DeliverableToOnline(m) == m.dst \in members[Online]

Deliverable(m) == {m.src, m.dst} \subseteq members[Online]

\* Fault: the pass ends at the first message that cannot be delivered.
LoopSkipAll(id) ==
  /\ mpc = "deliver"
  /\ id \in todo
  /\ ~Deliverable(MessageAt(id))
  /\ todo' = {}
  /\ UNCHANGED <<alive, chatVars, workerVars, mpc, cur, netVars, nreq>>

LoopSkip(id) ==
  /\ mpc = "deliver"
  /\ id \in todo
  /\ ~Deliverable(MessageAt(id))
  /\ todo' = todo \ {id}
  /\ UNCHANGED <<alive, chatVars, workerVars, mpc, cur, netVars, nreq>>

Deliver(id, result) ==
  /\ mpc = "deliver"
  /\ id \in todo
  /\ Deliverable(MessageAt(id))
  /\ result \in SendResults(ConnAt(SocketOf(users, MessageAt(id).dst)))

LoopDeliver(id) ==
  /\ Deliver(id, "ok")
  /\ mpc' = "notify"
  /\ cur' = MessageAt(id)
  /\ todo' = todo \ {id}
  /\ messages' = DelMessage(messages, id)
  /\ UNCHANGED <<alive, users, created, members, workerVars, netVars, nreq>>

\* Fault: the message is deleted whether it was sent or not.
LoopDeliverFailsAndDrops(id) ==
  /\ Deliver(id, "err")
  /\ todo' = todo \ {id}
  /\ messages' = DelMessage(messages, id)
  /\ UNCHANGED <<alive, users, created, members, workerVars, mpc, cur, netVars, nreq>>

\* A failed send is only logged: the message stays for the next pass.
LoopDeliverFails(id) ==
  /\ Deliver(id, "err")
  /\ todo' = todo \ {id}
  /\ UNCHANGED <<alive, chatVars, workerVars, mpc, cur, netVars, nreq>>

\* MSG_SENT or FILE_SENT to the source; a failed send is only logged.
LoopNotify ==
  /\ mpc = "notify"
  /\ {"ok", "err"} \cap SendResults(ConnAt(SocketOf(users, cur.src))) # {}
  /\ mpc' = "deliver"
  /\ cur' = NoMsg
  /\ UNCHANGED <<alive, chatVars, workerVars, todo, netVars, nreq>>

LoopKilled ==
  /\ \/ \E id \in todo : Deliver(id, "kill")
     \/ mpc = "notify" /\ "kill" \in SendResults(ConnAt(SocketOf(users, cur.src)))
  /\ Die

LoopUnlock ==
  /\ mpc = "deliver"
  /\ todo = {}
  /\ mpc' = "sleep"
  /\ UNCHANGED <<alive, chatVars, workerVars, todo, cur, netVars, nreq>>

-----------------------------------------------------------------------------
Client(c) == Connect(c) \/ HangUp(c)

AcceptStep == \E c \in Conns : (\E w \in Slots : Accept(c, w)) \/ AcceptNoSlot(c) \/ AcceptFails(c)

\* What a worker does of its own accord.
WorkerStep(w) ==
  \/ RegisterAdd(w) \/ RegisterFails(w) \/ RegisterNewcomer(w) \/ RegisterReturning(w)
  \/ Greet(w) \/ RecvEof(w) \/ RecvFails(w) \/ SendAnswer(w)
  \/ Unregister(w) \/ Close(w) \/ Release(w)

\* What a worker does when its client asks.
Handle(w) ==
  \/ HandleExit(w) \/ HandleWho(w) \/ HandleInvalid(w)
  \/ \E m \in Messages : HandleSend(w, m)
  \/ \E g \in Groups \ {Online} :
       \/ HandleCreateGroup(w, g) \/ HandleJoinGroup(w, g)
       \/ \E t \in Texts : HandleSendGroup(w, g, t)

LoopStep ==
  \/ LoopLock \/ LoopNotify \/ LoopKilled \/ LoopUnlock
  \/ \E id \in todo : LoopSkip(id) \/ LoopDeliver(id) \/ LoopDeliverFails(id)

Next ==
  /\ alive
  /\ \/ \E c \in Conns : Client(c)
     \/ AcceptStep
     \/ \E w \in Slots : WorkerStep(w) \/ Handle(w)
     \/ LoopStep

Spec == Init /\ [][Next]_vars

\* The kernel hands over the connections that are waiting and the scheduler
\* runs every thread.  chat_mtx is free again and again, as the messages loop
\* sleeps between two passes, so a worker that waits for it gets it: strong
\* fairness.  A connected client sends REGISTER.  Nothing makes a recv fail, or
\* a client connect, send requests or hang up.
Fairness ==
  /\ WF_vars(alive /\ AcceptStep)
  /\ \A w \in Slots : SF_vars(alive /\ WorkerStep(w) /\ ~RecvFails(w))
  /\ WF_vars(alive /\ LoopStep)

FairSpec == Spec /\ Fairness

-----------------------------------------------------------------------------
(* Properties of the server whatever its clients do.                       *)

\* The worker has registered its user and has not unregistered it yet.
Serving(w) ==
  /\ pc[w] \in {"greet", "recv", "answer", "unregister"}
  /\ user[w] \in Names

Sessions == {user[w] : w \in {v \in Slots : Serving(v)}}

\* A name is recorded at one socket at most, although registration finds out
\* that a name is free in one place and takes it over in another; and two
\* queued messages never have the same hash.
RegistryConsistent ==
  /\ \A f, g \in Fds : users[f] = users[g] /\ users[f] # NoUser => f = g
  /\ \A m, n \in messages : Hash(m) = Hash(n) => m = n

\* Whoever is in the online group has a worker that serves it: the loop never
\* looks up the socket of a user whose last session is over.
OnlineIsServed == members[Online] \subseteq Sessions

\* The identifiers that the loop copied at the start of its pass all denote
\* messages when it comes to them; getMessage of any other is undefined.
LoopIdsValid == todo \subseteq MessagesIds(messages)

\* A message leaves the store only when the loop has written it to a
\* descriptor that is open, while source and destination are online.
NoSilentLoss ==
  [][\A m \in messages \ messages' :
       /\ mpc = "deliver" /\ mpc' = "notify" /\ cur' = m
       /\ Deliverable(m)
       /\ ConnAt(SocketOf(users, m.dst)) # NoConn]_vars

\* Seen without threads and sockets, the server is a mailbox.
Letters == INSTANCE Mailbox WITH
  Users <- Names, Letters <- Messages,
  From <- [m \in Messages |-> m.src],
  To <- [m \in Messages |-> m.dst],
  Key <- [m \in Messages |-> Hash(m)],
  sessions <- Sessions, store <- messages

MailboxSpec == Letters!Spec

\* A client that hung up while a worker serves it is let go.
HangUpEndsSession ==
  \A c \in Conns :
    (c \in hungup /\ \E w \in Slots : conn[w] = c) ~> (net[c] = "gone" \/ ~alive)

-----------------------------------------------------------------------------
(* Properties of the server when the clients of a name take turns          *)
(* (ExclusiveNames).                                                       *)

\* The socket recorded for u is a connection of u's own client.
Routed(u) ==
  \E c \in Conns : /\ net[c] = "open"
                   /\ fd[c] = SocketOf(users, u)
                   /\ NameOf[c] = u

\* Who is served is online, and the other way round.
OnlineIffServed == members[Online] = Sessions

\* Whatever the loop writes goes to the client it is meant for, the
\* notification that follows a delivery included.
SendsAreRouted ==
  /\ mpc = "deliver" =>
       \A id \in todo : Deliverable(MessageAt(id)) => Routed(MessageAt(id).dst)
  /\ mpc = "notify" => Routed(cur.src)

\* A worker is about to tell its client that it is in a group already.
SaysAlreadyIn(w) == pc[w] = "answer" /\ answer[w].code = "USER_ALREADY_IN_GROUP"

\* A client that has registered and is told that it is in a group already is in
\* it: it has not been taken out of the map of the users in the meantime.  A
\* client that is served without a name is told the same of every group there
\* is, and is in none.
JoinAnswerTruthful ==
  \A w \in Slots :
    SaysAlreadyIn(w) /\ user[w] \in Names => user[w] \in members[answer[w].group]

\* A message that can be delivered is, unless one of the two leaves first.
DeliveredIfBothStay ==
  \A id \in MsgIds :
    LET waits == HasMessage(messages, id)
        both  == {id[1], id[2]} \subseteq members[Online]
    IN  (waits /\ both) ~> (~waits \/ ~both \/ ~alive)

-----------------------------------------------------------------------------
(* What the comments of server.cpp say and the code does not keep.         *)

\* server.cpp:337: "user is getting online again".  Afterwards it is online
\* for as long as its session lasts.
SessionIsOnline == \A w \in Slots : Serving(w) => user[w] \in members[Online]

\* server.cpp:70: "sending message to destiny user".  What the loop writes to
\* a connection is for the user of that connection's client.
SendsToDestination ==
  mpc = "deliver" =>
    \A id \in todo :
      LET m == MessageAt(id)
          c == ConnAt(SocketOf(users, m.dst))
      IN  Deliverable(m) /\ c # NoConn => NameOf[c] = m.dst
=============================================================================
