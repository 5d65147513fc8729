----------------------------- MODULE SelectServer -----------------------------
(***************************************************************************)
(* The echo server over select (trab_5/echo_server_select_tcp.c, which is  *)
(* also trab_7/select.c): one thread that serves every connection, with a  *)
(* table of descriptors, and its clients.                                  *)
(*                                                                         *)
(* Every call is a step: select, accept, read, and send byte by byte as    *)
(* long as the client's buffer has room.  Between two of them the clients  *)
(* connect, send, receive and leave.                                       *)
(***************************************************************************)
EXTENDS Integers, FiniteSets, FiniteSetsExt, Sequences

CONSTANTS
  Conns,       \* the connections that clients make, one after another
  NoConn,
  NFds,        \* how many descriptors the process may have
  FdSetSize,   \* FD_SETSIZE, the size of client[] and of the sets
  Backlog,     \* LISTENQ
  MaxLine,     \* MAXLINE
  Room,        \* how many bytes the kernel holds for a client
  MaxSent      \* bound: how many bytes the clients send in all

ListenFd == 3  \* behind the three standard streams
ClientFds == ListenFd + 1 .. NFds - 1
Indices == 0..FdSetSize - 1
Free == -1

\* The descriptors fit into the sets, as with the usual limit of a process.
ASSUME ConstantsAssumption ==
  /\ NoConn \notin Conns
  /\ {NFds, FdSetSize, Backlog, MaxLine, Room, MaxSent} \subseteq Nat
  /\ ListenFd < NFds /\ NFds <= FdSetSize
  /\ MaxLine > 0 /\ Room > 0

VARIABLES
  pc,        \* the server: at select, accept, scan or send, or stopped
  client,    \* client[]: the descriptor in each entry, or Free
  maxi,      \* the largest index in use, ever
  maxfd,     \* the largest descriptor, ever
  allset,    \* the descriptors select is called with
  rset,      \* the descriptors it found ready
  nready,    \* how many of them are still to be served
  i,         \* the scan's index
  buf,       \* what is read and not yet sent
  conn,      \* the kernel's connection of each descriptor, or NoConn
  backlog,   \* the connections not yet accepted
  end,       \* the client's end of each connection
  up,        \* what the server has not read of each connection
  down,      \* what the client has not read of each connection
  sent, got  \* as in Echo

tableVars == <<client, maxi, maxfd, allset>>
scanVars == <<rset, nready, i>>
serverVars == <<pc, tableVars, scanVars, buf, conn>>
streamVars == <<up, down, sent, got>>
vars == <<serverVars, backlog, end, streamVars>>

TypeOK ==
  /\ pc \in {"select", "accept", "scan", "send", "stopped"}
  /\ client \in [Indices -> ClientFds \cup {Free}]
  /\ maxi \in Indices \cup {Free} /\ maxfd \in ClientFds \cup {ListenFd}
  /\ {allset, rset} \subseteq SUBSET (ClientFds \cup {ListenFd})
  /\ nready \in 0..NFds /\ i \in 0..FdSetSize
  /\ buf \in Seq(Nat)
  /\ conn \in [ClientFds -> Conns \cup {NoConn}]
  /\ backlog \in Seq(Conns)
  /\ end \in [Conns -> {"away", "open", "closed", "dropped", "reset"}]
  /\ up \in [Conns -> Seq(Nat)] /\ down \in [Conns -> Seq(Nat)]
  /\ sent \in [Conns -> Nat] /\ got \in [Conns -> Nat]

Init ==
  /\ pc = "select"
  /\ client = [k \in Indices |-> Free]
  /\ maxi = -1 /\ maxfd = ListenFd /\ allset = {ListenFd}
  /\ rset = {} /\ nready = 0 /\ i = 0 /\ buf = <<>>
  /\ conn = [fd \in ClientFds |-> NoConn]
  /\ backlog = <<>>
  /\ end = [c \in Conns |-> "away"]
  /\ up = [c \in Conns |-> <<>>] /\ down = [c \in Conns |-> <<>>]
  /\ sent = [c \in Conns |-> 0] /\ got = [c \in Conns |-> 0]

Stopped == pc = "stopped"

\* Return, exit or SIGPIPE: the kernel closes every descriptor.
Stop ==
  /\ pc' = "stopped"
  /\ conn' = [fd \in ClientFds |-> NoConn]

-----------------------------------------------------------------------------
(* Clients.                                                                *)

Connect(c) ==
  /\ end[c] = "away" /\ ~Stopped
  /\ Len(backlog) < Backlog
  /\ backlog' = Append(backlog, c)
  /\ end' = [end EXCEPT ![c] = "open"]
  /\ UNCHANGED <<serverVars, streamVars>>

SendByte(c) ==
  /\ end[c] = "open" /\ MapThenSumSet(LAMBDA d : sent[d], Conns) < MaxSent
  /\ sent' = [sent EXCEPT ![c] = @ + 1]
  /\ up' = [up EXCEPT ![c] = Append(@, sent'[c])]
  /\ UNCHANGED <<serverVars, backlog, end, down, got>>

Receive(c) ==
  /\ end[c] = "open" /\ down[c] # <<>>
  /\ got' = [got EXCEPT ![c] = Head(down[c])]
  /\ down' = [down EXCEPT ![c] = Tail(@)]
  /\ UNCHANGED <<serverVars, backlog, end, up, sent>>

\* A client that leaves bytes unread resets the connection, and what it sent
\* last may not arrive.
Leave(c) ==
  /\ end[c] = "open"
  /\ IF down[c] = <<>> THEN end' = [end EXCEPT ![c] = "closed"] /\ UNCHANGED up
     ELSE /\ end' = [end EXCEPT ![c] = "reset"]
          /\ \E k \in 0..Len(up[c]) : up' = [up EXCEPT ![c] = SubSeq(@, 1, k)]
  /\ down' = [down EXCEPT ![c] = <<>>]
  /\ UNCHANGED <<serverVars, backlog, sent, got>>

-----------------------------------------------------------------------------
(* The server.                                                             *)

Ready(fd) ==
  IF fd = ListenFd THEN backlog # <<>>
  ELSE conn[fd] # NoConn /\ (up[conn[fd]] # <<>> \/ end[conn[fd]] # "open")

Select ==
  LET ready == {fd \in allset : fd <= maxfd /\ Ready(fd)} IN
  /\ pc = "select" /\ ready # {}
  /\ rset' = ready
  /\ nready' = Cardinality(ready)
  /\ i' = 0
  /\ pc' = IF ListenFd \in ready THEN "accept" ELSE "scan"
  /\ UNCHANGED <<tableVars, buf, conn, backlog, end, streamVars>>

FreeFds == {fd \in ClientFds : conn[fd] = NoConn}
FreeEntries == {k \in Indices : client[k] = Free}

CanAccept == pc = "accept" /\ FreeFds # {} /\ FreeEntries # {}

\* The connection gets the lowest descriptor and the first entry that are free.
Admit(connfd, k) ==
  /\ conn' = [conn EXCEPT ![connfd] = Head(backlog)]
  /\ client' = [client EXCEPT ![k] = connfd]
  /\ allset' = allset \cup {connfd}
  /\ maxi' = Max({maxi, k})
  /\ backlog' = Tail(backlog)
  /\ nready' = nready - 1
  /\ pc' = IF nready' = 0 THEN "select" ELSE "scan"
  /\ UNCHANGED <<rset, i, buf, end, streamVars>>

\* Fault: the largest descriptor is the last one accepted.
AcceptLast == CanAccept /\ Admit(Min(FreeFds), Min(FreeEntries)) /\ maxfd' = Min(FreeFds)

Accept ==
  /\ CanAccept
  /\ Admit(Min(FreeFds), Min(FreeEntries))
  /\ maxfd' = Max({maxfd, Min(FreeFds)})

\* There is no descriptor for another connection, or no entry.
AcceptFails ==
  /\ pc = "accept" /\ ~CanAccept
  /\ Stop
  /\ UNCHANGED <<tableVars, scanVars, buf, backlog, end, streamVars>>

ToServe == pc = "scan" /\ i <= maxi /\ client[i] \in rset
Peer == conn[client[i]]

\* The entry is free, or nothing has come on its descriptor; behind the last
\* entry the scan is over.
Skip ==
  /\ pc = "scan" /\ ~ToServe
  /\ IF i <= maxi THEN i' = i + 1 /\ UNCHANGED pc ELSE pc' = "select" /\ UNCHANGED i
  /\ UNCHANGED <<tableVars, rset, nready, buf, conn, backlog, end, streamVars>>

\* Fault: the connection is not counted as served.
ServedUncounted == i' = i + 1 /\ pc' = "scan" /\ UNCHANGED <<rset, nready>>

\* The end of the loop's body: the scan goes on while others are ready.
Served ==
  /\ nready' = nready - 1
  /\ i' = i + 1
  /\ pc' = IF nready' = 0 THEN "select" ELSE "scan"
  /\ UNCHANGED rset

ReadEof ==
  /\ ToServe /\ up[Peer] = <<>> /\ end[Peer] \in {"closed", "dropped"}
  /\ conn' = [conn EXCEPT ![client[i]] = NoConn]
  /\ allset' = allset \ {client[i]}
  /\ client' = [client EXCEPT ![i] = Free]
  /\ Served
  /\ UNCHANGED <<maxi, maxfd, buf, backlog, end, streamVars>>

\* One connection that was reset ends the server for all.
ReadFails ==
  /\ ToServe /\ up[Peer] = <<>> /\ end[Peer] = "reset"
  /\ Stop
  /\ UNCHANGED <<tableVars, scanVars, buf, backlog, end, streamVars>>

Read ==
  /\ ToServe /\ up[Peer] # <<>>
  /\ LET n == Min({Len(up[Peer]), MaxLine}) IN
       /\ buf' = SubSeq(up[Peer], 1, n)
       /\ up' = [up EXCEPT ![Peer] = SubSeq(@, n + 1, Len(@))]
  /\ pc' = "send"
  /\ UNCHANGED <<tableVars, scanVars, conn, backlog, end, down, sent, got>>

\* Fault: a send that took a part is not repeated.
SendPart ==
  /\ pc = "send" /\ end[Peer] = "open" /\ Len(down[Peer]) < Room
  /\ down' = [down EXCEPT ![Peer] = Append(@, Head(buf))]
  /\ buf' = <<>>
  /\ Served
  /\ UNCHANGED <<tableVars, conn, backlog, end, up, sent, got>>

\* A byte finds room at a client that is there; without room the server waits.
Send ==
  /\ pc = "send" /\ end[Peer] = "open" /\ Len(down[Peer]) < Room
  /\ down' = [down EXCEPT ![Peer] = Append(@, Head(buf))]
  /\ buf' = Tail(buf)
  /\ IF buf' = <<>> THEN Served ELSE UNCHANGED <<pc, scanVars>>
  /\ UNCHANGED <<tableVars, conn, backlog, end, up, sent, got>>

\* The kernel takes bytes for a client that has closed, whose answer is a reset.
SendToClosed ==
  /\ pc = "send" /\ end[Peer] = "closed"
  /\ buf' = <<>>
  /\ end' = [end EXCEPT ![Peer] = "dropped"]
  /\ Served
  /\ UNCHANGED <<tableVars, conn, backlog, streamVars>>

\* SIGPIPE or an error, behind a reset.
SendFails ==
  /\ pc = "send" /\ end[Peer] \in {"dropped", "reset"}
  /\ Stop
  /\ UNCHANGED <<tableVars, scanVars, buf, backlog, end, streamVars>>

-----------------------------------------------------------------------------
Server ==
  \/ Select \/ Accept \/ AcceptFails
  \/ Skip \/ ReadEof \/ ReadFails \/ Read
  \/ Send \/ SendToClosed \/ SendFails

Client(c) == Connect(c) \/ SendByte(c) \/ Receive(c) \/ Leave(c)

Next == Server \/ \E c \in Conns : Client(c)

\* The kernel runs the server, and the clients read.
Spec == Init /\ [][Next]_vars /\ WF_vars(Server) /\ \A c \in Conns : WF_vars(Receive(c))

-----------------------------------------------------------------------------
(* Properties.                                                             *)

InTable == {client[k] : k \in {j \in Indices : client[j] # Free}}
OpenFds == {fd \in ClientFds : conn[fd] # NoConn}

\* Unless the server has stopped, the table, the set for select and the open
\* descriptors agree, however descriptors and entries are used again: each
\* open descriptor has one entry, within what the scan and select look at,
\* and the table has room for every descriptor accept can return.
TableSound ==
  ~Stopped =>
    /\ InTable = OpenFds
    /\ allset = OpenFds \cup {ListenFd}
    /\ \A j, k \in Indices : client[j] = client[k] /\ client[j] # Free => j = k
    /\ \A k \in Indices : client[k] # Free => k <= maxi
    /\ \A fd \in OpenFds : fd <= maxfd
    /\ FreeFds # {} => FreeEntries # {}

\* What is still to be served is what nready counts, and is ready: neither
\* accept nor read blocks the server, and no ready connection is left out when
\* the loop ends.
Unserved == (rset \cap {client[k] : k \in {j \in Indices : j >= i}})
            \cup (IF pc = "accept" THEN {ListenFd} ELSE {})
ReadyCounted ==
  ~Stopped =>
    /\ pc \in {"accept", "scan", "send"} => nready = Cardinality(Unserved) /\ nready > 0
    /\ \A fd \in Unserved : Ready(fd) \/ (pc = "send" /\ fd = client[i])

\* Every client gets its own bytes back, in order and each once, although one
\* buffer serves all.
EchoSpec == INSTANCE Echo
EchoSafe == EchoSpec!Spec

\* As long as the clients read what they are sent, all that a client has sent
\* comes back, unless it leaves or somebody's reset stops the server.
EchoArrives ==
  \A c \in Conns : sent[c] > got[c] ~> (sent[c] = got[c] \/ end[c] # "open" \/ Stopped)
=============================================================================
