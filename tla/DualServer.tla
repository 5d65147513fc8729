------------------------------ MODULE DualServer ------------------------------
(***************************************************************************)
(* The echo server for TCP and UDP (trab_7/server_tcp_udp.c) and its       *)
(* clients.  The parent waits with select for a connection or a datagram;  *)
(* a connection it hands to a child process of its own, a datagram it      *)
(* echoes itself.  Nobody waits for the children, so those that have       *)
(* exited stay in the table of processes.                                  *)
(*                                                                         *)
(* A line of TCP is a unit: it is not cut on its way (see the README).     *)
(***************************************************************************)
EXTENDS UdpEcho, Sequences, FiniteSets

CONSTANTS
  Conns,     \* the TCP clients, each with one connection
  MaxTyped,  \* bound: how many lines they send in all
  NoConn,
  MaxProcs,  \* how many children the table of processes has room for
  Backlog    \* MAX_PENDING

ASSUME DualAssumption == NoConn \notin Conns /\ {MaxTyped, MaxProcs, Backlog} \subseteq Nat

VARIABLES
  pc,        \* the parent: not started, at a call, or dead
  rset,      \* the sockets that select has found ready
  inHand,    \* the connection the parent has accepted and not closed
  backlog,   \* the connections not yet accepted
  child,     \* the child process of each connection
  tcp,       \* where each TCP client is
  wire,      \* what each connection has on its way
  typed,     \* how many lines each TCP client has sent
  shown,     \* how many it has shown as received from the server
  echoed     \* how many its child has echoed

parentVars == <<pc, rset, inHand, backlog>>
tcpVars == <<child, tcp, wire, typed, shown, echoed>>
vars == <<parentVars, tcpVars, udpVars>>

Init ==
  /\ UdpInit
  /\ pc = "off" /\ rset = {} /\ inHand = NoConn /\ backlog = <<>>
  /\ child = [c \in Conns |-> "none"]
  /\ tcp = [c \in Conns |-> "away"]
  /\ wire = [c \in Conns |-> "idle"]
  /\ typed = [c \in Conns |-> 0] /\ shown = [c \in Conns |-> 0]
  /\ echoed = [c \in Conns |-> 0]

Running(c) == child[c] = "running"

\* Children that have exited go when the parent does.
Procs == {c \in Conns : child[c] # "none"}

\* Every child has the UDP socket too.
Bound == pc \notin {"off", "dead"} \/ \E c \in Conns : Running(c)

\* What is in wire[c] when the last process that has the connection closes it:
\* a reset if a line is left unread, else the end of the file.
Closed(c) == IF wire[c] = "line" THEN "reset" ELSE "eof"

-----------------------------------------------------------------------------
(* TCP clients: a line, then its answer.                                   *)

Connect(c) ==
  /\ tcp[c] = "away" /\ pc \notin {"off", "dead"} /\ Len(backlog) < Backlog
  /\ tcp' = [tcp EXCEPT ![c] = "prompt"]
  /\ backlog' = Append(backlog, c)
  /\ UNCHANGED <<pc, rset, inHand, child, wire, typed, shown, echoed, udpVars>>

\* A line sent behind the end of the file is answered by a reset, and the
\* next one kills the client.
SendLine(c) ==
  /\ tcp[c] = "prompt" /\ Total(typed, Conns) < MaxTyped
  /\ IF wire[c] \in {"reset", "broken"}
     THEN tcp' = [tcp EXCEPT ![c] = "gone"] /\ UNCHANGED <<wire, typed>>
     ELSE /\ tcp' = [tcp EXCEPT ![c] = "waiting"]
          /\ wire' = [wire EXCEPT ![c] = IF @ = "eof" THEN "broken" ELSE "line"]
          /\ typed' = [typed EXCEPT ![c] = @ + 1]
  /\ UNCHANGED <<parentVars, child, shown, echoed, udpVars>>

\* What recv returns is only compared with -1: at the end of the file the
\* client shows its own line, which is still in buf.
ShowLine(c) ==
  /\ tcp[c] = "waiting" /\ wire[c] \in {"echo", "eof", "broken"}
  /\ tcp' = [tcp EXCEPT ![c] = "prompt"]
  /\ wire' = [wire EXCEPT ![c] = IF @ = "echo" THEN "idle" ELSE @]
  /\ shown' = [shown EXCEPT ![c] = @ + 1]
  /\ UNCHANGED <<parentVars, child, typed, echoed, udpVars>>

RecvFails(c) ==
  /\ tcp[c] = "waiting" /\ wire[c] = "reset"
  /\ tcp' = [tcp EXCEPT ![c] = "gone"]
  /\ UNCHANGED <<parentVars, child, wire, typed, shown, echoed, udpVars>>

\* The end of the standard input, or an interrupt while it waits.
Leave(c) ==
  /\ tcp[c] \in {"prompt", "waiting"}
  /\ tcp' = [tcp EXCEPT ![c] = "gone"]
  /\ UNCHANGED <<parentVars, child, wire, typed, shown, echoed, udpVars>>

-----------------------------------------------------------------------------
(* The parent.                                                             *)

Start ==
  /\ pc = "off"
  /\ pc' = "select"
  /\ UNCHANGED <<rset, inHand, backlog, tcpVars, udpVars>>

Select ==
  LET ready == (IF backlog # <<>> THEN {"tcp"} ELSE {})
               \cup (IF requests # EmptyBag THEN {"udp"} ELSE {})
  IN
  /\ pc = "select" /\ ready # {}
  /\ rset' = ready
  /\ pc' = IF "tcp" \in ready THEN "accept" ELSE "recvfrom"
  /\ UNCHANGED <<inHand, backlog, tcpVars, udpVars>>

Accept ==
  /\ pc = "accept"
  /\ inHand' = Head(backlog)
  /\ backlog' = Tail(backlog)
  /\ pc' = "fork"
  /\ UNCHANGED <<rset, tcpVars, udpVars>>

\* The network resets a connection in the backlog: getpeername then fails and
\* the parent exits, with the connections that are still in the backlog.
AcceptReset ==
  /\ pc = "accept" /\ Fault
  /\ pc' = "dead"
  /\ backlog' = <<>>
  /\ wire' = [c \in Conns |-> IF c \in {backlog[k] : k \in DOMAIN backlog} THEN "reset" ELSE wire[c]]
  /\ child' = [c \in Conns |-> IF child[c] = "zombie" THEN "none" ELSE child[c]]
  /\ UNCHANGED <<rset, inHand, tcp, typed, shown, echoed, udp, asked, answer, requests,
                 answers, lost, extra>>

AfterTcp == IF "udp" \in rset THEN "recvfrom" ELSE "select"

\* Fault: the parent keeps the connection open.
ForkKeepsSocket ==
  /\ pc = "fork"
  /\ child' = [child EXCEPT ![inHand] = IF Cardinality(Procs) < MaxProcs THEN "running" ELSE @]
  /\ pc' = AfterTcp
  /\ UNCHANGED <<rset, inHand, backlog, tcp, wire, typed, shown, echoed, udpVars>>

\* Fault: the parent waits for the child before it goes on.
ForkWaits ==
  /\ pc = "fork"
  /\ \/ /\ child[inHand] = "none" /\ Cardinality(Procs) < MaxProcs
        /\ child' = [child EXCEPT ![inHand] = "running"]
        /\ UNCHANGED <<pc, inHand, wire>>
     \/ /\ child[inHand] # "running" /\ ~(child[inHand] = "none" /\ Cardinality(Procs) < MaxProcs)
        /\ pc' = AfterTcp
        /\ inHand' = NoConn
        /\ wire' = IF child[inHand] = "none" THEN [wire EXCEPT ![inHand] = Closed(inHand)] ELSE wire
        /\ UNCHANGED child
  /\ UNCHANGED <<rset, backlog, tcp, typed, shown, echoed, udpVars>>

\* The child takes the connection over.  When there is none, as what fork
\* returns is only compared with 0, the connection is closed all the same.
Fork ==
  /\ pc = "fork"
  /\ IF Cardinality(Procs) < MaxProcs
     THEN child' = [child EXCEPT ![inHand] = "running"] /\ UNCHANGED wire
     ELSE wire' = [wire EXCEPT ![inHand] = Closed(inHand)] /\ UNCHANGED child
  /\ inHand' = NoConn
  /\ pc' = AfterTcp
  /\ UNCHANGED <<rset, backlog, tcp, typed, shown, echoed, udpVars>>

\* Fault: the answer goes to an address that an earlier call has left in sin.
UdpBranchStale ==
  /\ pc = "recvfrom"
  /\ \E datagram \in DOMAIN requests, c \in Clients :
       /\ requests' = requests (-) One(datagram)
       /\ answers' = answers (+) One([datagram EXCEPT !.dst = c])
  /\ pc' = "select"
  /\ UNCHANGED <<rset, inHand, backlog, tcpVars, udp, asked, answer, lost, extra, faults>>

\* The address that accept has left in sin is overwritten by recvfrom.
UdpBranch ==
  /\ pc = "recvfrom"
  /\ \E datagram \in DOMAIN requests : Echo(datagram)
  /\ pc' = "select"
  /\ UNCHANGED <<rset, inHand, backlog, tcpVars>>

Parent == Select \/ Accept \/ Fork \/ UdpBranch

-----------------------------------------------------------------------------
(* The children.                                                           *)

\* Fault: the child serves one line.
ChildEchoOnce(c) ==
  /\ Running(c) /\ wire[c] = "line" /\ tcp[c] # "gone"
  /\ wire' = [wire EXCEPT ![c] = IF echoed[c] = 0 THEN "echo" ELSE "eof"]
  /\ child' = [child EXCEPT ![c] = IF echoed[c] = 0 THEN @ ELSE "zombie"]
  /\ echoed' = [echoed EXCEPT ![c] = IF echoed[c] = 0 THEN 1 ELSE @]
  /\ UNCHANGED <<parentVars, tcp, typed, shown, udpVars>>

ChildEcho(c) ==
  /\ Running(c) /\ wire[c] = "line" /\ tcp[c] # "gone"
  /\ wire' = [wire EXCEPT ![c] = "echo"]
  /\ echoed' = [echoed EXCEPT ![c] = @ + 1]
  /\ UNCHANGED <<parentVars, child, tcp, typed, shown, udpVars>>

\* The client has gone: recv returns 0 or fails, or a send does.
ChildExits(c) ==
  /\ Running(c) /\ tcp[c] = "gone"
  /\ child' = [child EXCEPT ![c] = IF pc = "dead" THEN "none" ELSE "zombie"]
  /\ UNCHANGED <<parentVars, tcp, wire, typed, shown, echoed, udpVars>>

-----------------------------------------------------------------------------
RefusePort ==
  /\ ~Bound
  /\ \E datagram \in DOMAIN requests : Refuse(datagram)
  /\ UNCHANGED <<parentVars, tcpVars>>

Udp(c) == UdpClient(c) /\ UNCHANGED <<parentVars, tcpVars>>
Lossy == Network /\ UNCHANGED <<parentVars, tcpVars>>

TcpClient(c) == Connect(c) \/ SendLine(c) \/ ShowLine(c) \/ RecvFails(c) \/ Leave(c)

Next ==
  \/ Start \/ Parent \/ AcceptReset \/ RefusePort \/ Lossy
  \/ \E c \in Conns : TcpClient(c) \/ ChildEcho(c) \/ ChildExits(c)
  \/ \E c \in Clients : Udp(c)

\* The kernel runs every process that a call has not stopped, and delivers what
\* it has not lost.  Nobody has to type, to leave, or to start the server.
Fairness ==
  /\ WF_vars(Parent) /\ WF_vars(RefusePort)
  /\ \A c \in Conns :
       WF_vars(ShowLine(c) \/ RecvFails(c)) /\ WF_vars(ChildEcho(c)) /\ WF_vars(ChildExits(c))
  /\ \A c \in Clients :
       WF_vars(\E datagram \in DOMAIN answers : Receive(c, datagram) /\ UNCHANGED <<parentVars, tcpVars>>)

Spec == Init /\ [][Next]_vars /\ Fairness

-----------------------------------------------------------------------------
(* Properties.                                                             *)

\* A UDP client's wait ends, whatever the TCP clients do, in particular when
\* they neither send nor leave; only a loss, or the death of the parent, makes
\* it wait for good.
UdpAnswered ==
  \A c \in Clients : udp[c] = "waiting" ~> (udp[c] # "waiting" \/ c \in lost \/ pc = "dead")

\* A TCP client's wait ends, whether or not there was a process for it, and
\* even when the parent is dead.
TcpAnswered == \A c \in Conns : tcp[c] = "waiting" ~> tcp[c] # "waiting"

\* What a TCP client shows as received from the server has been echoed, but for
\* a connection that was closed for want of a child process: a child never
\* closes before its client does.
EchoIsTrue == \A c \in Conns : shown[c] > echoed[c] => child[c] = "none"
=============================================================================
