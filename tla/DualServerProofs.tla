--------------------------- MODULE DualServerProofs ---------------------------
(***************************************************************************)
(* Theorems about DualServer, for any number of clients and of child       *)
(* processes: the TCP connections, and the datagrams of the UDP clients.   *)
(***************************************************************************)
EXTENDS DualServer, SequenceTheorems, TLAPS

-----------------------------------------------------------------------------
(* The inductive invariant.                                                *)

Types ==
  /\ pc \in {"off", "select", "accept", "fork", "recvfrom", "dead"}
  /\ inHand \in Conns \cup {NoConn}
  /\ backlog \in Seq(Conns)
  /\ child \in [Conns -> {"none", "running", "zombie"}]
  /\ tcp \in [Conns -> {"away", "prompt", "waiting", "gone"}]
  /\ wire \in [Conns -> {"idle", "line", "echo", "eof", "broken", "reset"}]
  /\ shown \in [Conns -> Nat] /\ echoed \in [Conns -> Nat]

InBacklog(c) == \E k \in 1..Len(backlog) : backlog[k] = c
Queued(c) == InBacklog(c) \/ inHand = c

\* A connection that was not handed over yet is in one place.
QueueOnce ==
  /\ \A j, k \in 1..Len(backlog) : backlog[j] = backlog[k] => j = k
  /\ ~InBacklog(inHand)
  /\ pc = "accept" => backlog # <<>>
  /\ pc = "fork" <=> inHand # NoConn

\* No child has served the connection.
Untouched(c) ==
  child[c] = "none" /\ wire[c] \in {"idle", "line"} /\ shown[c] = 0 /\ echoed[c] = 0

\* A line and its answer take turns, and a child has echoed all that was shown.
ConnInv(c) ==
  /\ tcp[c] = "away" => ~Queued(c) /\ Untouched(c) /\ wire[c] = "idle"
  /\ Queued(c) => Untouched(c)
  /\ Queued(c) \/ Running(c) => (tcp[c] = "prompt" => wire[c] = "idle")
  /\ Running(c) => /\ wire[c] \in {"idle", "line", "echo"}
                   /\ echoed[c] = shown[c] + (IF wire[c] = "echo" THEN 1 ELSE 0)
  /\ child[c] = "zombie" => tcp[c] = "gone" /\ shown[c] <= echoed[c]

DualInv == Types /\ QueueOnce /\ \A c \in Conns : ConnInv(c)

LEMMA DualInit == Init => DualInv
<1> SUFFICES ASSUME Init PROVE DualInv
  OBVIOUS
<1> USE DualAssumption DEF Init
<1>1. backlog = <<>> /\ Len(<<>>) = 0 /\ <<>> \in Seq(Conns)
  OBVIOUS
<1>2. Types
  BY <1>1 DEF Types
<1>3. QueueOnce /\ \A c \in Conns : ~Queued(c)
  BY <1>1 DEF QueueOnce, Queued, InBacklog
<1>4. \A c \in Conns : ConnInv(c)
  BY <1>3 DEF ConnInv, Untouched, Running
<1> QED
  BY <1>2, <1>3, <1>4 DEF DualInv

\* A connection whose client, wire and child are left alone, and that is not queued
\* anew.
LEMMA ConnKept ==
  ASSUME NEW c \in Conns, ConnInv(c), Queued(c)' => Queued(c),
         tcp'[c] = tcp[c], wire'[c] = wire[c], shown'[c] = shown[c], echoed'[c] = echoed[c],
         child'[c] = child[c] \/ child'[c] = "none"
  PROVE  ConnInv(c)'
BY DEF ConnInv, Untouched, Running

LEMMA DualStep == DualInv /\ [Next]_vars => DualInv'
<1> SUFFICES ASSUME DualInv, [Next]_vars PROVE DualInv'
  OBVIOUS
<1> USE DualAssumption
<1>0. Types /\ QueueOnce /\ \A c \in Conns : ConnInv(c)
  BY DEF DualInv
<1>1. ASSUME UNCHANGED <<inHand, backlog, tcp, wire, shown, echoed>>,
             pc' = pc \/ (pc # "fork" /\ pc' \in {"select", "accept", "recvfrom"}),
             pc' = "accept" => backlog # <<>>,
             child' = child
      PROVE  DualInv'
  <2>1. \A c \in Conns : Queued(c)' => Queued(c)
    BY <1>1 DEF Queued, InBacklog
  <2>2. \A c \in Conns : ConnInv(c)'
    BY <1>0, <1>1, <2>1, ConnKept
  <2>3. Types'
    BY <1>0, <1>1 DEF Types
  <2>4. QueueOnce'
    BY <1>0, <1>1 DEF QueueOnce, InBacklog
  <2> QED
    BY <2>2, <2>3, <2>4 DEF DualInv
<1>2. CASE Start \/ Select \/ UdpBranch \/ RefusePort \/ Lossy \/ (\E c \in Clients : Udp(c))
           \/ UNCHANGED vars
  <2>1. /\ UNCHANGED <<inHand, backlog, tcp, wire, shown, echoed, child>>
        /\ pc' = pc \/ (pc # "fork" /\ pc' \in {"select", "accept", "recvfrom"})
    BY <1>2 DEF Start, Select, UdpBranch, RefusePort, Lossy, Udp, vars, parentVars, tcpVars
  <2>2. pc' = "accept" => backlog # <<>>
    BY <1>0, <1>2 DEF QueueOnce, Start, Select, UdpBranch, RefusePort, Lossy, Udp, vars, parentVars
  <2> QED
    BY <1>1, <2>1, <2>2
\* One connection changes, and the queue does not.
<1>3. ASSUME NEW c \in Conns, UNCHANGED parentVars, Types', ConnInv(c)',
             \A d \in Conns : d # c => tcp'[d] = tcp[d] /\ wire'[d] = wire[d] /\ shown'[d] = shown[d]
                                       /\ echoed'[d] = echoed[d] /\ child'[d] = child[d]
      PROVE  DualInv'
  <2>1. \A d \in Conns : Queued(d)' => Queued(d)
    BY <1>3 DEF Queued, InBacklog, parentVars
  <2>2. \A d \in Conns : d # c => ConnInv(d)'
    BY <1>0, <1>3, <2>1, ConnKept
  <2>3. QueueOnce'
    BY <1>0, <1>3 DEF QueueOnce, InBacklog, parentVars
  <2> QED
    BY <1>3, <2>2, <2>3 DEF DualInv
<1>4. ASSUME NEW c \in Conns, SendLine(c) PROVE DualInv'
  <2>1. Types'
    BY <1>0, <1>4 DEF SendLine, Types, parentVars
  <2>2. Queued(c)' = Queued(c)
    BY <1>4 DEF SendLine, Queued, InBacklog, parentVars
  <2>3. ConnInv(c)'
    <3>1. ConnInv(c) /\ tcp[c] = "prompt" /\ UNCHANGED <<child, shown, echoed>>
      BY <1>0, <1>4 DEF SendLine
    <3>2. CASE wire[c] \in {"reset", "broken"}
      BY <1>0, <1>4, <2>2, <3>1, <3>2 DEF SendLine, ConnInv, Untouched, Running, Types
    <3>3. CASE wire[c] \notin {"reset", "broken"}
      <4>1. tcp'[c] = "waiting" /\ wire'[c] = IF wire[c] = "eof" THEN "broken" ELSE "line"
        BY <1>0, <1>4, <3>3 DEF SendLine, Types
      <4> QED
        BY <2>2, <3>1, <4>1 DEF ConnInv, Untouched, Running
    <3> QED
      BY <3>2, <3>3
  <2> QED
    BY <1>0, <1>3, <1>4, <2>1, <2>3 DEF SendLine, Types
<1>5. ASSUME NEW c \in Conns, ShowLine(c) PROVE DualInv'
  <2>1. Types'
    BY <1>0, <1>5 DEF ShowLine, Types, parentVars
  <2>2. Queued(c)' = Queued(c)
    BY <1>5 DEF ShowLine, Queued, InBacklog, parentVars
  <2>3. ConnInv(c)'
    <3>1. /\ ConnInv(c) /\ tcp[c] = "waiting" /\ UNCHANGED <<child, echoed>>
          /\ wire[c] \in {"echo", "eof", "broken"} /\ shown[c] \in Nat
          /\ tcp'[c] = "prompt" /\ shown'[c] = shown[c] + 1
          /\ wire'[c] = IF wire[c] = "echo" THEN "idle" ELSE wire[c]
      BY <1>0, <1>5 DEF ShowLine, Types
    <3> QED
      BY <2>2, <3>1 DEF ConnInv, Untouched, Running
  <2> QED
    BY <1>0, <1>3, <1>5, <2>1, <2>3 DEF ShowLine, Types
<1>6. ASSUME NEW c \in Conns, RecvFails(c) \/ Leave(c) PROVE DualInv'
  <2>1. Types'
    BY <1>0, <1>6 DEF RecvFails, Leave, Types, parentVars
  <2>2. Queued(c)' = Queued(c)
    BY <1>6 DEF RecvFails, Leave, Queued, InBacklog, parentVars
  <2>3. ConnInv(c)'
    <3>1. /\ ConnInv(c) /\ tcp[c] # "away" /\ UNCHANGED <<child, wire, shown, echoed>>
          /\ tcp'[c] = "gone"
      BY <1>0, <1>6 DEF RecvFails, Leave, Types
    <3> QED
      BY <2>2, <3>1 DEF ConnInv, Untouched, Running
  <2> QED
    BY <1>0, <1>3, <1>6, <2>1, <2>3 DEF RecvFails, Leave, Types
<1>7. ASSUME NEW c \in Conns, ChildEcho(c) PROVE DualInv'
  <2>1. Types'
    BY <1>0, <1>7 DEF ChildEcho, Types, parentVars
  <2>2. Queued(c)' = Queued(c)
    BY <1>7 DEF ChildEcho, Queued, InBacklog, parentVars
  <2>3. ConnInv(c)'
    <3>1. /\ ConnInv(c) /\ UNCHANGED <<child, tcp, shown>> /\ Running(c)
          /\ wire[c] = "line" /\ shown[c] \in Nat /\ echoed[c] \in Nat
          /\ wire'[c] = "echo" /\ echoed'[c] = echoed[c] + 1
      BY <1>0, <1>7 DEF ChildEcho, Types
    <3> QED
      BY <2>2, <3>1 DEF ConnInv, Untouched, Running
  <2> QED
    BY <1>0, <1>3, <1>7, <2>1, <2>3 DEF ChildEcho, Types
<1>8. ASSUME NEW c \in Conns, ChildExits(c) PROVE DualInv'
  <2>1. Types'
    BY <1>0, <1>8 DEF ChildExits, Types, parentVars
  <2>2. Queued(c)' = Queued(c)
    BY <1>8 DEF ChildExits, Queued, InBacklog, parentVars
  <2>3. ConnInv(c)'
    <3>1. /\ ConnInv(c) /\ UNCHANGED <<tcp, wire, shown, echoed>> /\ Running(c) /\ tcp[c] = "gone"
          /\ child'[c] \in {"none", "zombie"} /\ shown[c] \in Nat /\ echoed[c] \in Nat
      BY <1>0, <1>8 DEF ChildExits, Types
    <3> QED
      BY <2>2, <3>1 DEF ConnInv, Untouched, Running
  <2> QED
    BY <1>0, <1>3, <1>8, <2>1, <2>3 DEF ChildExits, Types
<1>9. ASSUME NEW c \in Conns, Connect(c) PROVE DualInv'
  <2>1. /\ tcp[c] = "away" /\ tcp' = [tcp EXCEPT ![c] = "prompt"] /\ backlog' = Append(backlog, c)
        /\ UNCHANGED <<pc, inHand, child, wire, shown, echoed>>
    BY <1>9 DEF Connect
  <2>2. /\ backlog' \in Seq(Conns) /\ backlog' # <<>> /\ Len(backlog') = Len(backlog) + 1
        /\ Len(backlog) \in Nat
        /\ \A k \in 1..Len(backlog) : backlog'[k] = backlog[k]
        /\ backlog'[Len(backlog) + 1] = c
    BY <1>0, <2>1, AppendProperties DEF Types
  <2>3. \A k \in 1..Len(backlog') : k \in 1..Len(backlog) \/ k = Len(backlog) + 1
    BY <2>2
  <2>4. \A d : InBacklog(d)' => InBacklog(d) \/ d = c
    BY <2>2, <2>3 DEF InBacklog
  <2>5. ConnInv(c) /\ ~InBacklog(c) /\ inHand # c
    BY <1>0, <2>1 DEF ConnInv, Queued
  <2>6. QueueOnce'
    <3>1. \A j, k \in 1..Len(backlog') : backlog'[j] = backlog'[k] => j = k
      BY <1>0, <2>2, <2>3, <2>5 DEF QueueOnce, InBacklog
    <3>2. ~InBacklog(inHand)'
      BY <1>0, <2>1, <2>4, <2>5 DEF QueueOnce, InBacklog
    <3> QED
      BY <1>0, <2>1, <2>2, <3>1, <3>2 DEF QueueOnce
  <2>7. ConnInv(c)'
    <3>1. tcp'[c] = "prompt"
      BY <1>0, <2>1 DEF Types
    <3> QED
      BY <2>1, <2>5, <3>1 DEF ConnInv, Untouched, Running
  <2>8. \A d \in Conns : d # c => ConnInv(d)'
    <3>1. \A d \in Conns : d # c => (Queued(d)' => Queued(d)) /\ tcp'[d] = tcp[d]
      BY <1>0, <2>1, <2>4 DEF Queued, Types
    <3> QED
      BY <1>0, <2>1, <3>1, ConnKept
  <2>9. Types'
    BY <1>0, <2>1, <2>2 DEF Types
  <2> QED
    BY <2>6, <2>7, <2>8, <2>9 DEF DualInv
<1>10. CASE Accept
  <2>1. /\ pc = "accept" /\ inHand' = Head(backlog) /\ backlog' = Tail(backlog) /\ pc' = "fork"
        /\ UNCHANGED <<child, tcp, wire, shown, echoed>>
    BY <1>10 DEF Accept, tcpVars
  <2>2. backlog \in Seq(Conns) /\ backlog # <<>>
    BY <1>0, <2>1 DEF Types, QueueOnce
  <2>3. /\ inHand' \in Conns /\ inHand' = backlog[1] /\ 1 \in 1..Len(backlog)
        /\ backlog' \in Seq(Conns) /\ Len(backlog') = Len(backlog) - 1 /\ Len(backlog) \in Nat
        /\ \A k \in 1..Len(backlog') : backlog'[k] = backlog[k + 1]
    BY <2>1, <2>2, HeadTailProperties
  <2>4. \A k \in 1..Len(backlog') : k + 1 \in 1..Len(backlog) /\ k + 1 # 1
    BY <2>3
  <2>5. \A d : InBacklog(d)' => InBacklog(d)
    BY <2>3, <2>4 DEF InBacklog
  <2>6. QueueOnce'
    <3>1. \A j, k \in 1..Len(backlog') : backlog'[j] = backlog'[k] => j = k
      <4>1. \A j, k \in 1..Len(backlog') : j + 1 = k + 1 => j = k
        BY <2>3
      <4> QED
        BY <1>0, <2>3, <2>4, <4>1 DEF QueueOnce
    <3>2. ~InBacklog(inHand)'
      BY <1>0, <2>3, <2>4 DEF QueueOnce, InBacklog
    <3> QED
      BY <2>1, <2>3, <3>1, <3>2 DEF QueueOnce
  <2>7. \A d \in Conns : Queued(d)' => Queued(d)
    BY <2>3, <2>5 DEF Queued, InBacklog
  <2>8. \A d \in Conns : ConnInv(d)'
    BY <1>0, <2>1, <2>7, ConnKept
  <2>9. Types'
    BY <1>0, <2>1, <2>3 DEF Types
  <2> QED
    BY <2>6, <2>8, <2>9 DEF DualInv
<1>11. CASE Fork
  <2>1. pc = "fork" /\ inHand \in Conns
    BY <1>0, <1>11 DEF Fork, QueueOnce, Types
  <2>2. /\ inHand' = NoConn /\ pc' \in {"recvfrom", "select"}
        /\ UNCHANGED <<backlog, tcp, shown, echoed>>
    BY <1>11 DEF Fork, AfterTcp
  <2>3. /\ child' \in [Conns -> {"none", "running", "zombie"}]
        /\ wire' \in [Conns -> {"idle", "line", "echo", "eof", "broken", "reset"}]
    BY <1>0, <1>11 DEF Fork, Types, Closed
  <2>4. Types'
    BY <1>0, <2>2, <2>3 DEF Types
  <2>5. \A d \in Conns : InBacklog(d)' = InBacklog(d) /\ ~InBacklog(NoConn)
    BY <1>0, <2>2, ElementOfSeq DEF InBacklog, Types
  <2>6. QueueOnce'
    <3>1. ~InBacklog(inHand)'
      BY <1>0, <2>2, ElementOfSeq DEF InBacklog, Types
    <3> QED
      BY <1>0, <2>2, <3>1 DEF QueueOnce
  <2>7. \A d \in Conns : (Queued(d)' => Queued(d)) /\ d # NoConn
    BY <2>2, <2>5 DEF Queued
  <2>8. ASSUME NEW d \in Conns, d # inHand PROVE ConnInv(d)'
    <3>1. child'[d] = child[d] /\ wire'[d] = wire[d]
      BY <1>0, <1>11, <2>8 DEF Fork, Types
    <3> QED
      BY <1>0, <2>2, <2>7, <3>1, ConnKept
  <2>9. ASSUME NEW d \in Conns, d = inHand PROVE ConnInv(d)'
    <3>1. Queued(d) /\ ~Queued(d)' /\ ConnInv(d) /\ shown[d] = 0 /\ echoed[d] = 0
      <4>1. Queued(d) /\ ConnInv(d)
        BY <1>0, <2>9 DEF Queued
      <4>2. ~InBacklog(d)
        BY <1>0, <2>9 DEF QueueOnce
      <4> QED
        BY <2>2, <2>5, <2>7, <4>1, <4>2 DEF Queued, ConnInv, Untouched
    <3>2. \/ child'[d] = "running" /\ wire'[d] = wire[d]
          \/ child'[d] = "none"
      <4>1. child[d] = "none"
        BY <3>1 DEF ConnInv, Untouched
      <4> QED
        BY <1>0, <1>11, <2>9, <4>1 DEF Fork, Types
    <3> QED
      BY <2>2, <3>1, <3>2 DEF ConnInv, Untouched, Running
  <2> QED
    BY <2>4, <2>6, <2>8, <2>9 DEF DualInv
<1>12. CASE AcceptReset
  <2>1. /\ pc = "accept" /\ pc' = "dead" /\ backlog' = <<>>
        /\ UNCHANGED <<inHand, tcp, shown, echoed>>
        /\ wire' = [c \in Conns |-> IF c \in {backlog[k] : k \in DOMAIN backlog} THEN "reset" ELSE wire[c]]
        /\ child' = [c \in Conns |-> IF child[c] = "zombie" THEN "none" ELSE child[c]]
    BY <1>12 DEF AcceptReset
  <2>2. inHand = NoConn
    BY <1>0, <2>1 DEF QueueOnce
  <2>3. \A d : ~InBacklog(d)'
    BY <2>1 DEF InBacklog
  <2>4. QueueOnce'
    BY <2>1, <2>2, <2>3 DEF QueueOnce
  <2>5. Types'
    BY <1>0, <2>1 DEF Types
  <2>6. ASSUME NEW d \in Conns PROVE ConnInv(d)'
    <3>1. ~Queued(d)' /\ ConnInv(d)
      BY <1>0, <2>1, <2>2, <2>3 DEF Queued
    <3>2. CASE InBacklog(d)
      <4>1. tcp[d] # "away" /\ child[d] = "none"
        BY <3>1, <3>2 DEF ConnInv, Queued, Untouched
      <4> QED
        BY <2>1, <3>1, <4>1 DEF ConnInv, Running
    <3>3. CASE ~InBacklog(d)
      <4>1. DOMAIN backlog = 1..Len(backlog)
        BY <1>0 DEF Types
      <4>2. wire'[d] = wire[d] /\ (child'[d] = child[d] \/ child'[d] = "none")
        BY <2>1, <3>3, <4>1 DEF InBacklog
      <4> QED
        BY <2>1, <3>1, <4>2, ConnKept
    <3> QED
      BY <3>2, <3>3
  <2> QED
    BY <2>4, <2>5, <2>6 DEF DualInv
<1> QED
  BY <1>2, <1>4, <1>5, <1>6, <1>7, <1>8, <1>9, <1>10, <1>11, <1>12 DEF Next, Parent, TcpClient

\* The parent hands each connection to one child or to none, once, and the
\* connection's lines and answers take turns.
LEMMA DualInvariant == Spec => []DualInv
  BY DualInit, DualStep, PTL DEF Spec

\* A line that a TCP client shows as received was echoed by its child, as long as
\* there is one: a child never closes before its client is gone
\* (server_tcp_udp.c), though the client cannot tell an echo from the end of the
\* connection (client_tcp_udp.c).
THEOREM EchoIsTrueCorrect == Spec => []EchoIsTrue
<1>1. DualInv => EchoIsTrue
  <2> SUFFICES ASSUME DualInv, NEW c \in Conns, shown[c] > echoed[c], child[c] # "none"
               PROVE  FALSE
    BY DEF EchoIsTrue
  <2>1. ConnInv(c) /\ shown[c] \in Nat /\ echoed[c] \in Nat
        /\ (Running(c) \/ child[c] = "zombie")
    BY DEF DualInv, Types, Running
  <2> QED
    BY <2>1 DEF ConnInv
<1> QED
  BY <1>1, DualInvariant, PTL

-----------------------------------------------------------------------------
(* Bags.                                                                   *)

\* How many copies of a datagram a bag has.
NumberOf(e, B) == IF e \in DOMAIN B THEN B[e] ELSE 0

\* One datagram more.
LEMMA BagAdd ==
  ASSUME NEW B, IsABag(B), NEW x
  PROVE  /\ IsABag(B (+) One(x)) /\ DOMAIN (B (+) One(x)) = DOMAIN B \cup {x}
         /\ \A e : NumberOf(e, B (+) One(x)) = NumberOf(e, B) + (IF e = x THEN 1 ELSE 0)
<1> DEFINE C == B (+) One(x)
<1>1. One(x) = [e \in {x} |-> 1]
  BY DEF One, SetToBag
<1>2. C = [e \in DOMAIN B \cup {x} |-> (IF e \in DOMAIN B THEN B[e] ELSE 0) + (IF e \in {x} THEN 1 ELSE 0)]
  BY <1>1 DEF (+)
<1>3. \A e \in DOMAIN B : B[e] \in Nat /\ B[e] > 0
  BY DEF IsABag
<1> HIDE DEF C
<1>4. /\ DOMAIN C = DOMAIN B \cup {x}
      /\ \A e \in DOMAIN C : C[e] = (IF e \in DOMAIN B THEN B[e] ELSE 0) + (IF e = x THEN 1 ELSE 0)
  BY <1>2
<1>5. IsABag(C)
  <2>1. \A e \in DOMAIN C : C[e] \in Nat /\ C[e] > 0
    BY <1>3, <1>4
  <2>2. C = [e \in DOMAIN C |-> C[e]]
    BY <1>2, <1>4
  <2> QED
    BY <2>1, <2>2 DEF IsABag
<1>6. ASSUME NEW e PROVE NumberOf(e, C) = NumberOf(e, B) + (IF e = x THEN 1 ELSE 0)
  BY <1>3, <1>4 DEF NumberOf
<1> QED
  BY <1>4, <1>5, <1>6 DEF C

\* One datagram less.
LEMMA BagTake ==
  ASSUME NEW B, IsABag(B), NEW x \in DOMAIN B
  PROVE  /\ IsABag(B (-) One(x)) /\ DOMAIN (B (-) One(x)) \subseteq DOMAIN B
         /\ \A e : NumberOf(e, B (-) One(x)) = NumberOf(e, B) - (IF e = x THEN 1 ELSE 0)
<1> DEFINE C == B (-) One(x)
           n(e) == IF e \in {x} THEN B[e] - 1 ELSE B[e]
<1>1. One(x) = [e \in {x} |-> 1]
  BY DEF One, SetToBag
<1>2. C = [e \in {d \in DOMAIN B : n(d) > 0} |-> n(e)]
  BY <1>1 DEF (-)
<1>3. \A e \in DOMAIN B : B[e] \in Nat /\ B[e] > 0
  BY DEF IsABag
<1>4. \A e \in DOMAIN B : n(e) = B[e] - (IF e = x THEN 1 ELSE 0) /\ n(e) \in Nat
  BY <1>3
<1> HIDE DEF C, n
<1>5. /\ DOMAIN C = {d \in DOMAIN B : n(d) > 0}
      /\ \A e \in DOMAIN C : C[e] = n(e)
  BY <1>2
<1>6. IsABag(C)
  <2>1. \A e \in DOMAIN C : C[e] \in Nat /\ C[e] > 0
    BY <1>4, <1>5
  <2>2. C = [e \in DOMAIN C |-> C[e]]
    BY <1>2, <1>5
  <2> QED
    BY <2>1, <2>2 DEF IsABag
<1>7. ASSUME NEW e PROVE NumberOf(e, C) = NumberOf(e, B) - (IF e = x THEN 1 ELSE 0)
  BY <1>3, <1>4, <1>5 DEF NumberOf
<1> QED
  BY <1>5, <1>6, <1>7 DEF C

\* What a bag has is what it has a copy of.
LEMMA BagCount ==
  ASSUME NEW B, IsABag(B), NEW e
  PROVE  NumberOf(e, B) \in Nat /\ (e \in DOMAIN B <=> NumberOf(e, B) >= 1)
BY DEF IsABag, NumberOf

-----------------------------------------------------------------------------
(* The UDP clients.                                                        *)

UdpTypes ==
  /\ udp \in [Clients -> {"prompt", "waiting", "gone"}]
  /\ asked \in [Clients -> Nat]
  /\ DOMAIN answer = Clients
  /\ IsABag(requests) /\ IsABag(answers)

\* The datagram that the last line of a client went out in, and comes back in.
Question(c) == Datagram(c, asked[c], c)

OnTheWay(c) == {datagram \in DOMAIN requests \cup DOMAIN answers : datagram.dst = c}

Copies(datagram) == NumberOf(datagram, requests) + NumberOf(datagram, answers)

\* A client that was sent nothing it had not asked for has at most one datagram
\* on its way, its last one, and only while it waits.
OneQuestion(c) ==
  c \notin extra =>
    /\ OnTheWay(c) \subseteq {Question(c)}
    /\ Copies(Question(c)) <= (IF udp[c] = "waiting" THEN 1 ELSE 0)
    /\ udp[c] = "prompt" /\ asked[c] > 0 => answer[c] = Question(c)

UdpInv == UdpTypes /\ \A c \in Clients : OneQuestion(c)

LEMMA UdpInitial == Init => UdpInv
<1> SUFFICES ASSUME Init PROVE UdpInv
  OBVIOUS
<1> USE DEF Init, UdpInit
<1>1. DOMAIN requests = {} /\ DOMAIN answers = {} /\ IsABag(requests) /\ IsABag(answers)
  BY DEF EmptyBag, SetToBag, IsABag
<1>2. UdpTypes
  BY <1>1 DEF UdpTypes
<1>3. ASSUME NEW c \in Clients PROVE OneQuestion(c)
  <2>1. OnTheWay(c) = {} /\ Copies(Question(c)) = 0
    BY <1>1 DEF OnTheWay, Copies, NumberOf
  <2> QED
    BY <2>1 DEF OneQuestion
<1> QED
  BY <1>2, <1>3 DEF UdpInv

\* A client that stays where it is, and is sent no more than it was.
LEMMA ClientKept ==
  ASSUME UdpTypes, UdpTypes', NEW c \in Clients, OneQuestion(c), c \in extra => c \in extra',
         udp'[c] = udp[c], asked'[c] = asked[c],
         answer'[c] = answer[c],
         c \notin extra' => OnTheWay(c)' \subseteq OnTheWay(c) /\ Copies(Question(c))' <= Copies(Question(c))
  PROVE  OneQuestion(c)'
<1> SUFFICES ASSUME c \notin extra'
             PROVE  /\ OnTheWay(c)' \subseteq {Question(c)'}
                    /\ Copies(Question(c))' <= (IF udp'[c] = "waiting" THEN 1 ELSE 0)
                    /\ udp'[c] = "prompt" /\ asked'[c] > 0 => answer'[c] = Question(c)'
  BY DEF OneQuestion
<1>1. Question(c)' = Question(c)
  BY DEF Question, Datagram
<1>2. /\ OnTheWay(c) \subseteq {Question(c)} /\ Copies(Question(c)) <= (IF udp[c] = "waiting" THEN 1 ELSE 0)
      /\ udp[c] = "prompt" /\ asked[c] > 0 => answer[c] = Question(c)
  BY DEF OneQuestion
<1>3. Copies(Question(c)) \in Nat /\ Copies(Question(c))' \in Nat
  BY BagCount DEF UdpTypes, Copies
<1>4. Copies(Question(c))' <= (IF udp'[c] = "waiting" THEN 1 ELSE 0)
  BY <1>2, <1>3
<1> QED
  BY <1>1, <1>2, <1>4

\* The same, when no datagram to it has more copies.
LEMMA NoMore ==
  ASSUME UdpTypes, UdpTypes', NEW c \in Clients, OneQuestion(c), c \in extra => c \in extra',
         udp'[c] = udp[c], asked'[c] = asked[c], answer'[c] = answer[c],
         c \notin extra' => \A q : q.dst = c => Copies(q)' <= Copies(q)
  PROVE  OneQuestion(c)'
<1> SUFFICES ASSUME c \notin extra'
             PROVE  OnTheWay(c)' \subseteq OnTheWay(c) /\ Copies(Question(c))' <= Copies(Question(c))
  BY ClientKept
<1>1. Question(c)' = Question(c) /\ Question(c).dst = c
  BY DEF Question, Datagram
<1>2. Copies(Question(c))' <= Copies(Question(c))
  BY <1>1
<1>3. ASSUME NEW q \in OnTheWay(c)' PROVE q \in OnTheWay(c)
  <2>1. q.dst = c /\ (q \in DOMAIN requests' \/ q \in DOMAIN answers')
    BY DEF OnTheWay
  <2>2. /\ NumberOf(q, requests) \in Nat /\ NumberOf(q, answers) \in Nat
        /\ NumberOf(q, requests') \in Nat /\ NumberOf(q, answers') \in Nat
    BY BagCount DEF UdpTypes
  <2>3. NumberOf(q, requests') + NumberOf(q, answers') >= 1
    BY <2>1, <2>2, BagCount DEF UdpTypes
  <2>4. NumberOf(q, requests') + NumberOf(q, answers') <= NumberOf(q, requests) + NumberOf(q, answers)
    BY <2>1 DEF Copies
  <2>5. NumberOf(q, requests) >= 1 \/ NumberOf(q, answers) >= 1
    BY <2>2, <2>3, <2>4
  <2>6. q \in DOMAIN requests \/ q \in DOMAIN answers
    BY <2>5, BagCount DEF UdpTypes
  <2> QED
    BY <2>1, <2>6 DEF OnTheWay
<1> QED
  BY <1>2, <1>3

LEMMA UdpStep == UdpInv /\ [Next]_vars => UdpInv'
<1> SUFFICES ASSUME UdpInv, [Next]_vars PROVE UdpInv'
  OBVIOUS
<1>0. UdpTypes /\ IsABag(requests) /\ IsABag(answers) /\ \A c \in Clients : OneQuestion(c)
  BY DEF UdpInv, UdpTypes
<1>1. CASE UNCHANGED udpVars
  <2>1. UNCHANGED <<udp, asked, answer, requests, answers, extra>>
    BY <1>1 DEF udpVars, netVars
  <2>2. UdpTypes'
    BY <1>0, <2>1 DEF UdpTypes
  <2>3. \A c \in Clients : OneQuestion(c)'
    BY <1>0, <2>1 DEF OneQuestion, OnTheWay, Copies, Question
  <2> QED
    BY <2>2, <2>3 DEF UdpInv
<1>2. ASSUME NEW c \in Clients, Ask(c) PROVE UdpInv'
  <2> DEFINE q == Datagram(c, asked'[c], c)
  <2>1. /\ udp[c] = "prompt" /\ udp' = [udp EXCEPT ![c] = "waiting"]
        /\ asked' = [asked EXCEPT ![c] = asked[c] + 1]
        /\ requests' = requests (+) One(q) \/ requests' = requests
        /\ UNCHANGED <<answer, answers, extra>>
    BY <1>2 DEF Ask
  <2>2. q.dst = c
    BY DEF Datagram
  <2> HIDE DEF q
  <2>3. /\ IsABag(requests') /\ DOMAIN requests' \subseteq DOMAIN requests \cup {q}
        /\ \A e : NumberOf(e, requests') <= NumberOf(e, requests) + (IF e = q THEN 1 ELSE 0)
    <3>1. \A e : NumberOf(e, requests) \in Nat
      BY <1>0, BagCount
    <3>2. CASE requests' = requests
      BY <1>0, <3>1, <3>2
    <3>3. CASE requests' = requests (+) One(q)
      <4>1. /\ IsABag(requests (+) One(q)) /\ DOMAIN (requests (+) One(q)) = DOMAIN requests \cup {q}
            /\ \A e : NumberOf(e, requests (+) One(q)) = NumberOf(e, requests) + (IF e = q THEN 1 ELSE 0)
        BY <1>0, BagAdd
      <4>2. IsABag(requests') /\ DOMAIN requests' = DOMAIN requests \cup {q}
        BY <3>3, <4>1
      <4>3. \A e : NumberOf(e, requests') = NumberOf(e, requests) + (IF e = q THEN 1 ELSE 0)
        BY <3>3, <4>1
      <4> QED
        BY <3>1, <4>2, <4>3
    <3> QED
      BY <2>1, <3>2, <3>3
  <2>4. UdpTypes'
    BY <1>0, <2>1, <2>3 DEF UdpTypes
  <2>5. ASSUME NEW d \in Clients, d # c PROVE OneQuestion(d)'
    <3>1. udp'[d] = udp[d] /\ asked'[d] = asked[d]
      BY <1>0, <2>1, <2>5 DEF UdpTypes
    <3>2. OnTheWay(d)' \subseteq OnTheWay(d)
      BY <2>1, <2>2, <2>3, <2>5 DEF OnTheWay
    <3>3. Copies(Question(d))' <= Copies(Question(d))
      <4>1. Question(d)' = Question(d) /\ Question(d) # q
        BY <2>2, <2>5, <3>1 DEF Question, Datagram
      <4>2. NumberOf(Question(d), requests') \in Nat /\ NumberOf(Question(d), requests) \in Nat /\ NumberOf(Question(d), answers) \in Nat
        BY <1>0, <2>3, BagCount
      <4>3. NumberOf(Question(d), requests') <= NumberOf(Question(d), requests)
        BY <2>3, <4>1, <4>2
      <4> QED
        BY <2>1, <4>1, <4>2, <4>3 DEF Copies
    <3> QED
      BY <1>0, <2>1, <2>4, <3>1, <3>2, <3>3, ClientKept
  <2>6. OneQuestion(c)'
    <3> SUFFICES ASSUME c \notin extra
                 PROVE  /\ OnTheWay(c)' \subseteq {Question(c)'} /\ Copies(Question(c))' <= 1
                        /\ udp'[c] = "waiting"
      BY <2>1 DEF OneQuestion
    <3>1. udp'[c] = "waiting" /\ Question(c)' = q
      BY <1>0, <2>1 DEF UdpTypes, Question, q
    <3>2. Copies(Question(c)) = 0 /\ OnTheWay(c) \subseteq {Question(c)}
      <4>1. Copies(Question(c)) \in Nat
        BY <1>0, BagCount DEF Copies
      <4> QED
        BY <1>0, <2>1, <4>1 DEF OneQuestion
    <3>3. OnTheWay(c) = {}
      <4>1. NumberOf(Question(c), requests) = 0 /\ NumberOf(Question(c), answers) = 0
        <5>1. NumberOf(Question(c), requests) \in Nat /\ NumberOf(Question(c), answers) \in Nat
          BY <1>0, BagCount
        <5> QED
          BY <3>2, <5>1 DEF Copies
      <4>2. Question(c) \notin DOMAIN requests /\ Question(c) \notin DOMAIN answers
        BY <1>0, <4>1, BagCount
      <4> QED
        BY <3>2, <4>2 DEF OnTheWay
    <3>4. OnTheWay(c)' \subseteq {q}
      BY <2>1, <2>3, <3>3 DEF OnTheWay
    <3>5. q \notin DOMAIN requests /\ q \notin DOMAIN answers
      BY <2>2, <3>3 DEF OnTheWay
    <3>6. NumberOf(q, requests) = 0 /\ NumberOf(q, answers) = 0
      BY <3>5 DEF NumberOf
    <3>7. NumberOf(q, requests') <= 1 /\ NumberOf(q, requests') \in Nat
      BY <2>3, <3>6, BagCount
    <3> QED
      BY <2>1, <3>1, <3>4, <3>6, <3>7 DEF Copies
  <2> QED
    BY <2>4, <2>5, <2>6 DEF UdpInv
<1>3. ASSUME NEW c \in Clients, NEW q \in DOMAIN answers, Receive(c, q) PROVE UdpInv'
  <2>1. /\ udp[c] = "waiting" /\ q.dst = c /\ udp' = [udp EXCEPT ![c] = "prompt"]
        /\ answer' = [answer EXCEPT ![c] = q] /\ answers' = answers (-) One(q)
        /\ UNCHANGED <<asked, requests, extra>>
    BY <1>3 DEF Receive
  <2>2. /\ IsABag(answers') /\ DOMAIN answers' \subseteq DOMAIN answers
        /\ \A e : NumberOf(e, answers') = NumberOf(e, answers) - (IF e = q THEN 1 ELSE 0)
    BY <1>0, <2>1, BagTake
  <2>3. UdpTypes'
    BY <1>0, <2>1, <2>2 DEF UdpTypes
  <2>4. ASSUME NEW d \in Clients
        PROVE  /\ Question(d)' = Question(d) /\ OnTheWay(d)' \subseteq OnTheWay(d)
               /\ Copies(Question(d)) \in Nat /\ Copies(Question(d))' \in Nat
               /\ Copies(Question(d))' = Copies(Question(d)) - (IF Question(d) = q THEN 1 ELSE 0)
    <3>1. Question(d)' = Question(d) /\ OnTheWay(d)' \subseteq OnTheWay(d)
      BY <2>1, <2>2 DEF Question, OnTheWay
    <3>2. /\ NumberOf(Question(d), requests) \in Nat /\ NumberOf(Question(d), answers) \in Nat
          /\ NumberOf(Question(d), answers') \in Nat
      BY <1>0, <2>2, BagCount
    <3>3. NumberOf(Question(d), answers') = NumberOf(Question(d), answers) - (IF Question(d) = q THEN 1 ELSE 0)
      BY <2>2
    <3>4. /\ Copies(Question(d)) = NumberOf(Question(d), requests) + NumberOf(Question(d), answers)
          /\ Copies(Question(d))' = NumberOf(Question(d), requests) + NumberOf(Question(d), answers')
      BY <2>1, <3>1 DEF Copies
    <3> QED
      BY <3>1, <3>2, <3>3, <3>4
  <2>5. ASSUME NEW d \in Clients, d # c PROVE OneQuestion(d)'
    <3>1. udp'[d] = udp[d] /\ asked'[d] = asked[d] /\ answer'[d] = answer[d] /\ extra' = extra
      BY <1>0, <2>1, <2>5 DEF UdpTypes
    <3>2. Copies(Question(d))' <= Copies(Question(d))
      BY <2>4
    <3> QED
      BY <1>0, <2>3, <2>4, <3>1, <3>2, ClientKept
  <2>6. OneQuestion(c)'
    <3> SUFFICES ASSUME c \notin extra
                 PROVE  /\ OnTheWay(c)' \subseteq {Question(c)'} /\ Copies(Question(c))' <= 0
                        /\ answer'[c] = Question(c)'
      BY <1>0, <2>1 DEF OneQuestion, UdpTypes
    <3>1. OnTheWay(c) \subseteq {Question(c)} /\ Copies(Question(c)) <= 1
      BY <1>0, <2>1 DEF OneQuestion
    <3>2. q = Question(c)
      BY <2>1, <3>1 DEF OnTheWay
    <3>3. answer'[c] = q
      BY <1>0, <2>1 DEF UdpTypes
    <3> QED
      BY <2>4, <3>1, <3>2, <3>3
  <2> QED
    BY <2>3, <2>5, <2>6 DEF UdpInv
<1>4. \A q : NumberOf(q, requests) \in Nat /\ NumberOf(q, answers) \in Nat
  BY <1>0, BagCount
<1>5. ASSUME NEW q \in DOMAIN answers, Lose(q) PROVE UdpInv'
  <2>1. answers' = answers (-) One(q) /\ UNCHANGED <<udp, asked, answer, requests, extra>>
    BY <1>5 DEF Lose
  <2>2. IsABag(answers') /\ \A e : NumberOf(e, answers') = NumberOf(e, answers) - (IF e = q THEN 1 ELSE 0)
    BY <1>0, <2>1, BagTake
  <2>3. UdpTypes'
    BY <1>0, <2>1, <2>2 DEF UdpTypes
  <2>4. \A e : Copies(e)' <= Copies(e)
    BY <1>4, <2>1, <2>2 DEF Copies
  <2> QED
    BY <1>0, <2>1, <2>3, <2>4, NoMore DEF UdpInv
<1>6. ASSUME NEW q \in DOMAIN requests, Copy(q) PROVE UdpInv'
  <2>1. /\ requests' = requests (+) One(q) /\ extra' = extra \cup {q.dst}
        /\ UNCHANGED <<udp, asked, answer, answers>>
    BY <1>6 DEF Copy
  <2>2. IsABag(requests') /\ \A e : NumberOf(e, requests') = NumberOf(e, requests) + (IF e = q THEN 1 ELSE 0)
    BY <1>0, <2>1, BagAdd
  <2>3. UdpTypes'
    BY <1>0, <2>1, <2>2 DEF UdpTypes
  <2>4. \A e : e # q => Copies(e)' <= Copies(e)
    BY <1>4, <2>1, <2>2 DEF Copies
  <2> QED
    BY <1>0, <2>1, <2>3, <2>4, NoMore DEF UdpInv
<1>7. ASSUME NEW d \in Clients, Intrude(d) PROVE UdpInv'
  <2>1. /\ answers' = answers (+) One(Stray(d)) /\ extra' = extra \cup {d}
        /\ UNCHANGED <<udp, asked, answer, requests>>
    BY <1>7 DEF Intrude
  <2>2. /\ IsABag(answers')
        /\ \A e : NumberOf(e, answers') = NumberOf(e, answers) + (IF e = Stray(d) THEN 1 ELSE 0)
    BY <1>0, <2>1, BagAdd
  <2>3. UdpTypes'
    BY <1>0, <2>1, <2>2 DEF UdpTypes
  <2>4. \A e : e # Stray(d) => Copies(e)' <= Copies(e)
    BY <1>4, <2>1, <2>2 DEF Copies
  <2>5. Stray(d).dst = d
    BY DEF Stray, Datagram
  <2> QED
    BY <1>0, <2>1, <2>3, <2>4, <2>5, NoMore DEF UdpInv
<1>8. ASSUME NEW q \in DOMAIN requests, Echo(q) PROVE UdpInv'
  <2>1. /\ requests' = requests (-) One(q) /\ answers' = answers (+) One(q)
        /\ UNCHANGED <<udp, asked, answer, extra>>
    BY <1>8 DEF Echo
  <2>2. /\ IsABag(requests') /\ IsABag(answers')
        /\ \A e : /\ NumberOf(e, requests') = NumberOf(e, requests) - (IF e = q THEN 1 ELSE 0)
                  /\ NumberOf(e, answers') = NumberOf(e, answers) + (IF e = q THEN 1 ELSE 0)
    BY <1>0, <2>1, BagTake, BagAdd
  <2>3. UdpTypes'
    BY <1>0, <2>1, <2>2 DEF UdpTypes
  <2>4. \A e : Copies(e)' <= Copies(e)
    BY <1>4, <2>2 DEF Copies
  <2> QED
    BY <1>0, <2>1, <2>3, <2>4, NoMore DEF UdpInv
<1>9. ASSUME NEW q \in DOMAIN requests, Refuse(q) PROVE UdpInv'
  <2> DEFINE refused == q.dst \in Connected
  <2>1. /\ requests' = requests (-) One(q)
        /\ udp' = IF refused THEN [udp EXCEPT ![q.dst] = "gone"] ELSE udp
        /\ UNCHANGED <<asked, answer, answers, extra>>
    BY <1>9 DEF Refuse
  <2>2. IsABag(requests') /\ \A e : NumberOf(e, requests') = NumberOf(e, requests) - (IF e = q THEN 1 ELSE 0)
    BY <1>0, <2>1, BagTake
  <2>3. UdpTypes'
    BY <1>0, <2>1, <2>2 DEF UdpTypes
  <2>4. \A e : Copies(e)' = Copies(e) - (IF e = q THEN 1 ELSE 0) /\ Copies(e) \in Nat /\ Copies(e)' \in Nat
    <3>1. \A e : NumberOf(e, requests') \in Nat
      BY <2>2, BagCount
    <3> QED
      BY <1>4, <2>1, <2>2, <3>1 DEF Copies
  <2>5. ASSUME NEW c \in Clients, ~(refused /\ c = q.dst) PROVE OneQuestion(c)'
    <3>1. udp'[c] = udp[c]
      BY <1>0, <2>1, <2>5 DEF UdpTypes
    <3>2. \A e : Copies(e)' <= Copies(e)
      BY <2>4
    <3> QED
      BY <1>0, <2>1, <2>3, <3>1, <3>2, NoMore
  <2>6. ASSUME NEW c \in Clients, refused, c = q.dst PROVE OneQuestion(c)'
    <3> SUFFICES ASSUME c \notin extra
                 PROVE  /\ OnTheWay(c)' \subseteq {Question(c)'} /\ Copies(Question(c))' <= 0
                        /\ udp'[c] = "gone"
      BY <2>1 DEF OneQuestion
    <3>1. udp'[c] = "gone" /\ Question(c)' = Question(c)
      BY <1>0, <2>1, <2>6 DEF UdpTypes, Question
    <3>2. OnTheWay(c) \subseteq {Question(c)} /\ Copies(Question(c)) <= 1
      <4>1. Copies(Question(c)) \in Nat
        BY <2>4
      <4> QED
        BY <1>0, <4>1 DEF OneQuestion
    <3>3. q = Question(c)
      BY <2>6, <3>2 DEF OnTheWay
    <3>4. Copies(Question(c))' <= 0
      BY <2>4, <3>1, <3>2, <3>3
    <3>5. OnTheWay(c)' \subseteq {Question(c)}
      <4>1. DOMAIN requests' \subseteq DOMAIN requests
        BY <1>0, <2>1, BagTake
      <4> QED
        BY <2>1, <3>2, <4>1 DEF OnTheWay
    <3> QED
      BY <3>1, <3>4, <3>5
  <2> QED
    BY <2>3, <2>5, <2>6 DEF UdpInv
<1>10. CASE RefusePort \/ Lossy \/ UdpBranch \/ (\E c \in Clients : Udp(c))
  BY <1>2, <1>3, <1>5, <1>6, <1>7, <1>8, <1>9, <1>10
     DEF RefusePort, Lossy, Network, UdpBranch, Udp, UdpClient
<1>11. CASE \/ Start \/ Select \/ Accept \/ Fork \/ AcceptReset
            \/ \E c \in Conns : TcpClient(c) \/ ChildEcho(c) \/ ChildExits(c)
  <2>1. UNCHANGED <<udp, asked, answer, requests, answers, extra>>
    BY <1>11 DEF Start, Select, Accept, Fork, AcceptReset, TcpClient, Connect, SendLine, ShowLine,
                 RecvFails, Leave, ChildEcho, ChildExits, udpVars, netVars
  <2>2. UdpTypes'
    BY <1>0, <2>1 DEF UdpTypes
  <2>3. \A c \in Clients : OneQuestion(c)'
    BY <1>0, <2>1 DEF OneQuestion, OnTheWay, Copies, Question
  <2> QED
    BY <2>2, <2>3 DEF UdpInv
<1>12. CASE UNCHANGED vars
  BY <1>1, <1>12 DEF vars
<1> QED
  BY <1>10, <1>11, <1>12 DEF Next, Parent

\* A client that was sent no datagram it had not asked for never has two on their
\* way, so that none is left over when it asks the next line.
LEMMA UdpInvariant == Spec => []UdpInv
  BY UdpInitial, UdpStep, PTL DEF Spec

\* Whatever is lost and however long it takes, the datagram that a client takes
\* for the answer to its line is the line that came back, although neither the
\* clients nor the server number their datagrams (client_udp.c,
\* server_tcp_udp.c); a copy, or a datagram of another program, is what it takes
\* to make it wrong.
THEOREM UdpInStepCorrect == Spec => []UdpInStep
<1>1. UdpInv => UdpInStep
  BY DEF UdpInv, OneQuestion, UdpInStep, Question
<1> QED
  BY <1>1, UdpInvariant, PTL
=============================================================================
