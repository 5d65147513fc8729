-------------------------- MODULE SelectServerProofs --------------------------
(***************************************************************************)
(* Theorems about SelectServer, for any number of connections, descriptors *)
(* and entries, and any sizes of the buffers.                              *)
(***************************************************************************)
EXTENDS SelectServer, WellFoundedInduction, FiniteSetTheorems, SequenceTheorems, TLAPS

-----------------------------------------------------------------------------
(* Smallest and largest elements.                                          *)

LEMMA NatLess == IsWellFoundedOn({p \in Nat \X Nat : p[1] < p[2]}, Nat)
BY NatLessThanWellFounded DEF OpToRel

LEMMA MinInSet ==
  ASSUME NEW S \in SUBSET Nat, S # {}
  PROVE  Min(S) \in S
<1> DEFINE R == {p \in Nat \X Nat : p[1] < p[2]}
<1>1. PICK x \in S : \A y \in S : <<y, x>> \notin R
  <2> HIDE DEF R
  <2>1. IsWellFoundedOn(R, Nat)
    BY NatLess DEF R
  <2> QED
    BY <2>1, WFMin
<1>2. ASSUME NEW y \in S PROVE x <= y
  <2>1. <<y, x>> \notin R /\ <<y, x>> \in Nat \X Nat
    BY <1>1
  <2> QED
    BY <2>1
<1> QED
  BY <1>2 DEF Min

LEMMA MaxOfTwo ==
  ASSUME NEW a \in Int, NEW b \in Int
  PROVE  Max({a, b}) \in {a, b} /\ a <= Max({a, b}) /\ b <= Max({a, b})
BY DEF Max

LEMMA MinOfTwo ==
  ASSUME NEW a \in Int, NEW b \in Int
  PROVE  Min({a, b}) \in {a, b} /\ Min({a, b}) <= a /\ Min({a, b}) <= b
BY DEF Min

\* A table of descriptors without duplicates has an entry to spare.
LEMMA RoomInTable ==
  ASSUME NEW f \in [Indices -> ClientFds \cup {Free}],
         \A j, k \in Indices : f[j] = f[k] /\ f[j] # Free => j = k
  PROVE  \E k \in Indices : f[k] = Free
<1> SUFFICES ASSUME \A k \in Indices : f[k] # Free PROVE FALSE
  OBVIOUS
<1>1. f \in [Indices -> ClientFds]
  OBVIOUS
<1>2. FdSetSize \in Nat /\ NFds \in Nat /\ ListenFd < NFds /\ NFds <= FdSetSize
  BY ConstantsAssumption
<1>3. IsFiniteSet(Indices) /\ Cardinality(Indices) = FdSetSize
  <2>1. 0 \in Int /\ FdSetSize - 1 \in Int /\ FdSetSize > 0
    BY <1>2 DEF ListenFd
  <2> QED
    BY <2>1, <1>2, FS_Interval DEF Indices
<1>4. IsFiniteSet(ClientFds) /\ Cardinality(ClientFds) < FdSetSize
  <2>1. ClientFds = 4..NFds - 1 /\ NFds - 1 \in Int
    BY <1>2 DEF ListenFd, ClientFds
  <2>2. /\ IsFiniteSet(4..NFds - 1)
        /\ Cardinality(4..NFds - 1) = IF 4 > NFds - 1 THEN 0 ELSE NFds - 1 - 4 + 1
    BY <2>1, FS_Interval
  <2> QED
    BY <2>1, <2>2, <1>2 DEF ListenFd
<1>5. \E j, k \in Indices : j # k /\ f[j] = f[k]
  BY <1>1, <1>3, <1>4, FS_PigeonHole
<1> QED
  BY <1>5

LEMMA Constants ==
  /\ FdSetSize \in Nat /\ NFds \in Nat /\ ListenFd \in Nat /\ ListenFd < NFds /\ NFds <= FdSetSize
  /\ MaxLine \in Nat \ {0} /\ Room \in Nat /\ NoConn \notin Conns
  /\ ClientFds \subseteq Nat /\ ListenFd \notin ClientFds
  /\ Indices \subseteq Nat /\ 0 \in Indices /\ Free \notin Nat /\ Free \in Int
BY ConstantsAssumption DEF ListenFd, ClientFds, Indices, Free

-----------------------------------------------------------------------------
(* The inductive invariant.                                                *)

\* What is in buf came from the connection the scan is at.
Sending ==
  pc = "send" => i \in Indices /\ i <= maxi /\ client[i] \in rset /\ buf # <<>>

\* A connection is in one place.
ConnsOnce ==
  /\ \A fd, g \in OpenFds : conn[fd] = conn[g] => fd = g
  /\ \A j, k \in 1..Len(backlog) : backlog[j] = backlog[k] => j = k
  /\ \A j \in 1..Len(backlog) :
       end[backlog[j]] # "away" /\ \A fd \in OpenFds : conn[fd] # backlog[j]
  /\ \A fd \in OpenFds : end[conn[fd]] # "away"

\* Between select and accept no descriptor is closed.
AcceptReady == pc = "accept" => rset \subseteq OpenFds \cup {ListenFd}

IInv == TypeOK /\ Sending /\ TableSound /\ ConnsOnce /\ AcceptReady /\ ReadyCounted

LEMMA InitInv == Init => IInv
<1> SUFFICES ASSUME Init PROVE IInv
  OBVIOUS
<1> USE Constants
<1>1. TypeOK
  BY DEF Init, TypeOK, Indices, Free
<1>2. OpenFds = {} /\ InTable = {} /\ FreeEntries # {}
  <2>1. OpenFds = {}
    BY DEF Init, OpenFds
  <2>2. \A k \in Indices : client[k] = Free
    BY DEF Init
  <2> QED
    BY <2>1, <2>2 DEF InTable, FreeEntries
<1>3. TableSound
  BY <1>2 DEF Init, TableSound, Stopped
<1>4. ConnsOnce
  <2>1. 1..Len(backlog) = {}
    BY DEF Init
  <2> QED
    BY <1>2, <2>1 DEF ConnsOnce
<1>5. Sending /\ AcceptReady
  BY DEF Init, Sending, AcceptReady
<1>6. ReadyCounted
  BY DEF Init, ReadyCounted, Unserved
<1> QED
  BY <1>1, <1>3, <1>4, <1>5, <1>6 DEF IInv

\* When a descriptor is to be served it is a connection's.
LEMMA ServedConn ==
  ASSUME IInv, ToServe \/ pc = "send"
  PROVE  /\ i \in Indices /\ i <= maxi /\ client[i] \in rset
         /\ client[i] \in ClientFds /\ client[i] \in OpenFds /\ Peer \in Conns
         /\ nready > 0 /\ nready = Cardinality(Unserved)
<1> USE Constants
<1>1. i \in Indices /\ i <= maxi /\ client[i] \in rset
  <2>1. CASE pc = "send"
    BY <2>1 DEF IInv, Sending
  <2>2. CASE ToServe
    BY <2>2 DEF IInv, TypeOK, ToServe, Indices, Free
  <2> QED
    BY <2>1, <2>2
<1>2. client[i] # Free /\ client[i] \in ClientFds
  BY <1>1 DEF IInv, TypeOK, Free
<1>3. ~Stopped /\ pc \in {"scan", "send"}
  BY DEF Stopped, ToServe
<1>4. client[i] \in OpenFds
  BY <1>1, <1>2, <1>3 DEF IInv, TableSound, InTable
<1>5. Peer \in Conns
  BY <1>2, <1>4 DEF IInv, TypeOK, Peer, OpenFds
<1> QED
  BY <1>1, <1>2, <1>3, <1>4, <1>5 DEF IInv, ReadyCounted

LEMMA AcceptConn ==
  ASSUME IInv, pc = "accept"
  PROVE  /\ backlog # <<>> /\ Head(backlog) \in Conns /\ Tail(backlog) \in Seq(Conns)
         /\ nready > 0 /\ nready = Cardinality(Unserved)
<1>1. ~Stopped /\ ListenFd \in Unserved
  BY DEF Stopped, Unserved
<1>2. Ready(ListenFd)
  BY <1>1 DEF IInv, ReadyCounted
<1> QED
  BY <1>1, <1>2 DEF IInv, TypeOK, ReadyCounted, Ready

LEMMA AcceptPlace ==
  ASSUME IInv, CanAccept
  PROVE  /\ Min(FreeFds) \in FreeFds /\ Min(FreeFds) \in ClientFds
         /\ Min(FreeEntries) \in FreeEntries /\ Min(FreeEntries) \in Indices
<1>1. FreeFds \in SUBSET Nat /\ FreeFds # {} /\ FreeEntries \in SUBSET Nat /\ FreeEntries # {}
  BY Constants DEF CanAccept, FreeFds, FreeEntries
<1>2. Min(FreeFds) \in FreeFds /\ Min(FreeEntries) \in FreeEntries
  BY <1>1, MinInSet
<1> QED
  BY <1>2 DEF FreeFds, FreeEntries

-----------------------------------------------------------------------------
(* Types.                                                                  *)

LEMMA TypeFacts ==
  ASSUME TypeOK
  PROVE  /\ maxi \in Int /\ maxfd \in Int /\ i \in Nat /\ nready \in Nat
         /\ maxi < FdSetSize /\ (i <= maxi => i \in Indices)
BY Constants DEF TypeOK, Indices, Free, ListenFd

LEMMA TypeStep ==
  ASSUME IInv, [Next]_vars
  PROVE  TypeOK' /\ Sending'
<1> USE Constants
<1> USE DEF IInv
<1>0. TypeOK
  OBVIOUS
<1>1. ASSUME NEW c \in Conns, Connect(c) PROVE TypeOK' /\ Sending'
  BY <1>1 DEF Connect, TypeOK, Sending, serverVars, tableVars, scanVars, streamVars
<1>2. ASSUME NEW c \in Conns, SendByte(c) PROVE TypeOK' /\ Sending'
  <2>0. sent \in [Conns -> Nat] /\ sent' = [sent EXCEPT ![c] = sent[c] + 1]
    BY <1>2 DEF SendByte, TypeOK
  <2>1. sent' \in [Conns -> Nat] /\ sent'[c] \in Nat
    <3>1. sent[c] + 1 \in Nat
      BY <2>0
    <3> QED
      BY ONLY <2>0, <3>1, c \in Conns
  <2>2. up[c] \in Seq(Nat)
    BY DEF TypeOK
  <2>3. Append(up[c], sent'[c]) \in Seq(Nat)
    BY <2>1, <2>2
  <2>4. up' \in [Conns -> Seq(Nat)]
    BY <1>2, <2>3 DEF SendByte, TypeOK
  <2> QED
    BY <1>2, <2>1, <2>4 DEF SendByte, TypeOK, Sending, serverVars, tableVars, scanVars
<1>3. ASSUME NEW c \in Conns, Receive(c) PROVE TypeOK' /\ Sending'
  <2>1. down[c] \in Seq(Nat) /\ down[c] # <<>>
    BY <1>3 DEF Receive, TypeOK
  <2>2. Head(down[c]) \in Nat /\ Tail(down[c]) \in Seq(Nat)
    BY <2>1
  <2>3. got' \in [Conns -> Nat] /\ down' \in [Conns -> Seq(Nat)]
    BY <1>3, <2>2 DEF Receive, TypeOK
  <2> QED
    BY <1>3, <2>3 DEF Receive, TypeOK, Sending, serverVars, tableVars, scanVars
<1>4. ASSUME NEW c \in Conns, Leave(c) PROVE TypeOK' /\ Sending'
  <2>1. up' \in [Conns -> Seq(Nat)]
    <3>1. CASE down[c] = <<>>
      BY <1>4, <3>1 DEF Leave, TypeOK
    <3>2. CASE down[c] # <<>>
      <4>1. PICK k \in 0..Len(up[c]) : up' = [up EXCEPT ![c] = SubSeq(@, 1, k)]
        BY <1>4, <3>2 DEF Leave
      <4>2. up[c] \in Seq(Nat)
        BY DEF TypeOK
      <4>3. SubSeq(up[c], 1, k) \in Seq(Nat)
        BY <4>2, SubSeqProperties, ElementOfSeq
      <4> QED
        BY <4>1, <4>3 DEF TypeOK
    <3> QED
      BY <3>1, <3>2
  <2>2. end' \in [Conns -> {"away", "open", "closed", "dropped", "reset"}]
    BY <1>4 DEF Leave, TypeOK
  <2>3. down' \in [Conns -> Seq(Nat)]
    BY <1>4 DEF Leave, TypeOK
  <2> QED
    BY <1>4, <2>1, <2>2, <2>3 DEF Leave, TypeOK, Sending, serverVars, tableVars, scanVars
<1>5. CASE Select
  <2> DEFINE ready == {fd \in allset : fd <= maxfd /\ Ready(fd)}
  <2>1. ready \subseteq 3..NFds - 1 /\ ready # {}
    BY <1>5 DEF Select, TypeOK, ClientFds, ListenFd
  <2>2. IsFiniteSet(3..NFds - 1) /\ Cardinality(3..NFds - 1) <= NFds
    <3>1. NFds - 1 \in Int
      OBVIOUS
    <3>2. /\ IsFiniteSet(3..NFds - 1)
          /\ Cardinality(3..NFds - 1) = IF 3 > NFds - 1 THEN 0 ELSE NFds - 1 - 3 + 1
      BY <3>1, FS_Interval
    <3> QED
      BY <3>1, <3>2
  <2>3. Cardinality(ready) \in 0..NFds
    <3> HIDE DEF ready
    <3>1. IsFiniteSet(ready) /\ Cardinality(ready) <= Cardinality(3..NFds - 1)
      BY <2>1, <2>2, FS_Subset
    <3>2. Cardinality(ready) \in Nat /\ Cardinality(3..NFds - 1) \in Nat
      BY <3>1, <2>2, FS_CardinalityType
    <3> QED
      BY <3>1, <3>2, <2>2
  <2>4. ready \subseteq ClientFds \cup {ListenFd}
    BY DEF TypeOK
  <2>5. rset' = ready /\ nready' = Cardinality(ready) /\ i' = 0 /\ pc' \in {"accept", "scan"}
    BY <1>5 DEF Select
  <2>6. i' \in 0..FdSetSize
    BY <2>5
  <2> HIDE DEF ready
  <2>7. rset' \subseteq ClientFds \cup {ListenFd} /\ nready' \in 0..NFds
    BY <2>3, <2>4, <2>5
  <2> QED
    BY <1>5, <2>5, <2>6, <2>7 DEF Select, TypeOK, Sending, tableVars, streamVars
<1>6. CASE Accept
  <2>1. /\ Min(FreeFds) \in ClientFds /\ Min(FreeEntries) \in Indices
    BY <1>6, AcceptPlace DEF Accept
  <2>2. Head(backlog) \in Conns /\ Tail(backlog) \in Seq(Conns) /\ nready > 0
    BY <1>6, AcceptConn DEF Accept, CanAccept
  <2>3. maxi' \in Indices
    <3>0. Min(FreeEntries) \in Nat
      BY <2>1
    <3>1. maxi \in Int /\ Min(FreeEntries) \in Int
      BY <1>0, <3>0, TypeFacts
    <3>2. maxi' = Max({maxi, Min(FreeEntries)})
      BY <1>6 DEF Accept, Admit
    <3>3. maxi' \in {maxi, Min(FreeEntries)} /\ Min(FreeEntries) <= maxi'
      BY <3>1, <3>2, MaxOfTwo
    <3> QED
      BY <1>0, <3>1, <3>3, <2>1, TypeFacts DEF Indices
  <2>4. maxfd' \in ClientFds \cup {ListenFd}
    <3>0. Min(FreeFds) \in Nat
      BY <2>1
    <3>1. maxfd \in Int /\ Min(FreeFds) \in Int
      BY <1>0, <3>0, TypeFacts
    <3>2. maxfd' \in {maxfd, Min(FreeFds)}
      BY <1>6, <3>1, MaxOfTwo DEF Accept
    <3> QED
      BY <3>2, <2>1 DEF TypeOK
  <2>5. nready' \in 0..NFds /\ pc' \in {"select", "scan"}
    BY <1>6, <2>2 DEF Accept, Admit, TypeOK
  <2> QED
    BY <1>6, <2>1, <2>2, <2>3, <2>4, <2>5 DEF Accept, Admit, TypeOK, Sending, streamVars
<1>7. CASE AcceptFails \/ ReadFails \/ SendFails
  BY <1>7 DEF AcceptFails, ReadFails, SendFails, Stop, TypeOK, Sending, tableVars, scanVars,
              streamVars
<1>8. CASE Skip
  BY <1>8 DEF Skip, TypeOK, Sending, tableVars, streamVars, Indices, Free
<1>9. ASSUME Served, ToServe \/ pc = "send"
      PROVE  nready' \in 0..NFds /\ i' \in 0..FdSetSize /\ pc' \in {"select", "scan"} /\ rset' = rset
  <2>1. nready > 0 /\ i \in Indices
    BY <1>9, ServedConn
  <2> QED
    BY <1>9, <2>1 DEF Served, TypeOK, Indices
<1>10. CASE ReadEof
  <2>1. client[i] \in ClientFds /\ i \in Indices
    BY <1>10, ServedConn DEF ReadEof
  <2> QED
    BY <1>9, <1>10, <2>1 DEF ReadEof, TypeOK, Sending, streamVars
<1>11. CASE Read
  <2>1. i \in Indices /\ i <= maxi /\ client[i] \in rset /\ Peer \in Conns /\ up[Peer] \in Seq(Nat)
    BY <1>11, ServedConn DEF Read, TypeOK
  <2> DEFINE n == Min({Len(up[Peer]), MaxLine})
  <2>2. n \in 1..Len(up[Peer])
    <3>1. Len(up[Peer]) \in Int /\ Len(up[Peer]) > 0 /\ MaxLine \in Int /\ MaxLine > 0
      BY <1>11, <2>1 DEF Read
    <3>2. n \in {Len(up[Peer]), MaxLine} /\ n <= Len(up[Peer])
      BY <3>1, MinOfTwo
    <3> QED
      BY <3>1, <3>2
  <2>3. /\ SubSeq(up[Peer], 1, n) \in Seq(Nat) /\ SubSeq(up[Peer], 1, n) # <<>>
        /\ SubSeq(up[Peer], n + 1, Len(up[Peer])) \in Seq(Nat)
    <3> HIDE DEF n
    <3>1. n \in Int /\ 1 <= n /\ n <= Len(up[Peer])
      BY <2>1, <2>2
    <3>2. \A k \in 1..Len(up[Peer]) : up[Peer][k] \in Nat
      BY <2>1, ElementOfSeq
    <3>3. SubSeq(up[Peer], 1, n) \in Seq(Nat) /\ Len(SubSeq(up[Peer], 1, n)) = n
      BY <3>1, <3>2, SubSeqProperties
    <3>4. SubSeq(up[Peer], n + 1, Len(up[Peer])) \in Seq(Nat)
      BY <2>1, <3>1, <3>2, SubSeqProperties
    <3> QED
      BY <3>1, <3>3, <3>4
  <2>4. /\ buf' = SubSeq(up[Peer], 1, n)
        /\ up' = [up EXCEPT ![Peer] = SubSeq(up[Peer], n + 1, Len(up[Peer]))]
    BY <1>11 DEF Read
  <2> HIDE DEF n
  <2>5. buf' \in Seq(Nat) /\ buf' # <<>> /\ up' \in [Conns -> Seq(Nat)]
    BY <2>1, <2>3, <2>4 DEF TypeOK
  <2> QED
    BY <1>11, <2>1, <2>5 DEF Read, TypeOK, Sending, tableVars, scanVars
<1>12. CASE Send
  <2>1. Peer \in Conns /\ buf # <<>>
    BY <1>12, ServedConn DEF Send, Sending
  <2>2. Head(buf) \in Nat /\ Tail(buf) \in Seq(Nat)
    BY <2>1 DEF TypeOK
  <2>3. down' \in [Conns -> Seq(Nat)] /\ buf' \in Seq(Nat)
    BY <1>12, <2>1, <2>2 DEF Send, TypeOK
  <2>4. CASE buf' = <<>>
    BY <1>9, <1>12, <2>3, <2>4 DEF Send, TypeOK, Sending, tableVars
  <2>5. CASE buf' # <<>>
    <3>1. UNCHANGED <<pc, scanVars, tableVars, conn, backlog, end, up, sent, got>>
      BY <1>12, <2>5 DEF Send
    <3> QED
      BY <2>3, <2>5, <3>1 DEF TypeOK, Sending, tableVars, scanVars
  <2> QED
    BY <2>4, <2>5
<1>13. CASE SendToClosed
  <2>1. end' \in [Conns -> {"away", "open", "closed", "dropped", "reset"}]
    BY <1>13 DEF SendToClosed, TypeOK
  <2>2. pc = "send" /\ Served /\ buf' = <<>>
    BY <1>13 DEF SendToClosed
  <2>3. nready' \in 0..NFds /\ i' \in 0..FdSetSize /\ pc' \in {"select", "scan"} /\ rset' = rset
    BY <1>9, <2>2
  <2>4. UNCHANGED <<client, maxi, maxfd, allset, conn, backlog, up, down, sent, got>>
    BY <1>13 DEF SendToClosed, tableVars, streamVars
  <2>5. TypeOK'
    BY ONLY TypeOK, <2>1, <2>2, <2>3, <2>4 DEF TypeOK, Indices
  <2>6. Sending'
    BY <2>3 DEF Sending
  <2> QED
    BY <2>5, <2>6
<1>14. CASE UNCHANGED vars
  BY <1>14 DEF vars, serverVars, tableVars, scanVars, streamVars, TypeOK, Sending
<1> QED
  BY <1>1, <1>2, <1>3, <1>4, <1>5, <1>6, <1>7, <1>8, <1>10, <1>11, <1>12, <1>13, <1>14
  DEF Next, Server, Client

-----------------------------------------------------------------------------
(* The table.                                                              *)

\* A step that leaves the table and the connections alone keeps it sound.
LEMMA TableKept ==
  ASSUME TableSound, UNCHANGED <<tableVars, conn>>, Stopped => Stopped'
  PROVE  TableSound'
BY DEF TableSound, tableVars, Stopped, InTable, OpenFds, FreeFds, FreeEntries

LEMMA TableStep ==
  ASSUME IInv, [Next]_vars
  PROVE  TableSound'
<1> USE Constants
<1>0. TypeOK /\ TableSound
  BY DEF IInv
<1>1. CASE \E c \in Conns : Client(c)
  BY <1>0, <1>1, TableKept
  DEF Client, Connect, SendByte, Receive, Leave, serverVars, Stopped
<1>2. CASE AcceptFails \/ ReadFails \/ SendFails
  BY <1>2 DEF AcceptFails, ReadFails, SendFails, Stop, TableSound, Stopped
<1>3. CASE Select
  BY <1>0, <1>3, TableKept DEF Select, Stopped
<1>4. CASE Skip \/ Read
  <2>1. pc = "scan" /\ UNCHANGED <<tableVars, conn>>
    BY <1>4 DEF Skip, Read, ToServe
  <2> QED
    BY <1>0, <2>1, TableKept DEF Stopped
<1>5. CASE Send
  BY <1>0, <1>5, TableKept DEF Send, Served, Stopped, scanVars
<1>6. CASE SendToClosed
  BY <1>0, <1>6, TableKept DEF SendToClosed, Served, Stopped
<1>7. CASE Accept
  <2> DEFINE connfd == Min(FreeFds)
             k == Min(FreeEntries)
  <2>1. connfd \in FreeFds /\ connfd \in ClientFds /\ k \in FreeEntries /\ k \in Indices
    BY <1>7, AcceptPlace DEF Accept
  <2>2. Head(backlog) # NoConn
    BY <1>7, AcceptConn DEF Accept, CanAccept
  <2>3. /\ client' = [client EXCEPT ![k] = connfd]
        /\ conn' = [conn EXCEPT ![connfd] = Head(backlog)]
        /\ allset' = allset \cup {connfd}
        /\ maxi' = Max({maxi, k}) /\ maxfd' = Max({maxfd, connfd})
    BY <1>7 DEF Accept, Admit
  <2>4. maxi \in Int /\ maxfd \in Int /\ k \in Int /\ connfd \in Int
    <3>1. k \in Nat /\ connfd \in Nat
      BY <2>1
    <3> QED
      BY <1>0, <3>1, TypeFacts
  <2>5. maxi <= maxi' /\ k <= maxi' /\ maxfd <= maxfd' /\ connfd <= maxfd' /\ maxi' \in Int /\ maxfd' \in Int
    <3> HIDE DEF connfd, k
    <3> QED
      BY <2>3, <2>4, MaxOfTwo
  <2> HIDE DEF connfd, k
  <2>6. client \in [Indices -> ClientFds \cup {Free}] /\ conn \in [ClientFds -> Conns \cup {NoConn}]
    BY <1>0 DEF TypeOK
  <2>7. client[k] = Free /\ conn[connfd] = NoConn
    BY <2>1 DEF FreeFds, FreeEntries
  <2>8. ~Stopped
    BY <1>7 DEF Accept, CanAccept, Stopped
  <2>9. OpenFds' = OpenFds \cup {connfd}
    BY <2>1, <2>2, <2>3, <2>6 DEF OpenFds
  <2>10. InTable' = InTable \cup {connfd}
    BY <2>1, <2>3, <2>6, <2>7 DEF InTable
  <2>11. \A m \in Indices : client'[m] = IF m = k THEN connfd ELSE client[m]
    BY <2>3, <2>6
  <2>12. \A m \in Indices : client[m] # connfd
    <3> SUFFICES ASSUME NEW m \in Indices, client[m] = connfd PROVE FALSE
      OBVIOUS
    <3>1. connfd \in InTable
      BY <2>1 DEF InTable
    <3> QED
      BY <1>0, <2>7, <2>8, <3>1 DEF TableSound, OpenFds
  <2>13. \A m, n \in Indices : client'[m] = client'[n] /\ client'[m] # Free => m = n
    BY <1>0, <2>8, <2>11, <2>12 DEF TableSound
  <2>14. \A m \in Indices : client'[m] # Free => m <= maxi'
    <3> SUFFICES ASSUME NEW m \in Indices, client'[m] # Free PROVE m <= maxi'
      OBVIOUS
    <3>1. CASE m = k
      BY <2>5, <3>1
    <3>2. CASE m # k
      <4>1. m <= maxi /\ m \in Int
        BY <1>0, <2>8, <2>11, <3>2 DEF TableSound
      <4> QED
        BY <2>4, <2>5, <4>1
    <3> QED
      BY <3>1, <3>2
  <2>15. \A fd \in OpenFds' : fd <= maxfd'
    <3> SUFFICES ASSUME NEW fd \in OpenFds' PROVE fd <= maxfd'
      OBVIOUS
    <3>1. CASE fd = connfd
      BY <2>5, <3>1
    <3>2. CASE fd # connfd
      <4>1. fd \in OpenFds
        BY <2>9, <3>2
      <4>2. fd <= maxfd /\ fd \in Nat
        BY <1>0, <2>8, <4>1 DEF TableSound, OpenFds
      <4> QED
        BY <2>4, <2>5, <4>2
    <3> QED
      BY <3>1, <3>2
  <2>16. \E m \in Indices : client'[m] = Free
    <3>1. client' \in [Indices -> ClientFds \cup {Free}]
      BY TypeStep DEF TypeOK
    <3> QED
      BY <2>13, <3>1, RoomInTable
  <2> QED
    BY <1>0, <2>3, <2>8, <2>9, <2>10, <2>13, <2>14, <2>15, <2>16 DEF TableSound, FreeEntries
<1>8. CASE ReadEof
  <2>1. /\ i \in Indices /\ i <= maxi /\ client[i] \in ClientFds /\ client[i] \in OpenFds
    BY <1>8, ServedConn DEF ReadEof
  <2>2. ~Stopped
    BY <1>8 DEF ReadEof, ToServe, Stopped
  <2>3. /\ client' = [client EXCEPT ![i] = Free]
        /\ conn' = [conn EXCEPT ![client[i]] = NoConn]
        /\ allset' = allset \ {client[i]} /\ maxi' = maxi /\ maxfd' = maxfd
    BY <1>8 DEF ReadEof
  <2>4. client \in [Indices -> ClientFds \cup {Free}] /\ conn \in [ClientFds -> Conns \cup {NoConn}]
    BY <1>0 DEF TypeOK
  <2>5. \A m \in Indices : client'[m] = IF m = i THEN Free ELSE client[m]
    BY <2>3, <2>4
  <2>6. \A fd \in ClientFds : conn'[fd] = IF fd = client[i] THEN NoConn ELSE conn[fd]
    BY <2>3, <2>4
  <2>7. OpenFds' = OpenFds \ {client[i]}
    BY <2>6 DEF OpenFds
  <2>8. \A m \in Indices : client[m] = client[i] => m = i
    BY <1>0, <2>1, <2>2 DEF TableSound
  <2>9. InTable' = InTable \ {client[i]}
    BY <2>1, <2>5, <2>8 DEF InTable
  <2>10. ListenFd # client[i]
    BY <2>1
  <2>11. i \in FreeEntries'
    BY <2>1, <2>5 DEF FreeEntries
  <2>12. \A m, n \in Indices : client'[m] = client'[n] /\ client'[m] # Free => m = n
    BY <1>0, <2>2, <2>5 DEF TableSound
  <2> QED
    BY <1>0, <2>2, <2>3, <2>5, <2>7, <2>9, <2>10, <2>11, <2>12 DEF TableSound
<1>9. CASE UNCHANGED vars
  BY <1>0, <1>9, TableKept DEF vars, serverVars, Stopped
<1> QED
  BY <1>1, <1>2, <1>3, <1>4, <1>5, <1>6, <1>7, <1>8, <1>9 DEF Next, Server

-----------------------------------------------------------------------------
(* Connections.                                                            *)

LEMMA ConnsStep ==
  ASSUME IInv, [Next]_vars
  PROVE  ConnsOnce'
<1> USE Constants
<1>0. TypeOK /\ ConnsOnce /\ backlog \in Seq(Conns) /\ Len(backlog) \in Nat
  BY DEF IInv, TypeOK
<1>a. ASSUME UNCHANGED <<conn, backlog>>,
             \A c \in Conns : end[c] # "away" => end'[c] # "away"
      PROVE  ConnsOnce'
  <2>1. \A j \in 1..Len(backlog) : backlog[j] \in Conns
    BY <1>0, ElementOfSeq
  <2>2. \A fd \in OpenFds : conn[fd] \in Conns
    BY <1>0 DEF OpenFds, TypeOK
  <2>3. OpenFds' = OpenFds
    BY <1>a DEF OpenFds
  <2> QED
    BY <1>0, <1>a, <2>1, <2>2, <2>3 DEF ConnsOnce
<1>1. ASSUME NEW c \in Conns, Connect(c) PROVE ConnsOnce'
  <2>1. /\ end[c] = "away" /\ end' = [end EXCEPT ![c] = "open"]
        /\ backlog' = Append(backlog, c) /\ conn' = conn
    BY <1>1 DEF Connect, serverVars
  <2>2. /\ Len(backlog') = Len(backlog) + 1
        /\ \A j \in 1..Len(backlog) : backlog'[j] = backlog[j]
        /\ backlog'[Len(backlog) + 1] = c
    BY <1>0, <2>1, AppendProperties
  <2>3. \A j \in 1..Len(backlog') : j \in 1..Len(backlog) \/ j = Len(backlog) + 1
    BY <1>0, <2>2
  <2>4. OpenFds' = OpenFds
    BY <2>1 DEF OpenFds
  <2>5. \A d \in Conns : end'[d] = IF d = c THEN "open" ELSE end[d]
    BY <1>0, <2>1 DEF TypeOK
  <2>6. \A j \in 1..Len(backlog) : backlog[j] \in Conns /\ backlog[j] # c
    BY <1>0, <2>1, ElementOfSeq DEF ConnsOnce
  <2>7. \A fd \in OpenFds : conn[fd] \in Conns /\ conn[fd] # c
    BY <1>0, <2>1 DEF ConnsOnce, OpenFds, TypeOK
  <2>8. \A j, k \in 1..Len(backlog') : backlog'[j] = backlog'[k] => j = k
    BY <1>0, <2>2, <2>3, <2>6 DEF ConnsOnce
  <2>9. \A j \in 1..Len(backlog') :
          end'[backlog'[j]] # "away" /\ \A fd \in OpenFds : conn[fd] # backlog'[j]
    BY <1>0, <2>2, <2>3, <2>5, <2>6, <2>7 DEF ConnsOnce
  <2> QED
    BY <1>0, <2>1, <2>4, <2>5, <2>7, <2>8, <2>9 DEF ConnsOnce
<1>2. ASSUME NEW c \in Conns, SendByte(c) \/ Receive(c) PROVE ConnsOnce'
  BY <1>a, <1>2 DEF SendByte, Receive, serverVars
<1>3. ASSUME NEW c \in Conns, Leave(c) PROVE ConnsOnce'
  BY <1>0, <1>a, <1>3 DEF Leave, serverVars, TypeOK
<1>4. CASE AcceptFails \/ ReadFails \/ SendFails
  <2>1. conn' = [fd \in ClientFds |-> NoConn] /\ UNCHANGED <<backlog, end>>
    BY <1>4 DEF AcceptFails, ReadFails, SendFails, Stop
  <2>2. OpenFds' = {}
    BY <2>1 DEF OpenFds
  <2> QED
    BY <1>0, <2>1, <2>2 DEF ConnsOnce
<1>5. CASE Select \/ Skip \/ Read \/ Send
  BY <1>a, <1>5 DEF Select, Skip, Read, Send
<1>6. CASE SendToClosed
  <2>1. UNCHANGED <<conn, backlog>> /\ end' = [end EXCEPT ![Peer] = "dropped"]
    BY <1>6 DEF SendToClosed
  <2> QED
    BY <1>0, <1>a, <2>1 DEF TypeOK
<1>7. CASE Accept
  <2> DEFINE connfd == Min(FreeFds)
  <2>1. connfd \in FreeFds /\ connfd \in ClientFds
    BY <1>7, AcceptPlace DEF Accept
  <2>2. backlog # <<>> /\ Head(backlog) # NoConn
    BY <1>7, AcceptConn DEF Accept, CanAccept
  <2>3. /\ conn' = [conn EXCEPT ![connfd] = Head(backlog)]
        /\ backlog' = Tail(backlog) /\ end' = end
    BY <1>7 DEF Accept, Admit
  <2> HIDE DEF connfd
  <2>4. Head(backlog) = backlog[1] /\ 1 \in 1..Len(backlog)
    BY <1>0, <2>2
  <2>5. /\ Len(backlog') = Len(backlog) - 1
        /\ \A j \in 1..Len(backlog') : backlog'[j] = backlog[j + 1] /\ j + 1 \in 1..Len(backlog) /\ j + 1 # 1
    BY <1>0, <2>2, <2>3, HeadTailProperties
  <2>6. \A fd \in ClientFds : conn'[fd] = IF fd = connfd THEN backlog[1] ELSE conn[fd]
    BY <1>0, <2>3, <2>4 DEF TypeOK
  <2>7. OpenFds' = OpenFds \cup {connfd}
    BY <2>1, <2>2, <2>4, <2>6 DEF OpenFds
  <2>8. connfd \notin OpenFds
    BY <2>1 DEF OpenFds, FreeFds
  <2>9. \A fd \in OpenFds' : conn'[fd] = IF fd = connfd THEN backlog[1] ELSE conn[fd]
    BY <2>6, <2>7, <2>1 DEF OpenFds
  <2>10. \A fd, g \in OpenFds' : conn'[fd] = conn'[g] => fd = g
    BY <1>0, <2>4, <2>7, <2>9 DEF ConnsOnce
  <2>11. \A j, k \in 1..Len(backlog') : backlog'[j] = backlog'[k] => j = k
    <3> SUFFICES ASSUME NEW j \in 1..Len(backlog'), NEW k \in 1..Len(backlog'), backlog'[j] = backlog'[k]
                 PROVE  j = k
      OBVIOUS
    <3>1. j + 1 = k + 1
      BY <1>0, <2>5 DEF ConnsOnce
    <3>2. j \in Int /\ k \in Int
      OBVIOUS
    <3> QED
      BY <3>1, <3>2
  <2>12. \A j \in 1..Len(backlog') :
           end'[backlog'[j]] # "away" /\ \A fd \in OpenFds' : conn'[fd] # backlog'[j]
    BY <1>0, <2>3, <2>4, <2>5, <2>7, <2>9 DEF ConnsOnce
  <2>13. \A fd \in OpenFds' : end'[conn'[fd]] # "away"
    BY <1>0, <2>3, <2>4, <2>7, <2>9 DEF ConnsOnce
  <2> QED
    BY <2>10, <2>11, <2>12, <2>13 DEF ConnsOnce
<1>8. CASE ReadEof
  <2>1. client[i] \in ClientFds
    BY <1>8, ServedConn DEF ReadEof
  <2>2. conn' = [conn EXCEPT ![client[i]] = NoConn] /\ UNCHANGED <<backlog, end>>
    BY <1>8 DEF ReadEof
  <2>3. \A fd \in OpenFds' : fd \in OpenFds /\ conn'[fd] = conn[fd]
    BY <1>0, <2>1, <2>2 DEF OpenFds, TypeOK
  <2> QED
    BY <1>0, <2>2, <2>3 DEF ConnsOnce
<1>9. CASE UNCHANGED vars
  BY <1>a, <1>9 DEF vars, serverVars
<1> QED
  BY <1>1, <1>2, <1>3, <1>4, <1>5, <1>6, <1>7, <1>8, <1>9 DEF Next, Server, Client

-----------------------------------------------------------------------------
(* What is still to be served.                                             *)

LEMMA UnservedFds ==
  ASSUME TypeOK
  PROVE  /\ IsFiniteSet(Unserved) /\ Unserved \subseteq ClientFds \cup {ListenFd}
         /\ pc # "accept" => Unserved \subseteq ClientFds
<1> USE Constants
<1>1. rset \subseteq ClientFds \cup {ListenFd} /\ client \in [Indices -> ClientFds \cup {Free}]
  BY DEF TypeOK
<1>2. Unserved \subseteq ClientFds \cup {ListenFd}
  BY <1>1 DEF Unserved
<1>3. pc # "accept" => Unserved \subseteq ClientFds
  BY <1>1 DEF Unserved
<1>4. ClientFds \cup {ListenFd} \subseteq 3..NFds - 1
  BY DEF ClientFds, ListenFd
<1>5. IsFiniteSet(3..NFds - 1)
  <2>1. NFds - 1 \in Int
    OBVIOUS
  <2> QED
    BY <2>1, FS_Interval
<1>6. IsFiniteSet(Unserved)
  BY <1>2, <1>4, <1>5, FS_Subset
<1> QED
  BY <1>2, <1>3, <1>6

\* What a client does leaves every ready descriptor ready.
LEMMA ReadyKept ==
  ASSUME IInv, (\E c \in Conns : Client(c)) \/ UNCHANGED vars,
         NEW fd \in ClientFds \cup {ListenFd}, Ready(fd)
  PROVE  Ready(fd)'
<1> USE Constants
<1>0. /\ conn \in [ClientFds -> Conns \cup {NoConn}] /\ backlog \in Seq(Conns)
      /\ up \in [Conns -> Seq(Nat)]
      /\ end \in [Conns -> {"away", "open", "closed", "dropped", "reset"}]
  BY DEF IInv, TypeOK
<1>1. CASE UNCHANGED vars
  BY <1>1 DEF vars, serverVars, streamVars, Ready
<1>2. ASSUME NEW c \in Conns, Connect(c) PROVE Ready(fd)'
  <2>1. end[c] = "away" /\ backlog' = Append(backlog, c) /\ UNCHANGED <<conn, up>>
    BY <1>2 DEF Connect, serverVars, streamVars
  <2>2. backlog' # <<>>
    <3>1. Append(backlog, c) # <<>>
      BY <1>0, AppendProperties
    <3> QED
      BY <2>1, <3>1
  <2>3. fd # ListenFd /\ conn[fd] # NoConn => conn[fd] # c
    BY <2>1 DEF IInv, ConnsOnce, OpenFds
  <2>4. \A d \in Conns : d # c => end'[d] = end[d]
    BY <1>0, <1>2 DEF Connect
  <2> QED
    BY <1>0, <2>1, <2>2, <2>3, <2>4 DEF Ready
<1>3. ASSUME NEW c \in Conns, SendByte(c) PROVE Ready(fd)'
  <2>1. up[c] \in Seq(Nat) /\ sent' \in [Conns -> Nat]
    BY <1>0, TypeStep DEF TypeOK, IInv, SendByte, Next, Client
  <2>2. Append(up[c], sent'[c]) # <<>>
    BY <2>1, AppendProperties
  <2>3. \A d \in Conns : up[d] # <<>> => up'[d] # <<>>
    BY <1>0, <1>3, <2>2 DEF SendByte
  <2> QED
    BY <1>0, <1>3, <2>3 DEF SendByte, serverVars, Ready
<1>4. ASSUME NEW c \in Conns, Receive(c) PROVE Ready(fd)'
  BY <1>4 DEF Receive, serverVars, Ready
<1>5. ASSUME NEW c \in Conns, Leave(c) PROVE Ready(fd)'
  <2>1. UNCHANGED <<conn, backlog>>
    BY <1>5 DEF Leave, serverVars
  <2>2. \A d \in Conns : d # c => end'[d] = end[d] /\ up'[d] = up[d]
    BY <1>0, <1>5 DEF Leave
  <2>3. end'[c] # "open"
    BY <1>0, <1>5 DEF Leave
  <2> QED
    BY <1>0, <2>1, <2>2, <2>3 DEF Ready
<1> QED
  BY <1>1, <1>2, <1>3, <1>4, <1>5 DEF Client

\* Serving one descriptor leaves the others ready.
LEMMA OthersReady ==
  ASSUME IInv, ToServe \/ pc = "send",
         NEW fd \in Unserved, fd # client[i],
         \A g \in ClientFds : g # client[i] => conn'[g] = conn[g],
         \A c \in Conns : c # Peer => up'[c] = up[c] /\ end'[c] = end[c]
  PROVE  Ready(fd)'
<1> USE Constants
<1>1. pc # "accept" /\ ~Stopped
  BY DEF ToServe, Stopped
<1>2. fd \in ClientFds /\ fd # ListenFd
  BY <1>1, UnservedFds DEF IInv
<1>3. Ready(fd)
  BY <1>1 DEF IInv, ReadyCounted
<1>4. conn[fd] \in Conns /\ conn'[fd] = conn[fd] /\ conn[fd] # Peer
  <2>1. fd \in OpenFds /\ conn[fd] \in Conns
    BY <1>2, <1>3 DEF Ready, OpenFds, IInv, TypeOK
  <2> QED
    BY <1>2, <2>1, ServedConn DEF IInv, ConnsOnce, Peer
<1> QED
  BY <1>2, <1>3, <1>4 DEF Ready

\* A descriptor that is served is taken off what is to be served.
LEMMA ServedCounted ==
  ASSUME IInv, ToServe \/ pc = "send", Served,
         \A k \in Indices : k # i => client'[k] = client[k]
  PROVE  /\ Unserved' = Unserved \ {client[i]}
         /\ nready' = Cardinality(Unserved')
         /\ pc' = "select" \/ (pc' = "scan" /\ nready' > 0)
<1> USE Constants
<1>1. /\ i \in Indices /\ client[i] \in rset /\ client[i] \in ClientFds
      /\ nready > 0 /\ nready = Cardinality(Unserved) /\ nready \in Nat
  BY ServedConn DEF IInv, TypeOK
<1>2. pc # "accept" /\ pc' # "accept" /\ rset' = rset /\ i' = i + 1 /\ nready' = nready - 1
  BY DEF ToServe, Served
<1>3. \A k \in Indices : client[k] = client[i] => k = i
  BY <1>1 DEF IInv, TableSound, Stopped, ToServe
<1>4. client[i] \in Unserved
  BY <1>1 DEF Unserved
<1>5. Unserved' = Unserved \ {client[i]}
  <2>1. \A k \in Indices : k >= i' <=> k >= i /\ k # i
    BY <1>1, <1>2
  <2> QED
    BY <1>2, <1>3, <2>1 DEF Unserved
<1>6. Cardinality(Unserved') = nready - 1
  BY <1>1, <1>4, <1>5, UnservedFds, FS_RemoveElement DEF IInv
<1> QED
  BY <1>1, <1>2, <1>5, <1>6 DEF Served

LEMMA ReadyStep ==
  ASSUME IInv, [Next]_vars
  PROVE  ReadyCounted' /\ AcceptReady'
<1> USE Constants
<1>0. TypeOK /\ TypeOK' /\ ReadyCounted /\ AcceptReady /\ Unserved \subseteq ClientFds \cup {ListenFd}
  BY TypeStep, UnservedFds DEF IInv
<1>1. CASE (\E c \in Conns : Client(c)) \/ UNCHANGED vars
  <2>1. UNCHANGED <<pc, client, rset, nready, i, conn>>
    BY <1>1 DEF Client, Connect, SendByte, Receive, Leave, serverVars, tableVars, scanVars, vars
  <2>2. Unserved' = Unserved /\ OpenFds' = OpenFds
    BY <2>1 DEF Unserved, OpenFds
  <2>3. \A fd \in Unserved : Ready(fd) => Ready(fd)'
    BY <1>0, <1>1, ReadyKept
  <2> QED
    BY <1>0, <2>1, <2>2, <2>3 DEF ReadyCounted, AcceptReady, Stopped
<1>2. CASE AcceptFails \/ ReadFails \/ SendFails
  BY <1>2 DEF AcceptFails, ReadFails, SendFails, Stop, ReadyCounted, AcceptReady, Stopped
<1>3. CASE Select
  <2> DEFINE ready == {fd \in allset : fd <= maxfd /\ Ready(fd)}
  <2>1. /\ ready # {} /\ rset' = ready /\ nready' = Cardinality(ready) /\ i' = 0
        /\ pc' = IF ListenFd \in ready THEN "accept" ELSE "scan"
        /\ pc = "select" /\ UNCHANGED <<client, conn, up, end, backlog>>
    BY <1>3 DEF Select, tableVars, streamVars
  <2>2. allset = InTable \cup {ListenFd} /\ InTable = OpenFds
    BY <1>3 DEF Select, IInv, TableSound, Stopped
  <2>3. ready \subseteq InTable \cup {ListenFd} /\ ready \subseteq ClientFds \cup {ListenFd}
    BY <2>2 DEF OpenFds
  <2>4. \A fd \in ready : Ready(fd)
    OBVIOUS
  <2> HIDE DEF ready
  <2>5. \A fd \in InTable : \E k \in Indices : k >= 0 /\ client[k] = fd
    BY DEF InTable
  <2>6. ListenFd \notin {client[k] : k \in Indices}
    BY DEF IInv, TypeOK
  <2>7. Unserved' = ready
    <3>1. Unserved' = (ready \cap {client[k] : k \in {j \in Indices : j >= 0}})
                      \cup (IF ListenFd \in ready THEN {ListenFd} ELSE {})
      BY <2>1 DEF Unserved
    <3>2. ASSUME NEW fd \in ready, fd # ListenFd
          PROVE  fd \in {client[k] : k \in {j \in Indices : j >= 0}}
      <4>1. PICK k \in Indices : k >= 0 /\ client[k] = fd
        BY <2>3, <2>5, <3>2
      <4> QED
        BY <4>1
    <3> QED
      BY <3>1, <3>2
  <2>8. IsFiniteSet(ready) /\ Cardinality(ready) \in Nat /\ Cardinality(ready) > 0
    <3>1. IsFiniteSet(ready)
      <4>1. (TypeOK => IsFiniteSet(Unserved))'
        BY UnservedFds, PTL
      <4> QED
        BY <1>0, <2>7, <4>1
    <3> QED
      BY <2>1, <3>1, FS_CardinalityType, FS_EmptySet
  <2>9. \A fd \in ready : Ready(fd)'
    BY <2>1, <2>4 DEF Ready
  <2>10. AcceptReady'
    BY <2>1, <2>2, <2>3 DEF AcceptReady, OpenFds
  <2> QED
    BY <2>1, <2>7, <2>8, <2>9, <2>10 DEF ReadyCounted
<1>4. CASE Accept
  <2> DEFINE connfd == Min(FreeFds)
             entry == Min(FreeEntries)
  <2>1. connfd \in FreeFds /\ entry \in Indices /\ client[entry] = Free
    BY <1>4, AcceptPlace DEF Accept, FreeEntries
  <2>2. /\ pc = "accept" /\ UNCHANGED <<rset, i, up, end>> /\ nready' = nready - 1
        /\ client' = [client EXCEPT ![entry] = connfd]
        /\ conn' = [conn EXCEPT ![connfd] = Head(backlog)]
        /\ pc' = IF nready' = 0 THEN "select" ELSE "scan"
    BY <1>4 DEF Accept, Admit, CanAccept, streamVars
  <2> HIDE DEF connfd, entry
  <2>3. nready > 0 /\ nready = Cardinality(Unserved) /\ nready \in Nat
    BY <2>2, AcceptConn DEF IInv, TypeOK
  <2>4. connfd \notin rset /\ Free \notin rset
    <3>1. connfd \notin OpenFds /\ connfd # ListenFd
      BY <2>1 DEF FreeFds, OpenFds
    <3> QED
      BY <1>0, <2>2, <3>1 DEF AcceptReady, TypeOK
  <2>5. Unserved' = Unserved \ {ListenFd}
    <3>1. \A k \in Indices : client'[k] = IF k = entry THEN connfd ELSE client[k]
      BY <1>0, <2>2 DEF TypeOK
    <3>2. \A k \in Indices : client[k] # ListenFd
      BY <1>0 DEF TypeOK
    <3>3. Unserved' = rset \cap {client'[k] : k \in {j \in Indices : j >= i}}
      BY <2>2 DEF Unserved
    <3>4. Unserved = (rset \cap {client[k] : k \in {j \in Indices : j >= i}}) \cup {ListenFd}
      BY <2>2 DEF Unserved
    <3> QED
      BY <2>1, <2>4, <3>1, <3>2, <3>3, <3>4
  <2>6. nready' = Cardinality(Unserved')
    <3>1. ListenFd \in Unserved
      BY <2>2 DEF Unserved
    <3> QED
      BY <1>0, <2>2, <2>3, <2>5, <3>1, UnservedFds, FS_RemoveElement
  <2>7. pc' = "select" \/ (pc' = "scan" /\ nready' > 0)
    BY <2>2, <2>3
  <2>8. \A fd \in Unserved' : Ready(fd)'
    <3> SUFFICES ASSUME NEW fd \in Unserved' PROVE Ready(fd)'
      OBVIOUS
    <3>1. fd \in Unserved /\ fd # ListenFd /\ fd \in ClientFds
      BY <1>0, <2>5
    <3>2. Ready(fd) /\ fd # connfd
      BY <1>0, <2>1, <2>2, <3>1 DEF ReadyCounted, Stopped, Ready, FreeFds
    <3>3. conn'[fd] = conn[fd]
      BY <1>0, <2>2, <3>1, <3>2 DEF TypeOK
    <3> QED
      BY <2>2, <3>1, <3>2, <3>3 DEF Ready
  <2> QED
    BY <2>6, <2>7, <2>8 DEF ReadyCounted, AcceptReady
<1>5. CASE Skip
  <2>1. pc = "scan" /\ UNCHANGED <<client, rset, nready, conn, up, end, backlog>>
    BY <1>5 DEF Skip, tableVars, streamVars
  <2>2. \A fd \in ClientFds \cup {ListenFd} : Ready(fd) => Ready(fd)'
    BY <2>1 DEF Ready
  <2>3. i \in Nat /\ client \in [Indices -> ClientFds \cup {Free}] /\ maxi \in Int
        /\ rset \subseteq ClientFds \cup {ListenFd} /\ Indices \subseteq Nat
    BY <1>0, TypeFacts DEF TypeOK
  <2>4. CASE i <= maxi
    <3>1. i' = i + 1 /\ pc' = "scan" /\ client[i] \notin rset
      BY <1>5, <2>1, <2>4 DEF Skip, ToServe
    <3>2. Unserved' = Unserved
      <4>1. \A k \in Indices : k >= i' <=> k >= i /\ k # i
        BY <2>3, <3>1
      <4> QED
        BY <2>1, <3>1, <4>1 DEF Unserved
    <3> QED
      BY <1>0, <2>1, <2>2, <3>1, <3>2 DEF ReadyCounted, AcceptReady, Stopped
  <2>5. CASE ~(i <= maxi)
    <3>1. i' = i /\ pc' = "select"
      BY <1>5, <2>5 DEF Skip
    <3>2. Unserved' = Unserved
      BY <2>1, <3>1 DEF Unserved
    <3> QED
      BY <1>0, <2>1, <2>2, <3>1, <3>2 DEF ReadyCounted, AcceptReady, Stopped
  <2> QED
    BY <2>4, <2>5
<1>6. ASSUME Served, ToServe \/ pc = "send",
             \A k \in Indices : k # i => client'[k] = client[k],
             \A g \in ClientFds : g # client[i] => conn'[g] = conn[g],
             \A c \in Conns : c # Peer => up'[c] = up[c] /\ end'[c] = end[c]
      PROVE  ReadyCounted' /\ AcceptReady'
  <2>1. /\ Unserved' = Unserved \ {client[i]} /\ nready' = Cardinality(Unserved')
        /\ pc' = "select" \/ (pc' = "scan" /\ nready' > 0)
    BY <1>6, ServedCounted
  <2>2. \A fd \in Unserved' : Ready(fd)'
    BY <1>6, <2>1, OthersReady
  <2> QED
    BY <2>1, <2>2 DEF ReadyCounted, AcceptReady
<1>7. CASE ReadEof
  <2>1. /\ Served /\ ToServe /\ UNCHANGED <<up, end>>
        /\ client' = [client EXCEPT ![i] = Free] /\ conn' = [conn EXCEPT ![client[i]] = NoConn]
    BY <1>7 DEF ReadEof, streamVars
  <2>2. /\ \A k \in Indices : k # i => client'[k] = client[k]
        /\ \A g \in ClientFds : g # client[i] => conn'[g] = conn[g]
    BY <1>0, <2>1 DEF TypeOK
  <2> QED
    BY <1>6, <2>1, <2>2
<1>8. CASE Read
  <2>1. /\ ToServe /\ pc = "scan" /\ pc' = "send"
        /\ UNCHANGED <<client, rset, nready, i, conn, backlog, end>>
        /\ \A c \in Conns : c # Peer => up'[c] = up[c]
    BY <1>0, <1>8 DEF Read, ToServe, tableVars, scanVars, TypeOK
  <2>2. Unserved' = Unserved
    BY <2>1 DEF Unserved
  <2>3. \A fd \in Unserved : fd # client[i] => Ready(fd)'
    BY <2>1, OthersReady
  <2> QED
    BY <1>0, <2>1, <2>2, <2>3 DEF ReadyCounted, AcceptReady, Stopped
<1>9. CASE Send
  <2>1. pc = "send" /\ UNCHANGED <<client, conn, backlog, end, up>>
    BY <1>9 DEF Send, tableVars
  <2>2. CASE Served
    BY <1>6, <2>1, <2>2
  <2>3. CASE UNCHANGED <<pc, scanVars>>
    <3>1. Unserved' = Unserved
      BY <2>1, <2>3 DEF Unserved, scanVars
    <3>2. \A fd \in Unserved : Ready(fd) => Ready(fd)'
      BY <2>1 DEF Ready
    <3> QED
      BY <1>0, <2>1, <2>3, <3>1, <3>2 DEF ReadyCounted, AcceptReady, Stopped, scanVars
  <2> QED
    BY <1>9, <2>2, <2>3 DEF Send
<1>10. CASE SendToClosed
  <2>1. /\ Served /\ pc = "send" /\ UNCHANGED <<client, conn, up>>
        /\ \A c \in Conns : c # Peer => end'[c] = end[c]
    BY <1>0, <1>10 DEF SendToClosed, tableVars, streamVars, TypeOK
  <2> QED
    BY <1>6, <2>1
<1> QED
  BY <1>1, <1>2, <1>3, <1>4, <1>5, <1>7, <1>8, <1>9, <1>10 DEF Next, Server

LEMMA Inductive == Spec => []IInv
<1>1. ASSUME IInv, [Next]_vars PROVE IInv'
  BY <1>1, TypeStep, TableStep, ConnsStep, ReadyStep DEF IInv
<1> QED
  BY InitInv, <1>1, PTL DEF Spec

\* The variables keep their types: the indices stay within the table, and the
\* descriptors within the sets (echo_server_select_tcp.c's client, maxi, maxfd).
THEOREM TypeCorrect == Spec => []TypeOK
<1>1. IInv => TypeOK
  BY DEF IInv
<1> QED
  BY <1>1, Inductive, PTL

\* The table, the set given to select and the open descriptors agree until the
\* server stops, and accept never gets a descriptor the table has no room for.
THEOREM TableCorrect == Spec => []TableSound
<1>1. IInv => TableSound
  BY DEF IInv
<1> QED
  BY <1>1, Inductive, PTL

\* nready counts exactly the descriptors still to be served, and each of them is
\* ready, so neither accept nor read blocks and the loop leaves nobody out.
THEOREM CountedCorrect == Spec => []ReadyCounted
<1>1. IInv => ReadyCounted
  BY DEF IInv
<1> QED
  BY <1>1, Inductive, PTL

-----------------------------------------------------------------------------
(* The bytes on their way.                                                 *)

BufOf(c) == IF pc = "send" /\ Peer = c THEN buf ELSE <<>>

\* s holds the bytes behind the one numbered from.
Follows(s, from) == \A k \in 1..Len(s) : s[k] = from + k

Fresh(c) == end[c] \in {"away", "open"}

\* From the client's last byte to the one it sent last, all are on their way.
InPipe(c) ==
  /\ Follows(down[c], got[c])
  /\ Follows(BufOf(c), got[c] + Len(down[c]))
  /\ Follows(up[c], got[c] + Len(down[c]) + Len(BufOf(c)))
  /\ sent[c] = got[c] + Len(down[c]) + Len(BufOf(c)) + Len(up[c])

PipeInv == \A c \in Conns : Fresh(c) => InPipe(c)

LEMMA PipeTypes ==
  ASSUME TypeOK, NEW c \in Conns
  PROVE  /\ down[c] \in Seq(Nat) /\ up[c] \in Seq(Nat) /\ BufOf(c) \in Seq(Nat)
         /\ got[c] \in Nat /\ sent[c] \in Nat
         /\ Len(down[c]) \in Nat /\ Len(up[c]) \in Nat /\ Len(BufOf(c)) \in Nat
<1>1. down[c] \in Seq(Nat) /\ up[c] \in Seq(Nat) /\ got[c] \in Nat /\ sent[c] \in Nat
  BY DEF TypeOK
<1>2. BufOf(c) \in Seq(Nat)
  BY DEF TypeOK, BufOf
<1> QED
  BY <1>1, <1>2

LEMMA FollowsHead ==
  ASSUME NEW s \in Seq(Nat), NEW n \in Nat, s # <<>>, Follows(s, n)
  PROVE  Head(s) = n + 1 /\ Follows(Tail(s), n + 1) /\ Len(Tail(s)) = Len(s) - 1
<1>1. Len(s) \in Nat /\ Len(s) > 0 /\ Head(s) = s[1]
  OBVIOUS
<1>2. Len(Tail(s)) = Len(s) - 1 /\ \A k \in 1..Len(s) - 1 : Tail(s)[k] = s[k + 1]
  BY <1>1
<1>3. Head(s) = n + 1
  BY <1>1 DEF Follows
<1>4. \A k \in 1..Len(s) - 1 : k + 1 \in 1..Len(s) /\ (n + 1) + k = n + (k + 1)
  BY <1>1
<1> QED
  BY <1>2, <1>3, <1>4 DEF Follows

LEMMA FollowsAppend ==
  ASSUME NEW s \in Seq(Nat), NEW n \in Nat, NEW b \in Nat, Follows(s, n), b = n + Len(s) + 1
  PROVE  Follows(Append(s, b), n) /\ Len(Append(s, b)) = Len(s) + 1
<1>1. Len(s) \in Nat
  OBVIOUS
<1>2. /\ Len(Append(s, b)) = Len(s) + 1
      /\ \A k \in 1..Len(s) : Append(s, b)[k] = s[k]
      /\ Append(s, b)[Len(s) + 1] = b
  BY AppendProperties
<1>3. n + (Len(s) + 1) = b
  BY <1>1
<1>4. \A k \in 1..Len(s) + 1 : k \in 1..Len(s) \/ k = Len(s) + 1
  BY <1>1
<1> QED
  BY <1>2, <1>3, <1>4 DEF Follows

LEMMA FollowsSplit ==
  ASSUME NEW s \in Seq(Nat), NEW n \in Nat, NEW m \in 0..Len(s), Follows(s, n)
  PROVE  /\ Follows(SubSeq(s, 1, m), n) /\ Len(SubSeq(s, 1, m)) = m
         /\ Follows(SubSeq(s, m + 1, Len(s)), n + m)
         /\ Len(SubSeq(s, m + 1, Len(s))) = Len(s) - m
<1>1. Len(s) \in Nat /\ m \in Nat /\ m <= Len(s)
  OBVIOUS
<1>2. \A k \in 1..Len(s) : s[k] \in Nat
  BY ElementOfSeq
<1>3. Len(SubSeq(s, 1, m)) = m /\ \A k \in 1..m : SubSeq(s, 1, m)[k] = s[k]
  BY <1>1, <1>2
<1>4. /\ Len(SubSeq(s, m + 1, Len(s))) = Len(s) - m
      /\ \A k \in 1..Len(s) - m : SubSeq(s, m + 1, Len(s))[k] = s[m + k]
  BY <1>1, <1>2
<1>5. \A k \in 1..m : k \in 1..Len(s)
  BY <1>1
<1>6. \A k \in 1..Len(s) - m : m + k \in 1..Len(s) /\ n + (m + k) = (n + m) + k
  BY <1>1
<1> QED
  BY <1>3, <1>4, <1>5, <1>6 DEF Follows

LEMMA PipeKept ==
  ASSUME PipeInv, NEW c \in Conns, Fresh(c)' => Fresh(c), BufOf(c)' = BufOf(c),
         up'[c] = up[c], down'[c] = down[c], sent'[c] = sent[c], got'[c] = got[c]
  PROVE  (Fresh(c) => InPipe(c))'
BY DEF PipeInv, InPipe, Follows

LEMMA PipeInit == Init => PipeInv
<1> SUFFICES ASSUME Init, NEW c \in Conns PROVE InPipe(c)
  BY DEF PipeInv
<1>1. down[c] = <<>> /\ up[c] = <<>> /\ BufOf(c) = <<>> /\ sent[c] = 0 /\ got[c] = 0
  BY DEF Init, BufOf
<1>2. Len(<<>>) = 0
  OBVIOUS
<1> QED
  BY <1>1, <1>2 DEF InPipe, Follows

LEMMA PipeStep ==
  ASSUME IInv, PipeInv, [Next]_vars
  PROVE  PipeInv'
<1> USE Constants
<1>0. TypeOK /\ TypeOK'
  BY TypeStep DEF IInv
<1>1. ASSUME UNCHANGED <<streamVars, end>>,
             (pc # "send" /\ pc' # "send") \/ UNCHANGED <<pc, client, i, conn, buf>>
      PROVE  PipeInv'
  <2>1. \A c \in Conns : BufOf(c)' = BufOf(c) /\ (Fresh(c)' => Fresh(c))
    BY <1>1 DEF BufOf, Peer, Fresh
  <2> QED
    BY <1>1, <2>1, PipeKept DEF PipeInv, streamVars
<1>2. ASSUME NEW c \in Conns, Client(c) PROVE PipeInv'
  <2>1. \A d \in Conns : BufOf(d)' = BufOf(d)
    BY <1>2 DEF Client, Connect, SendByte, Receive, Leave, serverVars, tableVars, scanVars,
                BufOf, Peer
  <2>2. \A d \in Conns : Fresh(d)' => Fresh(d)
    BY <1>0, <1>2 DEF Client, Connect, SendByte, Receive, Leave, Fresh, TypeOK
  <2>3. \A d \in Conns : d # c => up'[d] = up[d] /\ down'[d] = down[d]
                                  /\ sent'[d] = sent[d] /\ got'[d] = got[d]
    BY <1>0, <1>2 DEF Client, Connect, SendByte, Receive, Leave, streamVars, TypeOK
  <2>4. \A d \in Conns : d # c => (Fresh(d) => InPipe(d))'
    BY <2>1, <2>2, <2>3, PipeKept
  <2>5. CASE Connect(c)
    <3>1. UNCHANGED streamVars
      BY <2>5 DEF Connect
    <3>2. (Fresh(c) => InPipe(c))'
      BY <2>1, <2>2, <3>1, PipeKept DEF streamVars
    <3> QED
      BY <2>4, <3>2 DEF PipeInv
  <2>6. CASE Leave(c)
    <3>1. ~Fresh(c)'
      BY <1>0, <2>6 DEF Leave, Fresh, TypeOK
    <3> QED
      BY <2>4, <3>1 DEF PipeInv
  <2>7. CASE SendByte(c)
    <3>1. InPipe(c)
      BY <2>7 DEF PipeInv, SendByte, Fresh
    <3>2. /\ sent'[c] = sent[c] + 1 /\ got'[c] = got[c] /\ down'[c] = down[c]
          /\ up'[c] = Append(up[c], sent'[c])
      BY <1>0, <2>7 DEF SendByte, TypeOK
    <3> DEFINE n == got[c] + Len(down[c]) + Len(BufOf(c))
    <3>3. /\ up[c] \in Seq(Nat) /\ Len(up[c]) \in Nat /\ sent[c] \in Nat
          /\ got[c] \in Nat /\ Len(down[c]) \in Nat /\ Len(BufOf(c)) \in Nat
      BY <1>0, PipeTypes
    <3>4. Follows(up[c], n) /\ sent[c] = n + Len(up[c])
      BY <3>1 DEF InPipe
    <3>5. n \in Nat
      BY <3>3
    <3> HIDE DEF n
    <3>6. sent[c] + 1 \in Nat /\ sent[c] + 1 = n + Len(up[c]) + 1
      BY <3>3, <3>4, <3>5
    <3>7. Follows(up'[c], n) /\ Len(up'[c]) = Len(up[c]) + 1
      BY <3>2, <3>3, <3>4, <3>5, <3>6, FollowsAppend
    <3>8. sent'[c] = n + Len(up'[c])
      BY <3>2, <3>3, <3>5, <3>6, <3>7
    <3>9. InPipe(c)'
      BY <2>1, <3>1, <3>2, <3>7, <3>8 DEF InPipe, Follows, n
    <3> QED
      BY <2>4, <3>9 DEF PipeInv
  <2>8. CASE Receive(c)
    <3>1. InPipe(c) /\ down[c] # <<>>
      BY <2>8 DEF PipeInv, Receive, Fresh
    <3>2. /\ sent'[c] = sent[c] /\ up'[c] = up[c]
          /\ got'[c] = Head(down[c]) /\ down'[c] = Tail(down[c])
      BY <1>0, <2>8 DEF Receive, TypeOK
    <3>3. /\ down[c] \in Seq(Nat) /\ Len(up[c]) \in Nat /\ sent[c] \in Nat
          /\ got[c] \in Nat /\ Len(down[c]) \in Nat /\ Len(BufOf(c)) \in Nat
      BY <1>0, PipeTypes
    <3>4. Follows(down[c], got[c])
      BY <3>1 DEF InPipe
    <3>5. /\ got'[c] = got[c] + 1 /\ Follows(down'[c], got'[c])
          /\ Len(down'[c]) = Len(down[c]) - 1
      BY <3>1, <3>2, <3>3, <3>4, FollowsHead
    <3>6. got'[c] + Len(down'[c]) = got[c] + Len(down[c])
      BY <3>3, <3>5
    <3>7. InPipe(c)'
      BY <2>1, <3>1, <3>2, <3>5, <3>6 DEF InPipe
    <3> QED
      BY <2>4, <3>7 DEF PipeInv
  <2> QED
    BY <1>2, <2>5, <2>6, <2>7, <2>8 DEF Client
<1>3. CASE Select \/ Accept \/ AcceptFails \/ Skip \/ ReadEof \/ ReadFails
  BY <1>1, <1>3 DEF Select, Accept, Admit, CanAccept, AcceptFails, Skip, ReadEof, ReadFails,
                    Stop, Served, ToServe
<1>4. CASE Read
  <2>1. Peer \in Conns /\ up[Peer] # <<>> /\ pc = "scan"
    BY <1>4, ServedConn DEF Read, ToServe
  <2> DEFINE n == Min({Len(up[Peer]), MaxLine})
  <2>2. /\ buf' = SubSeq(up[Peer], 1, n) /\ pc' = "send"
        /\ up' = [up EXCEPT ![Peer] = SubSeq(up[Peer], n + 1, Len(up[Peer]))]
        /\ UNCHANGED <<client, i, conn, end, down, sent, got>>
    BY <1>4 DEF Read, tableVars, scanVars
  <2>3. Peer' = Peer
    BY <2>2 DEF Peer
  <2>4. up[Peer] \in Seq(Nat) /\ Len(up[Peer]) \in Nat /\ Len(up[Peer]) > 0
    <3>1. up[Peer] \in Seq(Nat)
      BY <1>0, <2>1, PipeTypes
    <3> QED
      BY <2>1, <3>1
  <2>5. n \in 0..Len(up[Peer])
    <3>1. Len(up[Peer]) \in Int /\ MaxLine \in Int /\ MaxLine > 0
      BY <2>4
    <3>2. n \in {Len(up[Peer]), MaxLine} /\ n <= Len(up[Peer])
      BY <3>1, MinOfTwo
    <3> QED
      BY <2>4, <3>1, <3>2
  <2> HIDE DEF n
  <2>6. \A c \in Conns : c # Peer =>
          BufOf(c) = <<>> /\ BufOf(c)' = <<>> /\ up'[c] = up[c] /\ (Fresh(c)' => Fresh(c))
    BY <1>0, <2>1, <2>2, <2>3 DEF BufOf, Fresh, TypeOK
  <2>7. \A c \in Conns : c # Peer => (Fresh(c) => InPipe(c))'
    BY <2>2, <2>6, PipeKept
  <2>8. BufOf(Peer) = <<>> /\ Len(BufOf(Peer)) = 0
    BY <2>1 DEF BufOf
  <2>9. ASSUME Fresh(Peer)
        PROVE  /\ Follows(down[Peer], got[Peer])
               /\ Follows(buf', got[Peer] + Len(down[Peer]))
               /\ Follows(up'[Peer], got[Peer] + Len(down[Peer]) + Len(buf'))
               /\ sent[Peer] = got[Peer] + Len(down[Peer]) + Len(buf') + Len(up'[Peer])
    <3> DEFINE g == got[Peer] + Len(down[Peer])
    <3>1. /\ got[Peer] \in Nat /\ Len(down[Peer]) \in Nat
      BY <1>0, <2>1, PipeTypes
    <3>2. g \in Nat /\ g + 0 = g
      BY <3>1
    <3>3. /\ Follows(down[Peer], got[Peer]) /\ Follows(up[Peer], g + Len(BufOf(Peer)))
          /\ sent[Peer] = g + Len(BufOf(Peer)) + Len(up[Peer])
      BY <2>1, <2>9 DEF PipeInv, InPipe
    <3> HIDE DEF g
    <3>4. Follows(up[Peer], g) /\ sent[Peer] = g + Len(up[Peer])
      BY <2>8, <3>2, <3>3
    <3>5. up'[Peer] = SubSeq(up[Peer], n + 1, Len(up[Peer]))
      BY <1>0, <2>1, <2>2 DEF TypeOK
    <3>6. /\ Follows(buf', g) /\ Len(buf') = n
          /\ Follows(up'[Peer], g + n) /\ Len(up'[Peer]) = Len(up[Peer]) - n
      <4>1. /\ Follows(SubSeq(up[Peer], 1, n), g) /\ Len(SubSeq(up[Peer], 1, n)) = n
            /\ Follows(SubSeq(up[Peer], n + 1, Len(up[Peer])), g + n)
            /\ Len(SubSeq(up[Peer], n + 1, Len(up[Peer]))) = Len(up[Peer]) - n
        BY <2>4, <2>5, <3>2, <3>4, FollowsSplit
      <4> QED
        BY <2>2, <3>5, <4>1
    <3>7. sent[Peer] = g + n + (Len(up[Peer]) - n)
      <4>1. n \in Nat
        BY <2>4, <2>5
      <4>2. \A a, m \in Nat : g + m + (a - m) = g + a
        BY <3>2
      <4>3. g + n + (Len(up[Peer]) - n) = g + Len(up[Peer])
        BY <2>4, <4>1, <4>2
      <4> QED
        BY <3>4, <4>3
    <3> QED
      BY <3>3, <3>6, <3>7 DEF g
  <2>10. ASSUME NEW c \in Conns, c = Peer, Fresh(c)' PROVE InPipe(c)'
    <3>1. Fresh(Peer) /\ BufOf(c)' = buf'
      BY <2>2, <2>3, <2>10 DEF Fresh, BufOf
    <3>2. /\ Follows(down'[c], got'[c])
          /\ Follows(BufOf(c)', got'[c] + Len(down'[c]))
          /\ Follows(up'[c], got'[c] + Len(down'[c]) + Len(BufOf(c)'))
          /\ sent'[c] = got'[c] + Len(down'[c]) + Len(BufOf(c)') + Len(up'[c])
      BY <2>2, <2>9, <2>10, <3>1
    <3> QED
      BY <3>2 DEF InPipe, Follows
  <2> QED
    BY <2>7, <2>10 DEF PipeInv
<1>5. CASE Send
  <2>1. Peer \in Conns /\ buf # <<>> /\ pc = "send" /\ end[Peer] = "open"
    BY <1>5, ServedConn DEF Send, IInv, Sending
  <2>2. /\ down' = [down EXCEPT ![Peer] = Append(down[Peer], Head(buf))] /\ buf' = Tail(buf)
        /\ UNCHANGED <<client, conn, end, up, sent, got>>
        /\ IF buf' = <<>> THEN pc' # "send" ELSE UNCHANGED <<pc, i>>
    BY <1>5 DEF Send, Served, tableVars, scanVars
  <2>3. buf \in Seq(Nat) /\ Head(buf) \in Nat /\ Tail(buf) \in Seq(Nat)
    <3>1. buf \in Seq(Nat)
      BY <1>0 DEF TypeOK
    <3> QED
      BY <2>1, <3>1
  <2>4. \A c \in Conns : BufOf(c) = IF c = Peer THEN buf ELSE <<>>
    BY <2>1 DEF BufOf
  <2>5. \A c \in Conns : BufOf(c)' = IF c = Peer THEN Tail(buf) ELSE <<>>
    <3>1. CASE buf' = <<>>
      BY <2>2, <3>1 DEF BufOf
    <3>2. CASE buf' # <<>>
      <4>1. pc' = "send" /\ Peer' = Peer
        BY <2>1, <2>2, <3>2 DEF Peer
      <4> QED
        BY <2>2, <4>1 DEF BufOf
    <3> QED
      BY <3>1, <3>2
  <2>6. \A c \in Conns : c # Peer => down'[c] = down[c]
    BY <1>0, <2>2 DEF TypeOK
  <2>7. \A c \in Conns : c # Peer => (Fresh(c) => InPipe(c))'
    <3>1. \A c \in Conns : Fresh(c)' => Fresh(c)
      BY <2>2 DEF Fresh
    <3> QED
      BY <2>2, <2>4, <2>5, <2>6, <3>1, PipeKept
  <2>8. ASSUME NEW c \in Conns, c = Peer PROVE InPipe(c)'
    <3>1. InPipe(c)
      BY <2>1, <2>8 DEF PipeInv, Fresh
    <3>2. /\ down[c] \in Seq(Nat) /\ got[c] \in Nat /\ Len(down[c]) \in Nat
          /\ Len(up[c]) \in Nat /\ Len(buf) \in Nat
      BY <1>0, <2>3, PipeTypes
    <3> DEFINE g == got[c] + Len(down[c])
    <3>3. /\ g \in Nat /\ Follows(down[c], got[c]) /\ Follows(buf, g)
          /\ Follows(up[c], g + Len(buf)) /\ sent[c] = g + Len(buf) + Len(up[c])
      BY <2>4, <2>8, <3>1, <3>2 DEF InPipe
    <3> HIDE DEF g
    <3>4. /\ Head(buf) = g + 1 /\ Follows(Tail(buf), g + 1) /\ Len(Tail(buf)) = Len(buf) - 1
      BY <2>1, <2>3, <3>3, FollowsHead
    <3>5. down'[c] = Append(down[c], Head(buf))
      BY <1>0, <2>2, <2>8 DEF TypeOK
    <3>6. Follows(down'[c], got[c]) /\ Len(down'[c]) = Len(down[c]) + 1
      <4>1. Head(buf) = got[c] + Len(down[c]) + 1
        BY <3>4 DEF g
      <4>2. Follows(Append(down[c], Head(buf)), got[c])
            /\ Len(Append(down[c], Head(buf))) = Len(down[c]) + 1
        BY <2>3, <3>2, <3>3, <4>1, FollowsAppend
      <4> QED
        BY <3>5, <4>2
    <3>7. got[c] + Len(down'[c]) = g + 1
      <4>1. got[c] + (Len(down[c]) + 1) = got[c] + Len(down[c]) + 1
        BY <3>2
      <4> QED
        BY <3>6, <4>1 DEF g
    <3>8. (g + 1) + Len(Tail(buf)) = g + Len(buf)
      BY <3>2, <3>3, <3>4
    <3>9. BufOf(c)' = Tail(buf)
      BY <2>5, <2>8
    <3>10. /\ Follows(down'[c], got'[c])
           /\ Follows(BufOf(c)', got'[c] + Len(down'[c]))
           /\ Follows(up'[c], got'[c] + Len(down'[c]) + Len(BufOf(c)'))
           /\ sent'[c] = got'[c] + Len(down'[c]) + Len(BufOf(c)') + Len(up'[c])
      BY <2>2, <3>3, <3>4, <3>6, <3>7, <3>8, <3>9
    <3> QED
      BY <3>10 DEF InPipe, Follows
  <2> QED
    BY <2>7, <2>8 DEF PipeInv
<1>6. CASE SendToClosed \/ SendFails
  <2>1. /\ Peer \in Conns /\ pc = "send" /\ pc' # "send" /\ ~Fresh(Peer)
        /\ UNCHANGED streamVars
    BY <1>6, ServedConn DEF SendToClosed, SendFails, Stop, Served, Fresh
  <2>2. \A c \in Conns : Fresh(c)' => Fresh(c) /\ c # Peer
    <3>1. CASE SendFails
      BY <2>1, <3>1 DEF SendFails, Fresh
    <3>2. CASE SendToClosed
      <4>1. \A c \in Conns : end'[c] = IF c = Peer THEN "dropped" ELSE end[c]
        BY <1>0, <3>2 DEF SendToClosed, TypeOK
      <4> QED
        BY <4>1 DEF Fresh
    <3> QED
      BY <1>6, <3>1, <3>2
  <2>3. ASSUME NEW c \in Conns, Fresh(c)' PROVE InPipe(c)'
    <3>1. Fresh(c) /\ BufOf(c) = <<>> /\ BufOf(c)' = <<>>
      BY <2>1, <2>2, <2>3 DEF BufOf
    <3> QED
      BY <2>1, <2>3, <3>1, PipeKept DEF streamVars
  <2> QED
    BY <2>3 DEF PipeInv
<1>7. CASE UNCHANGED vars
  BY <1>1, <1>7 DEF vars, serverVars, tableVars, scanVars
<1> QED
  BY <1>2, <1>3, <1>4, <1>5, <1>6, <1>7 DEF Next, Server

\* Every step of the server with its clients is a step of Echo or changes
\* nothing that Echo speaks of: a client gets its own bytes back, in order and
\* each once, whatever the lengths read and sent at a time.
THEOREM EchoCorrect == Spec => EchoSafe
<1>1. Init => EchoSpec!Init
  BY DEF Init, EchoSpec!Init
<1>2. ASSUME IInv, PipeInv, [Next]_vars
      PROVE  [EchoSpec!Next]_<<sent, got>>
  <2>0. TypeOK
    BY <1>2 DEF IInv
  <2>1. ASSUME NEW c \in Conns, SendByte(c) PROVE EchoSpec!Send(c)
    BY <2>1 DEF SendByte, EchoSpec!Send
  <2>2. ASSUME NEW c \in Conns, Receive(c) PROVE EchoSpec!Receive(c)
    <3>1. InPipe(c) /\ down[c] # <<>>
      BY <1>2, <2>2 DEF PipeInv, Receive, Fresh
    <3>2. /\ down[c] \in Seq(Nat) /\ Len(up[c]) \in Nat /\ Len(BufOf(c)) \in Nat
          /\ got[c] \in Nat /\ Len(down[c]) \in Nat
      BY <2>0, PipeTypes
    <3>3. Follows(down[c], got[c])
      BY <3>1 DEF InPipe
    <3>4. Head(down[c]) = got[c] + 1 /\ Len(down[c]) > 0
      BY <3>1, <3>2, <3>3, FollowsHead
    <3>5. got[c] < sent[c]
      BY <3>1, <3>2, <3>4 DEF InPipe
    <3> QED
      BY <2>2, <3>4, <3>5 DEF Receive, EchoSpec!Receive
  <2>3. CASE \E c \in Conns : Connect(c) \/ Leave(c)
    BY <2>3 DEF Connect, Leave, streamVars
  <2>4. CASE Server
    BY <2>4 DEF Server, Select, Accept, Admit, AcceptFails, Skip, ReadEof, ReadFails, Read, Send,
                SendToClosed, SendFails, streamVars
  <2>5. CASE UNCHANGED vars
    BY <2>5 DEF vars, streamVars
  <2> QED
    BY <1>2, <2>1, <2>2, <2>3, <2>4, <2>5 DEF Next, Client, EchoSpec!Next
<1>3. Spec => []PipeInv
  <2>1. ASSUME IInv, PipeInv, [Next]_vars PROVE PipeInv'
    BY <2>1, PipeStep
  <2> QED
    BY PipeInit, <2>1, Inductive, PTL DEF Spec
<1> QED
  BY <1>1, <1>2, <1>3, Inductive, PTL DEF Spec, EchoSafe, EchoSpec!Spec
=============================================================================
