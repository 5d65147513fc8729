--------------------------- MODULE NetReceiverProofs ---------------------------
(***************************************************************************)
(* Theorems about NetReceiver, for any number of messages and any size of  *)
(* the chunks.  They rest on one idea: every unit has its place in the     *)
(* stream of all that is sent, and recv takes the stream apart at some of  *)
(* the places of its separators.                                           *)
(***************************************************************************)
EXTENDS NetReceiver, SequenceTheorems, FiniteSetTheorems, WellFoundedInduction, TLAPS

-----------------------------------------------------------------------------
(* The stream.                                                             *)

\* The unit at place p, counted from 1.
UnitAt(p) ==
  CASE p % 4 = 1 -> Unit((p + 3) \div 4, "header")
    [] p % 4 = 2 -> Unit((p + 3) \div 4, "fields")
    [] p % 4 = 3 -> Sep
    [] OTHER     -> Nul

\* s is what the stream holds behind its first p units.
Stretch(s, p) == \A k \in 1..Len(s) : s[k] = UnitAt(p + k)

\* How many of the first p units are separators.
Seps(p) == (p + 1) \div 4

-----------------------------------------------------------------------------
(* The inductive invariant.                                                *)

Calls == Len(received)

\* The places up to which the stream was returned, received.
Returned == 4 * sent - Len(channel) - Len(buf) - Len(str)
Got == 4 * sent - Len(channel)

\* Behind what was returned there are the units that recv holds and those on
\* their way.
InPlace ==
  /\ Stretch(str, Returned) /\ Stretch(buf, Returned + Len(str)) /\ Stretch(channel, Got)
  /\ state = "eof" => buf = <<>> /\ channel = <<>> /\ closed

\* The i-th call returned what is between two separators, cut[i - 1] and cut[i].
CutAt(cut) ==
  /\ cut[0] = 0 /\ cut[Calls] = Returned
  /\ \A i \in 1..Calls : cut[i] % 4 = 3
  /\ \A i, j \in 0..Calls : i < j => cut[i] < cut[j]
  /\ \A i \in 1..Calls :
       /\ Stretch(received[i], cut[i - 1])
       /\ cut[i] = cut[i - 1] + Len(received[i]) + 1

\* When the sender waits, recv holds no separator, so that it stops at every
\* one.
Waiting(cut) ==
  waits => /\ sent <= Calls + 1
           /\ \A i \in 1..Calls : cut[i] = 4 * i - 1
           /\ Got < 4 * Calls + 3

ReceiverInv == TypeOK /\ InPlace /\ \E cut \in [0..Calls -> Nat] : CutAt(cut) /\ Waiting(cut)

-----------------------------------------------------------------------------
(* Places and units.                                                       *)

\* What is at a place follows from the place modulo 4.
LEMMA UnitFacts ==
  ASSUME NEW p \in Nat
  PROVE  /\ UnitAt(p) = Sep <=> p % 4 = 3
         /\ UnitAt(p).part = "header" <=> p % 4 = 1
         /\ p % 4 = 1 => UnitAt(p) = Unit((p + 3) \div 4, "header")
         /\ p % 4 = 0 => UnitAt(p) = Nul
<1>1. p % 4 \in 0..3
  OBVIOUS
<1> QED
  BY <1>1 DEF UnitAt, Unit, Sep, Nul

\* The places of the messages hold units.
LEMMA UnitInUnits ==
  ASSUME NEW p \in 1..4 * MaxMessages
  PROVE  UnitAt(p) \in Units
<1> MaxMessages \in Nat
  BY NetReceiverAssumption
<1>1. p % 4 \in 0..3 /\ (p + 3) \div 4 \in 1..MaxMessages
  OBVIOUS
<1> QED
  BY <1>1 DEF UnitAt, Units

\* The frame of a message fills four places.
LEMMA FrameInPlace ==
  ASSUME NEW n \in Nat
  PROVE  Len(Frame(n + 1)) = 4 /\ Stretch(Frame(n + 1), 4 * n)
<1>1. /\ (4 * n + 1) % 4 = 1 /\ (4 * n + 2) % 4 = 2 /\ (4 * n + 3) % 4 = 3 /\ (4 * n + 4) % 4 = 0
      /\ (4 * n + 1 + 3) \div 4 = n + 1 /\ (4 * n + 2 + 3) \div 4 = n + 1
  OBVIOUS
<1>2. /\ UnitAt(4 * n + 1) = Unit(n + 1, "header") /\ UnitAt(4 * n + 2) = Unit(n + 1, "fields")
      /\ UnitAt(4 * n + 3) = Sep /\ UnitAt(4 * n + 4) = Nul
  BY <1>1 DEF UnitAt
<1> QED
  BY <1>2 DEF Stretch, Frame

\* Two stretches that meet are a stretch.
LEMMA StretchConcat ==
  ASSUME NEW S, NEW s \in Seq(S), NEW t \in Seq(S), NEW p \in Nat,
         Stretch(s, p), Stretch(t, p + Len(s))
  PROVE  Stretch(s \o t, p)
<1>1. Len(s) \in Nat /\ Len(t) \in Nat
  OBVIOUS
<1>2. SUFFICES ASSUME NEW k \in 1..Len(s) + Len(t) PROVE (s \o t)[k] = UnitAt(p + k)
  BY ConcatProperties DEF Stretch
<1>3. CASE k <= Len(s)
  BY <1>1, <1>3, ConcatProperties DEF Stretch
<1>4. CASE k > Len(s)
  <2>1. k - Len(s) \in 1..Len(t) /\ p + Len(s) + (k - Len(s)) = p + k
    BY <1>1, <1>4
  <2>2. t[k - Len(s)] = UnitAt(p + k)
    BY <2>1 DEF Stretch
  <2> QED
    BY <1>1, <1>4, <2>2, ConcatProperties
<1> QED
  BY <1>3, <1>4

\* A part of a stretch is a stretch.
LEMMA StretchPart ==
  ASSUME NEW S, NEW s \in Seq(S), NEW p \in Nat, Stretch(s, p),
         NEW a \in 1..Len(s) + 1, NEW b \in 0..Len(s), NEW n \in Nat, n = b - a + 1,
         NEW q \in Nat, q = p + a - 1
  PROVE  /\ SubSeq(s, a, b) \in Seq(S) /\ Len(SubSeq(s, a, b)) = n
         /\ Stretch(SubSeq(s, a, b), q)
<1>1. Len(s) \in Nat /\ \A i \in a..b : i \in 1..Len(s) /\ s[i] \in S
  OBVIOUS
<1>2. /\ SubSeq(s, a, b) \in Seq(S) /\ Len(SubSeq(s, a, b)) = n
      /\ \A i \in 1..n : SubSeq(s, a, b)[i] = s[a + i - 1]
  BY <1>1, SubSeqProperties
<1>3. ASSUME NEW k \in 1..n PROVE SubSeq(s, a, b)[k] = UnitAt(q + k)
  <2>1. a + k - 1 \in 1..Len(s) /\ p + (a + k - 1) = q + k
    BY <1>1
  <2> QED
    BY <1>2, <2>1 DEF Stretch
<1> QED
  BY <1>2, <1>3 DEF Stretch

\* Without a separator the count of them stays.
LEMMA SepsSame ==
  ASSUME NEW a \in Nat, NEW b \in Nat, a <= b, \A p \in a + 1..b : p % 4 # 3
  PROVE  Seps(b) = Seps(a)
<1>1. Seps(a) \in Nat /\ Seps(b) \in Nat /\ Seps(a) <= Seps(b)
  BY DEF Seps
<1>2. ASSUME Seps(a) < Seps(b) PROVE FALSE
  <2> DEFINE p == 4 * Seps(a) + 3
  <2>1. p \in a + 1..b /\ p % 4 = 3
    BY <1>1, <1>2 DEF Seps
  <2> QED
    BY <2>1
<1> QED
  BY <1>1, <1>2

\* One separator at the end.
LEMMA SepsNext ==
  ASSUME NEW a \in Nat, NEW b \in Nat, a < b, b % 4 = 3, \A p \in a + 1..b - 1 : p % 4 # 3
  PROVE  Seps(b) = Seps(a) + 1
<1>1. Seps(b - 1) = Seps(a)
  BY SepsSame
<1>2. Seps(b) = Seps(b - 1) + 1
  BY DEF Seps
<1> QED
  BY <1>1, <1>2

\* Two cuts of the stream are at least a message apart.
LEMMA CutsApart ==
  ASSUME NEW a \in Nat, NEW b \in Nat, a < b, b % 4 = 3
  PROVE  Seps(a) < Seps(b) /\ (a = 0 \/ a % 4 = 3 => b >= a + 3)
<1>1. Seps(a) < Seps(b)
  BY DEF Seps
<1>2. a = 0 => b >= a + 3
  OBVIOUS
<1>3. a % 4 = 3 => b >= a + 3
  OBVIOUS
<1> QED
  BY <1>1, <1>2, <1>3

-----------------------------------------------------------------------------
(* The invariant holds.                                                    *)

\* At the start nothing was sent and nothing cut.
LEMMA InitInv == Init => ReceiverInv
<1> SUFFICES ASSUME Init PROVE ReceiverInv
  OBVIOUS
<1>1. Len(<<>>) = 0 /\ <<>> \in Seq(Units) /\ <<>> \in Seq(Seq(Units))
  OBVIOUS
<1>2. TypeOK
  <2>1. waits \in BOOLEAN /\ closed \in BOOLEAN
    BY DEF Init
  <2>2. sent \in 0..MaxMessages
    BY NetReceiverAssumption DEF Init
  <2> QED
    BY <1>1, <2>1, <2>2 DEF Init, TypeOK
<1>3. InPlace
  BY <1>1 DEF Init, InPlace, Stretch
<1> DEFINE cut == [i \in 0..Calls |-> 0]
<1>4. Calls = 0 /\ Returned = 0 /\ Got = 0 /\ 0..Calls = {0} /\ 1..Calls = {}
  <2>1. sent = 0 /\ channel = <<>> /\ buf = <<>> /\ str = <<>> /\ received = <<>>
    BY DEF Init
  <2>2. Calls = 0
    BY <1>1, <2>1 DEF Calls
  <2>3. Len(channel) = 0 /\ Len(buf) = 0 /\ Len(str) = 0
    BY <1>1, <2>1
  <2>4. Returned = 0 /\ Got = 0
    <3>1. sent = 0
      BY DEF Init
    <3> QED
      BY <2>3, <3>1 DEF Returned, Got
  <2> QED
    BY <2>2, <2>4
<1>5. cut \in [0..Calls -> Nat] /\ CutAt(cut)
  BY <1>4 DEF CutAt
<1>6. Waiting(cut)
  BY <1>4 DEF Waiting, Init
<1> QED
  BY <1>2, <1>3, <1>5, <1>6 DEF ReceiverInv

\* The lengths are numbers, and recv holds one string at a time.
LEMMA Lengths ==
  ASSUME TypeOK
  PROVE  /\ sent \in Nat /\ MaxMessages \in Nat /\ Calls \in Nat
         /\ Len(channel) \in Nat /\ Len(buf) \in Nat /\ Len(str) \in Nat
         /\ Got \in Int /\ Returned \in Int
         /\ state = "idle" => str = <<>> /\ Len(str) = 0
         /\ state = "recv" => buf = <<>> /\ Len(buf) = 0
BY NetReceiverAssumption DEF TypeOK, Calls, Got, Returned

\* Every step keeps the types.
LEMMA TypeStep ==
  ASSUME TypeOK, [Next]_vars
  PROVE  TypeOK'
<1> USE NetReceiverAssumption
<1>0. Arrived \subseteq 1..Len(channel) /\ Len(channel) \in Nat
  BY Lengths DEF Arrived
<1>1. CASE Send
  <2>1. sent + 1 \in 1..MaxMessages
    BY <1>1 DEF Send, TypeOK
  <2>2. Frame(sent + 1) \in Seq(Units)
    BY <2>1 DEF Frame, Units
  <2>3. channel' \in Seq(Units)
    BY <1>1, <2>2, ConcatProperties DEF Send, TypeOK
  <2> QED
    BY <1>1, <2>1, <2>3 DEF Send, TypeOK
<1>2. CASE CloseSender
  BY <1>2 DEF CloseSender, TypeOK
<1>3. CASE Call
  BY <1>3 DEF Call, TypeOK
<1>4. CASE Eof
  BY <1>4 DEF Eof, TypeOK
<1> DEFINE chunk(k) == SubSeq(channel, 1, k)
<1>5. ASSUME NEW k \in Arrived
      PROVE  /\ chunk(k) \in Seq(Units) /\ Len(chunk(k)) = k
             /\ SubSeq(channel, k + 1, Len(channel)) \in Seq(Units)
  <2>1. k \in 1..Len(channel) /\ \A j \in 1..Len(channel) : channel[j] \in Units
    BY <1>0, <1>5 DEF TypeOK
  <2> QED
    BY <1>0, <2>1, SubSeqProperties
<1>6. ASSUME NEW k \in Arrived, ChunkWithout(k) PROVE TypeOK'
  <2>1. str' \in Seq(Units)
    BY <1>5, <1>6, ConcatProperties DEF ChunkWithout, TypeOK
  <2> QED
    BY <1>5, <1>6, <2>1 DEF ChunkWithout, TypeOK
<1>7. ASSUME NEW k \in Arrived, NEW i \in 1..k, ChunkWith(k, i) PROVE TypeOK'
  <2>1. k \in Nat /\ \A j \in 1..k : chunk(k)[j] \in Units
    BY <1>0, <1>5
  <2>2. SubSeq(chunk(k), 1, i - 1) \in Seq(Units) /\ SubSeq(chunk(k), i + 1, k) \in Seq(Units)
    <3> HIDE DEF chunk
    <3> QED
      BY <2>1, SubSeqProperties
  <2>3. str \o SubSeq(chunk(k), 1, i - 1) \in Seq(Units)
    BY <2>2, ConcatProperties DEF TypeOK
  <2>4. received' \in Seq(Seq(Units))
    BY <1>7, <2>3, AppendProperties DEF ChunkWith, TypeOK
  <2> QED
    BY <1>5, <1>7, <2>2, <2>4 DEF ChunkWith, TypeOK
<1>8. CASE UNCHANGED vars
  BY <1>8 DEF vars, TypeOK
<1> QED
  BY <1>1, <1>2, <1>3, <1>4, <1>6, <1>7, <1>8 DEF Next, Receive

\* What ::recv returns, the places it has, and those of its part without a separator.
LEMMA ChunkFacts ==
  ASSUME ReceiverInv, NEW k \in Arrived, state = "recv"
  PROVE  /\ k \in 1..Len(channel) /\ Got \in Nat /\ Got = Returned + Len(str)
         /\ SubSeq(channel, 1, k) \in Seq(Units) /\ Len(SubSeq(channel, 1, k)) = k
         /\ Stretch(SubSeq(channel, 1, k), Got)
         /\ SubSeq(channel, k + 1, Len(channel)) \in Seq(Units)
         /\ Len(SubSeq(channel, k + 1, Len(channel))) = Len(channel) - k
         /\ Stretch(SubSeq(channel, k + 1, Len(channel)), Got + k)
         /\ \A i \in 1..k : /\ SubSeq(channel, 1, k)[i] = UnitAt(Got + i)
                            /\ SubSeq(channel, 1, k)[i] = Sep <=> (Got + i) % 4 = 3
<1>0. TypeOK /\ InPlace
  BY DEF ReceiverInv
<1>1. k \in 1..Len(channel) /\ Len(channel) \in Nat
  BY <1>0, Lengths, NetReceiverAssumption DEF Arrived
<1>2. Returned \in Nat
  <2>1. PICK cut \in [0..Calls -> Nat] : CutAt(cut)
    BY DEF ReceiverInv
  <2> QED
    BY <1>0, <2>1, Lengths DEF CutAt
<1>3. Got = Returned + Len(str) /\ Got \in Nat
  BY <1>0, <1>2, Lengths DEF Got, Returned
<1>4. channel \in Seq(Units) /\ Stretch(channel, Got)
  BY <1>0 DEF TypeOK, InPlace
<1>5. /\ SubSeq(channel, 1, k) \in Seq(Units) /\ Len(SubSeq(channel, 1, k)) = k
      /\ Stretch(SubSeq(channel, 1, k), Got)
  <2>1. 1 \in 1..Len(channel) + 1 /\ k \in 0..Len(channel) /\ k \in Nat /\ k = k - 1 + 1 /\ Got = Got + 1 - 1
    BY <1>1, <1>3
  <2> QED
    BY <1>3, <1>4, <2>1, StretchPart
<1>6. /\ SubSeq(channel, k + 1, Len(channel)) \in Seq(Units)
      /\ Len(SubSeq(channel, k + 1, Len(channel))) = Len(channel) - k
      /\ Stretch(SubSeq(channel, k + 1, Len(channel)), Got + k)
  <2> DEFINE a == k + 1  n == Len(channel) - k  q == Got + k
  <2>1. /\ a \in 1..Len(channel) + 1 /\ Len(channel) \in 0..Len(channel)
        /\ n \in Nat /\ n = Len(channel) - a + 1 /\ q \in Nat /\ q = Got + a - 1
    BY <1>1, <1>3
  <2> HIDE DEF a, n, q
  <2>2. /\ SubSeq(channel, a, Len(channel)) \in Seq(Units)
        /\ Len(SubSeq(channel, a, Len(channel))) = n /\ Stretch(SubSeq(channel, a, Len(channel)), q)
    BY <1>3, <1>4, <2>1, StretchPart
  <2> QED
    BY <2>2 DEF a, n, q
<1>7. ASSUME NEW i \in 1..k
      PROVE  /\ SubSeq(channel, 1, k)[i] = UnitAt(Got + i)
             /\ SubSeq(channel, 1, k)[i] = Sep <=> (Got + i) % 4 = 3
  <2>1. SubSeq(channel, 1, k)[i] = UnitAt(Got + i)
    BY <1>5 DEF Stretch
  <2> QED
    BY <1>1, <1>3, <2>1, UnitFacts
<1> QED
  BY <1>1, <1>3, <1>5, <1>6, <1>7

\* A step in which recv does not return.
LEMMA CutsKept ==
  ASSUME NEW cut \in [0..Calls -> Nat], CutAt(cut), received' = received, Returned' = Returned
  PROVE  Calls' = Calls /\ CutAt(cut)'
BY DEF CutAt, Calls

\* Every step keeps the invariant: a call that returns adds the place of the
\* separator it stopped at to the cuts.
LEMMA InvStep ==
  ASSUME ReceiverInv, [Next]_vars
  PROVE  ReceiverInv'
<1>0. TypeOK /\ InPlace /\ TypeOK'
  BY TypeStep DEF ReceiverInv
<1>a. PICK cut \in [0..Calls -> Nat] : CutAt(cut) /\ Waiting(cut)
  BY DEF ReceiverInv
<1>b. Returned \in Nat /\ Got = Returned + Len(str) + Len(buf)
  BY <1>0, <1>a, Lengths DEF CutAt, Got, Returned
<1>d. channel \in Seq(Units) /\ str \in Seq(Units) /\ buf \in Seq(Units) /\ received \in Seq(Seq(Units))
  BY <1>0 DEF TypeOK
<1>e. /\ sent \in Nat /\ Calls \in Nat /\ Len(channel) \in Nat /\ Len(str) \in Nat /\ Len(buf) \in Nat
      /\ Got \in Nat
  BY <1>0, <1>b, Lengths
<1>c. ASSUME received' = received, Returned' = Returned, InPlace', Waiting(cut)' PROVE ReceiverInv'
  BY <1>0, <1>a, <1>c, CutsKept DEF ReceiverInv
<1>1. CASE Send
  <2>1. sent + 1 \in Nat /\ sent \in Nat /\ Len(Frame(sent + 1)) = 4 /\ Stretch(Frame(sent + 1), 4 * sent)
    BY <1>0, Lengths, FrameInPlace
  <2>0. /\ ~closed /\ sent < MaxMessages /\ sent' = sent + 1 /\ channel' = channel \o Frame(sent + 1)
        /\ UNCHANGED <<waits, closed, buf, str, state, received>>
    BY <1>1 DEF Send
  <2>2. Frame(sent + 1) \in Seq(Units)
    <3>1. sent + 1 \in 1..MaxMessages
      BY <1>0, <2>0, Lengths
    <3> QED
      BY <3>1 DEF Frame, Units
  <2>3. Len(channel') = Len(channel) + 4
    <3>1. Len(channel \o Frame(sent + 1)) = Len(channel) + Len(Frame(sent + 1))
      BY <1>d, <2>2, ConcatProperties
    <3> QED
      BY <2>0, <2>1, <3>1
  <2>4. Got' = Got /\ Returned' = Returned /\ Got + Len(channel) = 4 * sent
    <3>1. sent' = sent + 1 /\ Len(buf') = Len(buf) /\ Len(str') = Len(str)
      BY <2>0
    <3>2. Got' = Got /\ Got + Len(channel) = 4 * sent
      BY <1>e, <2>3, <3>1 DEF Got
    <3>3. Returned = Got - Len(buf) - Len(str) /\ Returned' = Got' - Len(buf') - Len(str')
      BY DEF Got, Returned
    <3> QED
      BY <1>e, <3>1, <3>2, <3>3
  <2>5. Stretch(channel', Got)
    <3>1. Stretch(channel, Got) /\ Stretch(Frame(sent + 1), Got + Len(channel))
      BY <1>0, <2>1, <2>4 DEF InPlace
    <3>2. channel' = channel \o Frame(sent + 1)
      BY <2>0
    <3> QED
      BY <1>d, <1>e, <2>2, <3>1, <3>2, StretchConcat
  <2>6. InPlace'
    BY <1>0, <1>1, <2>4, <2>5 DEF Send, InPlace, Stretch
  <2>7. Waiting(cut)'
    BY <1>0, <1>1, <1>a, <2>4 DEF Send, Waiting, Calls, TypeOK
  <2> QED
    BY <1>1, <1>c, <2>4, <2>6, <2>7 DEF Send
<1>2. CASE CloseSender \/ UNCHANGED vars
  <2>1. UNCHANGED <<waits, sent, channel, buf, str, state, received>> /\ (closed => closed')
    BY <1>2 DEF CloseSender, vars
  <2>2. Returned' = Returned /\ Got' = Got /\ Calls' = Calls
    BY <2>1 DEF Returned, Got, Calls
  <2>3. InPlace'
    BY <1>0, <2>1, <2>2 DEF InPlace, Stretch
  <2>4. Waiting(cut)'
    BY <1>a, <2>1, <2>2 DEF Waiting
  <2> QED
    BY <1>c, <2>1, <2>2, <2>3, <2>4
<1>3. CASE Call
  <2>1. /\ UNCHANGED <<waits, sent, closed, channel, received>> /\ str' = buf /\ buf' = <<>>
        /\ str = <<>> /\ Len(str) = 0 /\ state' = "recv"
    BY <1>0, <1>3, Lengths DEF Call
  <2>2. Returned' = Returned /\ Got' = Got /\ Calls' = Calls /\ Returned + Len(str) = Returned
    BY <1>0, <1>b, <2>1, Lengths DEF Returned, Got, Calls
  <2>3. InPlace'
    BY <1>0, <2>1, <2>2 DEF InPlace, Stretch
  <2>4. Waiting(cut)'
    BY <1>a, <2>1, <2>2 DEF Waiting
  <2> QED
    BY <1>c, <2>1, <2>2, <2>3, <2>4
<1>4. CASE Eof
  <2>1. UNCHANGED <<waits, sent, channel, buf, str, received, closed>> /\ closed /\ channel = <<>> /\ buf = <<>>
    BY <1>0, <1>4, Lengths DEF Eof
  <2>2. Returned' = Returned /\ Got' = Got /\ Calls' = Calls
    BY <2>1 DEF Returned, Got, Calls
  <2>3. InPlace'
    BY <1>0, <2>1, <2>2 DEF InPlace, Stretch
  <2>4. Waiting(cut)'
    BY <1>a, <2>1, <2>2 DEF Waiting
  <2> QED
    BY <1>c, <2>1, <2>2, <2>3, <2>4
<1>5. ASSUME NEW k \in Arrived, ChunkWithout(k) PROVE ReceiverInv'
  <2> DEFINE chunk == SubSeq(channel, 1, k)
  <2>0. state = "recv" /\ buf = <<>> /\ Len(buf) = 0
    BY <1>0, <1>5, Lengths DEF ChunkWithout
  <2>1. /\ k \in 1..Len(channel) /\ Got \in Nat /\ Got = Returned + Len(str)
        /\ chunk \in Seq(Units) /\ Len(chunk) = k /\ Stretch(chunk, Got)
        /\ Len(channel') = Len(channel) - k /\ Stretch(channel', Got + k)
        /\ \A i \in 1..k : chunk[i] = Sep <=> (Got + i) % 4 = 3
    BY <1>5, <2>0, ChunkFacts DEF ChunkWithout
  <2>2. /\ UNCHANGED <<waits, sent, closed, buf, state, received>>
        /\ str' = str \o chunk /\ \A i \in 1..k : chunk[i] # Sep
    <3>1. NoSep(chunk) /\ str' = str \o chunk /\ UNCHANGED <<waits, sent, closed, buf, state, received>>
      BY <1>5 DEF ChunkWithout
    <3>2. DOMAIN chunk = 1..k
      <4> HIDE DEF chunk
      <4> QED
        BY <2>1
    <3> QED
      BY <3>1, <3>2 DEF NoSep
  <2> HIDE DEF chunk
  <2>3. Len(str') = Len(str) + k /\ Stretch(str', Returned)
    <3>1. Stretch(str, Returned) /\ Stretch(chunk, Returned + Len(str))
      BY <1>0, <2>1 DEF InPlace
    <3>2. chunk \in Seq(Units) /\ Returned \in Nat
      BY <1>b, <2>1
    <3>3. Stretch(str \o chunk, Returned)
      BY <1>d, <3>1, <3>2, StretchConcat
    <3>4. Len(str \o chunk) = Len(str) + Len(chunk)
      BY <1>d, <3>2, ConcatProperties
    <3> QED
      BY <2>1, <2>2, <3>3, <3>4
  <2>4. Returned' = Returned /\ Got' = Got + k /\ Calls' = Calls
    BY <1>e, <2>1, <2>2, <2>3 DEF Returned, Got, Calls
  <2>5. InPlace'
    <3>1. state' = "recv" /\ buf' = <<>> /\ Len(<<>>) = 0
      BY <2>0, <2>2
    <3> QED
      BY <2>1, <2>3, <2>4, <3>1 DEF InPlace, Stretch
  <2>6. Waiting(cut)'
    <3> SUFFICES ASSUME waits PROVE Got' < 4 * Calls + 3
      BY <1>a, <2>2, <2>4 DEF Waiting
    <3>1. Calls \in Nat /\ (4 * Calls + 3) % 4 = 3 /\ Got < 4 * Calls + 3
      BY <1>0, <1>a, Lengths DEF Waiting
    <3>2. ASSUME 4 * Calls + 3 <= Got + k PROVE FALSE
      <4>1. 4 * Calls + 3 - Got \in 1..k /\ Got + (4 * Calls + 3 - Got) = 4 * Calls + 3
        <5>1. k \in Nat
          BY <2>1
        <5> QED
          BY <1>e, <3>1, <3>2, <5>1
      <4> QED
        BY <2>1, <2>2, <3>1, <4>1
    <3> QED
      BY <2>1, <2>4, <3>1, <3>2
  <2> QED
    BY <1>c, <2>2, <2>4, <2>5, <2>6
<1>6. ASSUME NEW k \in Arrived, NEW i \in 1..k, ChunkWith(k, i) PROVE ReceiverInv'
  <2> DEFINE chunk == SubSeq(channel, 1, k)
             head == SubSeq(chunk, 1, i - 1)
             tail == SubSeq(chunk, i + 1, k)
             q == Got + i
  <2>0. state = "recv" /\ buf = <<>> /\ Len(buf) = 0
    BY <1>0, <1>6, Lengths DEF ChunkWith
  <2>1. /\ k \in 1..Len(channel) /\ Got = Returned + Len(str)
        /\ chunk \in Seq(Units) /\ Len(chunk) = k /\ Stretch(chunk, Got)
        /\ Len(channel') = Len(channel) - k /\ Stretch(channel', Got + k)
        /\ \A j \in 1..k : chunk[j] = Sep <=> (Got + j) % 4 = 3
    BY <1>6, <2>0, ChunkFacts DEF ChunkWith
  <2>2. /\ UNCHANGED <<waits, sent, closed>> /\ state' = "idle" /\ str' = <<>> /\ buf' = tail
        /\ received' = Append(received, str \o head) /\ chunk[i] = Sep
    BY <1>6 DEF ChunkWith
  <2> HIDE DEF chunk
  <2>3. /\ i \in Nat /\ k \in Nat /\ i >= 1 /\ i <= k /\ q \in Nat /\ q % 4 = 3 /\ Got + k \in Nat
        /\ i - 1 \in 0..k /\ i - 1 \in Nat /\ 1 \in 1..k + 1 /\ i + 1 \in 1..k + 1 /\ k - i \in Nat
    <3>1. k \in Nat /\ i \in 1..k
      BY <2>1
    <3>2. (Got + i) % 4 = 3
      BY <2>1, <2>2, <3>1
    <3> QED
      BY <1>e, <3>1, <3>2
  <2>4. head \in Seq(Units) /\ Len(head) = i - 1 /\ Stretch(head, Got)
    <3> DEFINE n == i - 1
    <3>1. 1 \in 1..k + 1 /\ n \in 0..k /\ n \in Nat /\ n = n - 1 + 1 /\ Got = Got + 1 - 1
      BY <1>e, <2>3
    <3>2. SubSeq(chunk, 1, n) \in Seq(Units) /\ Len(SubSeq(chunk, 1, n)) = n /\ Stretch(SubSeq(chunk, 1, n), Got)
      <4> HIDE DEF n
      <4>1. 1 \in 1..Len(chunk) + 1 /\ n \in 0..Len(chunk)
        BY <2>1, <3>1
      <4>2. chunk \in Seq(Units) /\ Stretch(chunk, Got)
        BY <2>1
      <4> QED
        BY <1>e, <3>1, <4>1, <4>2, StretchPart
    <3> QED
      BY <3>2
  <2>5. tail \in Seq(Units) /\ Len(tail) = k - i /\ Stretch(tail, q)
    <3> DEFINE a == i + 1  n == k - i
    <3>1. a \in 1..k + 1 /\ k \in 0..k /\ n \in Nat /\ n = k - a + 1 /\ q = Got + a - 1
      BY <1>e, <2>3
    <3>2. SubSeq(chunk, a, k) \in Seq(Units) /\ Len(SubSeq(chunk, a, k)) = n /\ Stretch(SubSeq(chunk, a, k), q)
      <4>0. q \in Nat
        BY <2>3
      <4> HIDE DEF a, n, q
      <4>1. a \in 1..Len(chunk) + 1 /\ k \in 0..Len(chunk) /\ n = k - a + 1
        BY <2>1, <3>1
      <4>2. chunk \in Seq(Units) /\ Stretch(chunk, Got)
        BY <2>1
      <4> QED
        BY <1>e, <3>1, <4>0, <4>1, <4>2, StretchPart
    <3> QED
      BY <3>2
  <2> HIDE DEF head, tail, q
  <2>6. /\ str \o head \in Seq(Units) /\ Len(str \o head) = Len(str) + i - 1
        /\ Stretch(str \o head, Returned)
    <3>1. Stretch(str, Returned) /\ Stretch(head, Returned + Len(str))
      BY <1>0, <2>1, <2>4 DEF InPlace
    <3>2. head \in Seq(Units)
      BY <2>4
    <3>3. str \o head \in Seq(Units) /\ Len(str \o head) = Len(str) + Len(head)
      BY <1>d, <3>2, ConcatProperties
    <3>4. Stretch(str \o head, Returned)
      BY <1>b, <1>d, <3>1, <3>2, StretchConcat
    <3>5. Len(head) = i - 1
      BY <2>4
    <3> QED
      BY <1>e, <2>3, <3>3, <3>4, <3>5
  <2>7. /\ Calls' = Calls + 1 /\ received'[Calls + 1] = str \o head
        /\ \A j \in 1..Calls : received'[j] = received[j]
    BY <1>d, <2>2, <2>6, AppendProperties DEF Calls
  <2>8. Returned' = q /\ Got' = Got + k /\ q = Returned + Len(str \o head) + 1
    <3>1. Len(str') = 0 /\ Len(buf') = k - i /\ sent' = sent
      BY <2>2, <2>5
    <3>2. Len(channel') = Len(channel) - k /\ Got = Returned + Len(str)
      BY <2>1
    <3>3. Got' = Got + k
      BY <1>e, <2>3, <3>1, <3>2 DEF Got
    <3>4. Returned' = Got' - Len(buf') - Len(str')
      BY DEF Got, Returned
    <3>5. Len(str \o head) = Len(str) + i - 1
      BY <2>6
    <3>6. q = Got + i
      BY DEF q
    <3>7. Returned' = q
      BY <1>e, <2>3, <3>1, <3>3, <3>4, <3>6
    <3> QED
      <4>1. q = Returned + Len(str \o head) + 1
        <5>1. i \in Nat /\ Returned \in Nat
          BY <1>b, <2>3
        <5> QED
          BY <1>e, <3>2, <3>5, <3>6, <5>1
      <4> QED
        BY <3>3, <3>7, <4>1
  <2>9. InPlace'
    <3>1. str' = <<>> /\ Len(str') = 0 /\ Returned' + Len(str') = q
      BY <2>2, <2>3, <2>8
    <3>2. Stretch(str', Returned') /\ Stretch(buf', q) /\ Stretch(channel', Got')
      BY <2>1, <2>2, <2>5, <2>8, <3>1 DEF Stretch
    <3> QED
      BY <2>2, <3>1, <3>2 DEF InPlace, Stretch
  <2>10. PICK new \in [0..Calls + 1 -> Nat] : /\ new[Calls + 1] = q
                                            /\ \A j \in 0..Calls : new[j] = cut[j]
    <3> DEFINE f == [j \in 0..Calls + 1 |-> IF j <= Calls THEN cut[j] ELSE q]
    <3>1. /\ f \in [0..Calls + 1 -> Nat] /\ f[Calls + 1] = q
          /\ \A j \in 0..Calls : f[j] = cut[j]
      BY <1>e, <2>3
    <3> HIDE DEF f
    <3> QED
      BY <3>1
  <2>11. CutAt(new)'
    <3>0. /\ cut[0] = 0 /\ cut[Calls] = Returned
          /\ \A j \in 1..Calls : cut[j] % 4 = 3
          /\ \A j, l \in 0..Calls : j < l => cut[j] < cut[l]
          /\ \A j \in 1..Calls : /\ Stretch(received[j], cut[j - 1])
                                 /\ cut[j] = cut[j - 1] + Len(received[j]) + 1
      BY <1>a DEF CutAt
    <3>1. new[0] = 0 /\ new[Calls'] = Returned'
      BY <1>e, <2>7, <2>8, <2>10, <3>0
    <3>2. ASSUME NEW j \in 1..Calls' PROVE new[j] % 4 = 3
      <4>1. j \in 1..Calls \/ j = Calls + 1
        BY <1>e, <2>7
      <4>2. \A l \in 1..Calls : l \in 0..Calls
        BY <1>e
      <4> QED
        BY <2>3, <2>10, <3>0, <4>1, <4>2
    <3>3. ASSUME NEW j \in 0..Calls', NEW l \in 0..Calls', j < l PROVE new[j] < new[l]
      <4>1. CASE l <= Calls
        BY <1>e, <2>10, <3>0, <3>3, <4>1
      <4>2. CASE l = Calls + 1
        <5>1. j \in 0..Calls /\ new[j] = cut[j] /\ (j = Calls \/ j < Calls)
          BY <1>e, <2>7, <2>10, <3>3, <4>2
        <5>2. cut[j] <= Returned /\ cut[j] \in Nat
          BY <1>e, <3>0, <5>1
        <5>3. Returned < q
          <6>1. q = Got + i /\ Got = Returned + Len(str)
            BY <2>1 DEF q
          <6> QED
            <7>1. i \in Nat /\ i >= 1 /\ Returned \in Nat
              BY <1>b, <2>3
            <7> QED
              BY <1>e, <6>1, <7>1
        <5>4. new[l] = q /\ q \in Nat
          BY <2>3, <2>10, <4>2
        <5> QED
          BY <1>b, <5>1, <5>2, <5>3, <5>4
      <4> QED
        BY <1>e, <2>7, <3>3, <4>1, <4>2
    <3>4. ASSUME NEW j \in 1..Calls'
          PROVE  Stretch(received'[j], new[j - 1]) /\ new[j] = new[j - 1] + Len(received'[j]) + 1
      <4>1. CASE j <= Calls
        <5>1. j \in 1..Calls /\ j - 1 \in 0..Calls /\ j \in 0..Calls
          BY <1>e, <3>4, <4>1
        <5> QED
          BY <2>7, <2>10, <3>0, <5>1
      <4>2. CASE j = Calls + 1
        <5>1. j - 1 = Calls /\ new[j - 1] = Returned
          BY <1>e, <2>10, <3>0, <4>2
        <5> QED
          BY <2>6, <2>7, <2>8, <2>10, <4>2, <5>1
      <4>3. j <= Calls \/ j = Calls + 1
        <5>1. Calls' = Calls + 1 /\ Calls \in Nat
          BY <1>e, <2>7
        <5> QED
          BY <3>4, <5>1
      <4> QED
        BY <4>1, <4>2, <4>3
    <3> QED
      BY <3>1, <3>2, <3>3, <3>4 DEF CutAt
  <2>12. Waiting(new)'
    <3> SUFFICES ASSUME waits
                 PROVE  /\ sent <= Calls' + 1 /\ Got' < 4 * Calls' + 3
                        /\ \A j \in 1..Calls' : new[j] = 4 * j - 1
      <4>1. waits' = waits /\ sent' = sent
        BY <2>2
      <4> QED
        BY <4>1 DEF Waiting
    <3>0. sent <= Calls + 1 /\ Got < 4 * Calls + 3 /\ \A j \in 1..Calls : cut[j] = 4 * j - 1
      BY <1>a DEF Waiting
    <3>1. Got + k <= 4 * sent
      BY <1>e, <2>1 DEF Got
    <3>2. sent <= Calls' + 1 /\ Got' < 4 * Calls' + 3
      <4>1. Calls' = Calls + 1 /\ Got' = Got + k
        BY <2>7, <2>8
      <4>2. k \in Nat
        BY <2>3
      <4> QED
        BY <1>e, <3>0, <3>1, <4>1, <4>2
    <3>3. q = 4 * Calls + 3
      <4>1. q <= 4 * Calls + 4 /\ q > 4 * Calls - 1
        <5>1. Returned >= 4 * Calls - 1
          <6>1. CASE Calls = 0
            BY <1>b, <6>1
          <6>2. CASE Calls # 0
            <7>1. Calls \in 1..Calls
              BY <1>e, <6>2
            <7> QED
              BY <1>a, <1>e, <3>0, <7>1 DEF CutAt
          <6> QED
            BY <6>1, <6>2
        <5>2. q = Got + i /\ Got = Returned + Len(str) /\ i >= 1 /\ i <= k
          BY <1>e, <2>1 DEF q
        <5> QED
          <6>1. i \in Nat /\ k \in Nat /\ Returned \in Nat
            BY <1>b, <2>3
          <6>2. q <= Got + k /\ q > Returned
            <7>1. Got \in Nat /\ Len(str) \in Nat
              BY <1>e
            <7> QED
              BY <5>2, <6>1, <7>1
          <6>3. q \in Nat
            BY <2>3
          <6>4. sent \in Nat /\ Calls \in Nat /\ Got \in Nat
            BY <1>e
          <6>5. Got + k <= 4 * Calls + 4
            BY <3>0, <3>1, <6>1, <6>4
          <6>6. Got + k \in Nat
            BY <6>1, <6>4
          <6> QED
            BY <5>1, <6>1, <6>2, <6>3, <6>4, <6>5, <6>6
      <4>2. q \in Nat /\ q % 4 = 3
        BY <2>3
      <4>3. Calls \in Nat
        BY <1>e
      <4> QED
        BY <4>1, <4>2, <4>3
    <3>4. ASSUME NEW j \in 1..Calls' PROVE new[j] = 4 * j - 1
      <4>1. CASE j <= Calls
        BY <1>e, <2>7, <2>10, <3>0, <4>1
      <4>2. CASE j = Calls + 1
        BY <1>e, <2>10, <3>3, <4>2
      <4>3. j <= Calls \/ j = Calls + 1
        <5>1. Calls' = Calls + 1 /\ Calls \in Nat
          BY <1>e, <2>7
        <5> QED
          BY <3>4, <5>1
      <4> QED
        BY <4>1, <4>2, <4>3
    <3> QED
      BY <3>2, <3>4
  <2> QED
    <3>1. new \in [0..Calls' -> Nat]
      BY <2>7, <2>10
    <3> QED
      BY <1>0, <2>9, <2>11, <2>12, <3>1 DEF ReceiverInv
<1> QED
  BY <1>1, <1>2, <1>3, <1>4, <1>5, <1>6 DEF Next, Receive

\* The invariant holds for any number of messages and any size of the chunks:
\* recv cuts the stream at places of separators, and keeps all that is behind.
THEOREM ReceiverInvariant == Spec => []ReceiverInv
<1>1. Init => ReceiverInv
  BY InitInv
<1>2. ReceiverInv /\ [Next]_vars => ReceiverInv'
  BY InvStep
<1> QED
  BY <1>1, <1>2, PTL DEF Spec

\* The variables of the framing have their types; what recv has set aside is
\* empty while it waits, and its local string while it is not called.
THEOREM TypeCorrect == Spec => []TypeOK
<1>1. ReceiverInv => TypeOK
  BY DEF ReceiverInv
<1> QED
  BY <1>1, ReceiverInvariant, PTL

-----------------------------------------------------------------------------
(* What the calls return.                                                  *)

\* What a call returned begins, but for a Nul, with the header of the message
\* that follows the cut before.
LEMMA HeaderOf ==
  ASSUME TypeOK, NEW cut \in [0..Calls -> Nat], CutAt(cut), NEW i \in 1..Calls
  PROVE  Header(received[i]) = Seps(cut[i - 1]) + 1
<1> DEFINE a == cut[i - 1]
<1>1. i - 1 \in 0..Calls /\ i \in 0..Calls /\ Calls \in Nat
  BY Lengths
<1>2. a \in Nat /\ cut[i] \in Nat /\ a < cut[i] /\ (a = 0 \/ a % 4 = 3) /\ cut[i] % 4 = 3
  <2>1. i - 1 = 0 \/ i - 1 \in 1..Calls
    BY <1>1
  <2> QED
    BY <1>1, <2>1 DEF CutAt
<1>3. Stretch(received[i], a) /\ cut[i] = a + Len(received[i]) + 1 /\ Len(received[i]) \in Nat
  BY Lengths DEF CutAt, TypeOK, Calls
<1> HIDE DEF a
<1>4. Len(received[i]) >= 2
  <2>1. cut[i] >= a + 3
    BY <1>2, CutsApart
  <2> QED
    BY <1>2, <1>3, <2>1
<1>5. received[i][1] = UnitAt(a + 1) /\ received[i][2] = UnitAt(a + 2)
  BY <1>3, <1>4 DEF Stretch
<1>6. CASE a = 0
  <2>1. UnitAt(a + 1) = Unit(1, "header")
    BY <1>6 DEF UnitAt
  <2> QED
    BY <1>4, <1>5, <1>6, <2>1 DEF Header, Unit, Seps, a
<1>7. CASE a % 4 = 3
  <2>1. (a + 1) % 4 = 0 /\ (a + 2) % 4 = 1 /\ (a + 2 + 3) \div 4 = Seps(a) + 1
    BY <1>2, <1>7 DEF Seps
  <2>2. UnitAt(a + 1) = Nul /\ UnitAt(a + 2) = Unit(Seps(a) + 1, "header")
    BY <2>1 DEF UnitAt
  <2> QED
    BY <1>4, <1>5, <2>2 DEF Header, Unit, Nul, a
<1> QED
  BY <1>2, <1>6, <1>7

\* The invariant implies HeadersInOrder.
LEMMA Headers ==
  ASSUME ReceiverInv
  PROVE  HeadersInOrder
<1>0. TypeOK
  BY DEF ReceiverInv
<1>1. PICK cut \in [0..Calls -> Nat] : CutAt(cut)
  BY DEF ReceiverInv
<1>2. Calls \in Nat /\ DOMAIN received = 1..Calls
  BY <1>0 DEF TypeOK, Calls
<1>3. \A i \in 1..Calls : i - 1 \in 0..Calls /\ cut[i - 1] \in Nat
  BY <1>2
<1>4. \A i \in 1..Calls : Header(received[i]) = Seps(cut[i - 1]) + 1
  BY <1>0, <1>1, HeaderOf
<1>5. ASSUME NEW i \in 1..Calls PROVE Header(received[i]) # 0
  BY <1>3, <1>4 DEF Seps
<1>6. ASSUME NEW i \in 1..Calls, NEW j \in 1..Calls, i < j
      PROVE  Header(received[i]) < Header(received[j])
  <2>1. cut[i - 1] < cut[j - 1]
    BY <1>1, <1>2, <1>3, <1>6 DEF CutAt
  <2>2. cut[j - 1] % 4 = 3
    <3>1. j - 1 \in 1..Calls
      BY <1>2, <1>6
    <3> QED
      BY <1>1, <3>1 DEF CutAt
  <2>3. Seps(cut[i - 1]) < Seps(cut[j - 1])
    BY <1>3, <2>1, <2>2, CutsApart
  <2>4. Seps(cut[i - 1]) \in Nat /\ Seps(cut[j - 1]) \in Nat
    BY <1>3 DEF Seps
  <2> QED
    BY <1>4, <2>3, <2>4
<1> QED
  BY <1>2, <1>5, <1>6 DEF HeadersInOrder

\* The invariant implies OneByOne.
LEMMA OnePerCall ==
  ASSUME ReceiverInv
  PROVE  OneByOne
<1> SUFFICES ASSUME waits, NEW i \in DOMAIN received PROVE Header(received[i]) = i
  BY DEF OneByOne
<1>0. TypeOK
  BY DEF ReceiverInv
<1>1. PICK cut \in [0..Calls -> Nat] : CutAt(cut) /\ Waiting(cut)
  BY DEF ReceiverInv
<1>2. Calls \in Nat /\ i \in 1..Calls
  BY <1>0 DEF TypeOK, Calls
<1>3. Header(received[i]) = Seps(cut[i - 1]) + 1
  BY <1>0, <1>1, <1>2, HeaderOf
<1>4. CASE i = 1
  <2>1. cut[i - 1] = 0
    BY <1>1, <1>4 DEF CutAt
  <2> QED
    BY <1>3, <1>4, <2>1 DEF Seps
<1>5. CASE i - 1 \in 1..Calls
  <2>1. cut[i - 1] = 4 * (i - 1) - 1
    BY <1>1, <1>5 DEF Waiting
  <2>2. Seps(4 * (i - 1) - 1) = i - 1
    BY <1>2 DEF Seps
  <2> QED
    BY <1>2, <1>3, <2>1, <2>2
<1> QED
  BY <1>2, <1>4, <1>5

\* The invariant implies NothingDiscarded.
LEMMA NoneDiscarded ==
  ASSUME ReceiverInv
  PROVE  NothingDiscarded
<1> SUFFICES ASSUME waits, state = "eof", NEW i \in DOMAIN str PROVE str[i].part # "header"
  BY DEF NothingDiscarded
<1>0. TypeOK /\ InPlace
  BY DEF ReceiverInv
<1>1. PICK cut \in [0..Calls -> Nat] : CutAt(cut) /\ Waiting(cut)
  BY DEF ReceiverInv
<1>2. Calls \in Nat /\ sent \in Nat /\ Len(str) \in Nat /\ i \in 1..Len(str)
  BY <1>0, Lengths DEF TypeOK
<1>3. Len(buf) = 0 /\ Len(channel) = 0
  <2>1. buf = <<>> /\ channel = <<>> /\ Len(<<>>) = 0
    BY <1>0 DEF InPlace
  <2> QED
    BY <2>1
<1>4. Got = 4 * sent /\ Returned = 4 * sent - Len(str)
  BY <1>2, <1>3 DEF Got, Returned
<1>5. sent <= Calls
  BY <1>1, <1>2, <1>4 DEF Waiting
<1>6. Returned = cut[Calls] /\ cut[0] = 0 /\ (Calls \in 1..Calls => cut[Calls] = 4 * Calls - 1)
  BY <1>1 DEF CutAt, Waiting
<1>7. Calls > 0 /\ i = 1 /\ Returned = 4 * Calls - 1
  BY <1>2, <1>4, <1>5, <1>6
<1>8. str[i] = UnitAt(Returned + i) /\ Returned + i = 4 * Calls
  BY <1>0, <1>2, <1>7 DEF InPlace, Stretch
<1>9. UnitAt(4 * Calls) = Nul
  BY <1>2, UnitFacts
<1> QED
  BY <1>8, <1>9 DEF Nul, Unit

\* Whatever the pace of the sender and the sizes of what ::recv returns, the
\* content of every call begins with a message, and no message is taken twice
\* or out of order.
THEOREM HeadersInOrderCorrect == Spec => []HeadersInOrder
<1>1. ReceiverInv => HeadersInOrder
  BY Headers
<1> QED
  BY <1>1, ReceiverInvariant, PTL

\* A sender that waits for each of its messages to be received, as client and
\* server do for a request and its answer, has every call of recv return
\* exactly the next message, in spite of the NULs between them.
THEOREM OneByOneCorrect == Spec => []OneByOne
<1>1. ReceiverInv => OneByOne
  BY OnePerCall
<1> QED
  BY <1>1, ReceiverInvariant, PTL

\* When such a sender closes the connection, what recv drops at the end of
\* file holds no header of a message.
THEOREM NothingDiscardedCorrect == Spec => []NothingDiscarded
<1>1. ReceiverInv => NothingDiscarded
  BY NoneDiscarded
<1> QED
  BY <1>1, ReceiverInvariant, PTL

-----------------------------------------------------------------------------
(* Joining sequences.                                                      *)

\* Induction over the natural numbers, by their smallest element.
LEMMA NatLess == IsWellFoundedOn({p \in Nat \X Nat : p[1] < p[2]}, Nat)
BY NatLessThanWellFounded DEF OpToRel

\* A set of natural numbers has a smallest element.
LEMMA LeastIn ==
  ASSUME NEW S \in SUBSET Nat, S # {}
  PROVE  \E x \in S : \A y \in S : x <= y
<1> DEFINE R == {p \in Nat \X Nat : p[1] < p[2]}
<1>1. PICK x \in S : \A y \in S : <<y, x>> \notin R
  <2> HIDE DEF R
  <2>1. IsWellFoundedOn(R, Nat)
    BY NatLess DEF R
  <2> QED
    BY <2>1, WFMin
<1>2. ASSUME NEW y \in S PROVE x <= y
  <2>1. <<y, x>> \notin R /\ <<y, x>> \in Nat \X Nat
    BY <1>1
  <2> QED
    BY <2>1
<1> QED
  BY <1>2

\* FlattenSeq gives what f gives that joins one sequence after the other.
LEMMA FlattenIs ==
  ASSUME NEW S, NEW seqs \in Seq(Seq(S)), NEW f,
         f[0] = <<>>, \A i \in 1..Len(seqs) : f[i] = f[i - 1] \o seqs[i]
  PROVE  FlattenSeq(seqs) = f[Len(seqs)]
<1> DEFINE n == Len(seqs)
           Step(g, i) == IF i = 1 THEN seqs[i] ELSE g[i - 1] \o seqs[i]
           Flattens(g) == g = [i \in 1..n |-> Step(g, i)]
<1>0. n \in Nat /\ \A i \in 1..n : seqs[i] \in Seq(S)
  OBVIOUS
<1>1. CASE n = 0
  <2>1. seqs = <<>>
    BY <1>1, EmptySeq
  <2> QED
    BY <1>1, <2>1 DEF FlattenSeq
<1>2. CASE n # 0
  <2>1. \A i \in 1..n : f[i] = Step(f, i)
    <3>1. f[1] = seqs[1]
      <4>1. 1 \in 1..n /\ 1 - 1 = 0
        BY <1>0, <1>2
      <4>2. f[1] = <<>> \o seqs[1]
        BY <4>1
      <4> QED
        BY <1>0, <4>1, <4>2, ConcatEmptySeq
    <3> QED
      BY <1>0, <3>1
  <2>2. Flattens([i \in 1..n |-> f[i]])
    <3> DEFINE g == [i \in 1..n |-> f[i]]
    <3>1. ASSUME NEW i \in 1..n PROVE Step(g, i) = f[i]
      <4>1. i = 1 \/ i - 1 \in 1..n
        BY <1>0
      <4>2. g[i - 1] = f[i - 1] \/ i = 1
        BY <4>1
      <4> QED
        BY <2>1, <4>2
    <3> HIDE DEF Step
    <3> QED
      BY <3>1
  <2> DEFINE h == CHOOSE g : Flattens(g)
  <2>3. Flattens(h)
    <3> HIDE DEF Flattens
    <3> QED
      BY <2>2
  <2>4. FlattenSeq(seqs) = h[n]
    BY <1>2 DEF FlattenSeq
  <2> HIDE DEF h
  <2>5. \A i \in 1..n : h[i] = Step(h, i)
    BY <2>3
  <2>6. \A i \in 1..n : h[i] = f[i]
    <3> DEFINE Wrong == {i \in 1..n : h[i] # f[i]}
    <3>1. SUFFICES ASSUME Wrong # {} PROVE FALSE
      OBVIOUS
    <3>2. PICK i \in Wrong : \A j \in Wrong : i <= j
      <4>1. Wrong \in SUBSET Nat
        BY <1>0
      <4> HIDE DEF Wrong
      <4> QED
        BY <3>1, <4>1, LeastIn
    <3>3. i = 1 \/ (i - 1 \in 1..n /\ i - 1 \notin Wrong)
      BY <1>0, <3>2
    <3>4. h[i] = f[i]
      BY <2>1, <2>5, <3>2, <3>3
    <3> QED
      BY <3>2, <3>4
  <2>7. n \in 1..n
    BY <1>0, <1>2
  <2> QED
    BY <2>4, <2>6, <2>7
<1> QED
  BY <1>1, <1>2

-----------------------------------------------------------------------------
(* Nothing is lost.                                                        *)

\* The first p units of the stream.
First(p) == [k \in 1..p |-> UnitAt(k)]

\* The first p units of the stream.
LEMMA FirstUnits ==
  ASSUME NEW p \in Nat
  PROVE  First(p) \in Seq({UnitAt(k) : k \in Nat}) /\ Len(First(p)) = p /\ First(0) = <<>>
<1>1. First(p) \in [1..p -> {UnitAt(k) : k \in Nat}]
  BY DEF First
<1>2. First(p) \in Seq({UnitAt(k) : k \in Nat})
  BY <1>1, SeqDef
<1>3. Len(First(p)) = p
  BY <1>1
<1>4. First(0) \in [1..0 -> {}]
  BY DEF First
<1>5. First(0) \in Seq({}) /\ Len(First(0)) = 0
  BY <1>4, SeqDef
<1> QED
  BY <1>2, <1>3, <1>5, EmptySeq

\* They are continued by the stretch behind them.
LEMMA FirstConcat ==
  ASSUME NEW S, NEW s \in Seq(S), NEW p \in Nat, Stretch(s, p)
  PROVE  First(p) \o s = First(p + Len(s))
<1> DEFINE T == {UnitAt(k) : k \in Nat}  q == p + Len(s)
<1>1. Len(s) \in Nat /\ q \in Nat
  OBVIOUS
<1>2. s \in Seq(T)
  <2>1. \A k \in 1..Len(s) : s[k] \in T
    BY <1>1 DEF Stretch
  <2>2. s \in [1..Len(s) -> T]
    BY <2>1, LenProperties
  <2> HIDE DEF T
  <2> QED
    BY <1>1, <2>2, SeqDef
<1>3. First(p) \in Seq(T) /\ First(q) \in Seq(T) /\ Len(First(p)) = p /\ Len(First(q)) = q
  BY <1>1, FirstUnits
<1>4. /\ First(p) \o s \in Seq(T) /\ Len(First(p) \o s) = Len(First(p)) + Len(s)
      /\ \A k \in 1..Len(First(p)) + Len(s) :
           (First(p) \o s)[k] = IF k <= Len(First(p)) THEN First(p)[k] ELSE s[k - Len(First(p))]
  <2> HIDE DEF T
  <2> QED
    BY <1>2, <1>3, ConcatProperties
<1>5. Len(First(p) \o s) = q
  BY <1>3, <1>4
<1>6. ASSUME NEW k \in 1..q PROVE (First(p) \o s)[k] = First(q)[k]
  <2>1. (First(p) \o s)[k] = IF k <= p THEN First(p)[k] ELSE s[k - p]
    BY <1>1, <1>3, <1>4, <1>6
  <2>2. First(q)[k] = UnitAt(k)
    BY DEF First
  <2>3. CASE k <= p
    <3>1. First(p)[k] = UnitAt(k)
      BY <1>1, <2>3 DEF First
    <3> QED
      BY <2>1, <2>2, <2>3, <3>1
  <2>4. CASE k > p
    <3>1. k - p \in 1..Len(s) /\ p + (k - p) = k
      BY <1>1, <2>4
    <3>2. s[k - p] = UnitAt(k)
      BY <3>1 DEF Stretch
    <3>3. ~(k <= p)
      BY <1>1, <2>4
    <3> QED
      BY <2>1, <2>2, <3>2, <3>3
  <2>5. k <= p \/ k > p
    <3>1. k \in Nat
      BY <1>1
    <3> QED
      BY <3>1
  <2> QED
    BY <2>3, <2>4, <2>5
<1> HIDE DEF q, T
<1>7. First(p) \o s = First(q)
  BY <1>3, <1>4, <1>5, <1>6, SeqEqual
<1> QED
  BY <1>7 DEF q

\* What the calls returned, with the separators, is the stream up to the last
\* cut.
LEMMA ReturnedUnits ==
  ASSUME TypeOK, NEW cut \in [0..Calls -> Nat], CutAt(cut)
  PROVE  FlattenSeq([i \in DOMAIN received |-> Append(received[i], Sep)]) = First(Returned)
<1> DEFINE seqs == [i \in DOMAIN received |-> Append(received[i], Sep)]
           f == [i \in 0..Calls |-> First(cut[i])]
<1>0. /\ Calls \in Nat /\ DOMAIN received = 1..Calls
      /\ \A i \in 1..Calls : received[i] \in Seq(Units) /\ Len(received[i]) \in Nat
  BY DEF TypeOK, Calls
<1>1. Sep \in Units
  BY DEF Units
<1>2. /\ seqs \in Seq(Seq(Units)) /\ Len(seqs) = Calls
      /\ \A i \in 1..Calls : seqs[i] = Append(received[i], Sep)
  <2>1. \A i \in 1..Calls : Append(received[i], Sep) \in Seq(Units)
    BY <1>0, <1>1, AppendProperties
  <2>2. seqs \in [1..Calls -> Seq(Units)] /\ \A i \in 1..Calls : seqs[i] = Append(received[i], Sep)
    BY <1>0, <2>1
  <2> HIDE DEF seqs
  <2> QED
    BY <1>0, <2>2, SeqDef
<1>3. f[0] = <<>>
  <2>1. f[0] = First(0)
    BY <1>0 DEF CutAt
  <2> QED
    BY <2>1, FirstUnits
<1>4. ASSUME NEW i \in 1..Calls PROVE f[i] = f[i - 1] \o seqs[i]
  <2> DEFINE s == Append(received[i], Sep)  p == cut[i - 1]
  <2>1. i - 1 \in 0..Calls /\ i \in 0..Calls /\ p \in Nat
    BY <1>0
  <2>2. /\ Stretch(received[i], p) /\ cut[i] = p + Len(received[i]) + 1 /\ cut[i] % 4 = 3
    BY DEF CutAt
  <2>3. /\ s \in Seq(Units) /\ Len(s) = Len(received[i]) + 1 /\ s[Len(received[i]) + 1] = Sep
        /\ \A k \in 1..Len(received[i]) : s[k] = received[i][k]
    BY <1>0, <1>1, AppendProperties
  <2>4. UnitAt(cut[i]) = Sep
    BY <2>1, <2>2, UnitFacts
  <2> HIDE DEF s, p
  <2>5. Stretch(s, p)
    <3> SUFFICES ASSUME NEW k \in 1..Len(s) PROVE s[k] = UnitAt(p + k)
      BY DEF Stretch
    <3>1. CASE k \in 1..Len(received[i])
      BY <2>2, <2>3, <3>1 DEF Stretch
    <3>2. CASE k = Len(received[i]) + 1
      <4>1. p + k = cut[i]
        BY <1>0, <2>1, <2>2, <3>2
      <4> QED
        BY <2>3, <2>4, <3>2, <4>1
    <3> QED
      BY <1>0, <2>3, <3>1, <3>2
  <2>6. First(p) \o s = First(p + Len(s))
    BY <2>1, <2>3, <2>5, FirstConcat
  <2>7. p + Len(s) = cut[i]
    BY <1>0, <2>1, <2>2, <2>3
  <2>8. f[i] = First(cut[i]) /\ f[i - 1] = First(p)
    BY <2>1 DEF p
  <2> QED
    BY <1>2, <2>6, <2>7, <2>8 DEF s
<1> HIDE DEF seqs, f
<1>5. FlattenSeq(seqs) = f[Calls]
  BY <1>2, <1>3, <1>4, FlattenIs
<1>6. f[Calls] = First(Returned)
  BY <1>0 DEF f, CutAt
<1> QED
  BY <1>5, <1>6 DEF seqs

\* What was sent is the stream up to the end of the last message.
LEMMA SentUnits ==
  ASSUME TypeOK
  PROVE  FlattenSeq([n \in 1..sent |-> Frame(n)]) = First(4 * sent)
<1> DEFINE seqs == [n \in 1..sent |-> Frame(n)]
           f == [n \in 0..sent |-> First(4 * n)]
<1>0. sent \in Nat /\ sent <= MaxMessages /\ MaxMessages \in Nat
  BY NetReceiverAssumption DEF TypeOK
<1>1. ASSUME NEW n \in 1..sent PROVE Frame(n) \in Seq(Units) /\ Len(Frame(n)) = 4 /\ Stretch(Frame(n), 4 * (n - 1))
  <2>1. n \in 1..MaxMessages /\ n - 1 \in Nat /\ n - 1 + 1 = n
    BY <1>0
  <2>2. Frame(n) \in Seq(Units)
    BY <2>1 DEF Frame, Units
  <2>3. Len(Frame(n - 1 + 1)) = 4 /\ Stretch(Frame(n - 1 + 1), 4 * (n - 1))
    BY <2>1, FrameInPlace
  <2> QED
    BY <2>1, <2>2, <2>3
<1>2. /\ seqs \in Seq(Seq(Units)) /\ Len(seqs) = sent
      /\ \A n \in 1..sent : seqs[n] = Frame(n)
  <2>2. seqs \in [1..sent -> Seq(Units)] /\ \A n \in 1..sent : seqs[n] = Frame(n)
    BY <1>0, <1>1
  <2> HIDE DEF seqs
  <2> QED
    BY <1>0, <2>2, SeqDef
<1>3. f[0] = <<>>
  <2>1. f[0] = First(0)
    BY <1>0
  <2> QED
    BY <2>1, FirstUnits
<1>4. ASSUME NEW n \in 1..sent PROVE f[n] = f[n - 1] \o seqs[n]
  <2> DEFINE p == 4 * (n - 1)
  <2>1. n - 1 \in 0..sent /\ n \in 0..sent /\ p \in Nat /\ p + 4 = 4 * n
    BY <1>0
  <2> HIDE DEF p
  <2>2. First(p) \o Frame(n) = First(p + Len(Frame(n)))
    <3>1. Frame(n) \in Seq(Units) /\ Stretch(Frame(n), p)
      BY <1>1 DEF p
    <3> QED
      BY <2>1, <3>1, FirstConcat
  <2>3. p + Len(Frame(n)) = 4 * n
    BY <1>1, <2>1
  <2>4. f[n] = First(4 * n) /\ f[n - 1] = First(p)
    BY <2>1 DEF p
  <2> QED
    BY <1>2, <2>2, <2>3, <2>4
<1> HIDE DEF seqs, f
<1>5. FlattenSeq(seqs) = f[sent]
  BY <1>2, <1>3, <1>4, FlattenIs
<1>6. f[sent] = First(4 * sent)
  BY <1>0 DEF f
<1> QED
  BY <1>5, <1>6 DEF seqs

\* The invariant implies Conservation.
LEMMA Conserved ==
  ASSUME ReceiverInv
  PROVE  Conservation
<1>0. TypeOK /\ InPlace
  BY DEF ReceiverInv
<1>1. PICK cut \in [0..Calls -> Nat] : CutAt(cut)
  BY DEF ReceiverInv
<1>2. channel \in Seq(Units) /\ str \in Seq(Units) /\ buf \in Seq(Units)
  BY <1>0 DEF TypeOK
<1>3. /\ sent \in Nat /\ Len(channel) \in Nat /\ Len(str) \in Nat /\ Len(buf) \in Nat
      /\ Calls \in Nat /\ Returned \in Nat
  BY <1>0, <1>1, Lengths DEF CutAt
<1>4. First(Returned) \o str = First(Returned + Len(str))
  BY <1>0, <1>2, <1>3, FirstConcat DEF InPlace
<1>5. First(Returned + Len(str)) \o buf = First(Got)
  <2>1. Returned + Len(str) \in Nat /\ Returned + Len(str) + Len(buf) = Got
    BY <1>3 DEF Returned, Got
  <2>2. First(Returned + Len(str)) \o buf = First(Returned + Len(str) + Len(buf))
    BY <1>0, <1>2, <2>1, FirstConcat DEF InPlace
  <2> QED
    BY <2>1, <2>2
<1>6. First(Got) \o channel = First(4 * sent)
  <2>1. Got \in Nat /\ Got + Len(channel) = 4 * sent
    BY <1>3 DEF Returned, Got
  <2>2. First(Got) \o channel = First(Got + Len(channel))
    BY <1>0, <1>2, <2>1, FirstConcat DEF InPlace
  <2> QED
    BY <2>1, <2>2
<1>7. FlattenSeq([i \in DOMAIN received |-> Append(received[i], Sep)]) = First(Returned)
  BY <1>0, <1>1, ReturnedUnits
<1>8. FlattenSeq([n \in 1..sent |-> Frame(n)]) = First(4 * sent)
  BY <1>0, SentUnits
<1> QED
  BY <1>4, <1>5, <1>6, <1>7, <1>8 DEF Conservation

\* No unit is lost, doubled or moved between send, the connection, what recv
\* holds between two calls and within one, and what it returned.
THEOREM ConservationCorrect == Spec => []Conservation
<1>1. ReceiverInv => Conservation
  BY Conserved
<1> QED
  BY <1>1, ReceiverInvariant, PTL

-----------------------------------------------------------------------------
(* The messages in the stream.                                             *)

\* The messages a + 1 to b in a row.
Run(a, b) == [k \in 1..b - a |-> a + k]

\* The numbers from a + 1 to b, in order.
LEMMA RunFacts ==
  ASSUME NEW a \in Nat, NEW b \in Nat, a <= b
  PROVE  /\ Run(a, b) \in Seq(Nat) /\ Len(Run(a, b)) = b - a
         /\ \A k \in 1..b - a : Run(a, b)[k] = a + k
<1>1. b - a \in Nat /\ Run(a, b) \in [1..b - a -> Nat]
  BY DEF Run
<1>2. Run(a, b) \in Seq(Nat)
  BY <1>1, SeqDef
<1>3. Len(Run(a, b)) = b - a
  BY <1>1
<1> QED
  BY <1>2, <1>3 DEF Run

\* A run is continued by its next number.
LEMMA RunAppend ==
  ASSUME NEW a \in Nat, NEW b \in Nat, a <= b
  PROVE  Append(Run(a, b), b + 1) = Run(a, b + 1)
<1> DEFINE c == b + 1  n == b - a
<1>1. c \in Nat /\ a <= c /\ n \in Nat /\ c - a = n + 1
  OBVIOUS
<1>2. /\ Run(a, b) \in Seq(Nat) /\ Len(Run(a, b)) = n
      /\ \A k \in 1..n : Run(a, b)[k] = a + k
  BY RunFacts
<1>3. /\ Run(a, c) \in Seq(Nat) /\ Len(Run(a, c)) = c - a
      /\ \A k \in 1..c - a : Run(a, c)[k] = a + k
  <2> HIDE DEF c
  <2> QED
    BY <1>1, RunFacts
<1>4. /\ Append(Run(a, b), c) \in Seq(Nat) /\ Len(Append(Run(a, b), c)) = n + 1
      /\ Append(Run(a, b), c)[n + 1] = c
      /\ \A k \in 1..n : Append(Run(a, b), c)[k] = Run(a, b)[k]
  <2> HIDE DEF c, n
  <2> QED
    BY <1>1, <1>2, AppendProperties
<1> HIDE DEF c, n
<1>5. ASSUME NEW k \in 1..n + 1 PROVE Append(Run(a, b), c)[k] = Run(a, c)[k]
  <2>1. CASE k \in 1..n
    BY <1>1, <1>2, <1>3, <1>4, <2>1
  <2>2. CASE k = n + 1
    <3>1. Run(a, c)[k] = a + k /\ a + k = c
      BY <1>1, <1>3, <2>2
    <3> QED
      BY <1>4, <2>2, <3>1
  <2>3. k \in 1..n \/ k = n + 1
    BY <1>1
  <2> QED
    BY <2>1, <2>2, <2>3
<1>6. Append(Run(a, b), c) = Run(a, c)
  BY <1>1, <1>3, <1>4, <1>5, SeqEqual
<1> QED
  BY <1>6 DEF c

\* A part of a run is a run.
LEMMA RunPart ==
  ASSUME NEW a \in Nat, NEW b \in Nat, a <= b, NEW x \in Nat, NEW y \in Nat, 1 <= x, x <= y + 1, y <= b - a
  PROVE  SubSeq(Run(a, b), x, y) = Run(a + x - 1, a + y)
<1> DEFINE s == SubSeq(Run(a, b), x, y)  c == a + x - 1  d == a + y
<1>1. /\ Run(c, d) \in Seq(Nat) /\ Len(Run(c, d)) = d - c
      /\ \A k \in 1..d - c : Run(c, d)[k] = c + k
  <2>1. c \in Nat /\ d \in Nat /\ c <= d
    OBVIOUS
  <2> HIDE DEF c, d
  <2> QED
    BY <2>1, RunFacts
<1>2. \A k \in x..y : k \in 1..b - a /\ Run(a, b)[k] = a + k /\ Run(a, b)[k] \in Nat
  <2>1. \A k \in x..y : k \in 1..b - a /\ a + k \in Nat
    OBVIOUS
  <2>2. \A k \in 1..b - a : Run(a, b)[k] = a + k
    BY RunFacts
  <2> QED
    BY <2>1, <2>2
<1>3. /\ s \in Seq(Nat) /\ Len(s) = IF x <= y THEN y - x + 1 ELSE 0
      /\ \A k \in 1..y - x + 1 : s[k] = Run(a, b)[x + k - 1]
  BY <1>2, SubSeqProperties
<1> HIDE DEF s
<1>4. Len(s) = d - c /\ d - c \in Nat /\ d - c = y - x + 1
  BY <1>3
<1>5. ASSUME NEW k \in 1..d - c PROVE s[k] = Run(c, d)[k]
  <2>1. x + k - 1 \in x..y /\ a + (x + k - 1) = c + k
    BY <1>4
  <2>2. s[k] = Run(a, b)[x + k - 1]
    BY <1>3, <1>4
  <2> QED
    BY <1>1, <1>2, <2>1, <2>2
<1> QED
  BY <1>1, <1>3, <1>4, <1>5, SeqEqual DEF s

\* How many separators a stretch has.
LEMMA SepsCounted ==
  ASSUME NEW S, NEW s \in Seq(S), NEW p \in Nat, Stretch(s, p)
  PROVE  CountSeps(s) = Seps(p + Len(s)) - Seps(p)
<1> DEFINE q == p + Len(s)
           A == Seps(p) + 1..Seps(q)
           B == {k \in DOMAIN s : s[k] = Sep}
           f == [m \in A |-> 4 * m - 1 - p]
<1>1. Len(s) \in Nat /\ q \in Nat /\ Seps(p) \in Nat /\ Seps(q) \in Nat /\ Seps(p) <= Seps(q)
  BY DEF Seps
<1>2. B = {k \in 1..Len(s) : (p + k) % 4 = 3}
  <2>1. ASSUME NEW k \in 1..Len(s) PROVE s[k] = Sep <=> (p + k) % 4 = 3
    <3>1. s[k] = UnitAt(p + k) /\ p + k \in Nat
      BY <1>1 DEF Stretch
    <3> QED
      BY <3>1, UnitFacts
  <2>2. DOMAIN s = 1..Len(s)
    OBVIOUS
  <2> QED
    BY <2>1, <2>2
<1>3. ASSUME NEW m \in A PROVE f[m] = 4 * m - 1 - p /\ f[m] \in B
  <2>1. 4 * m - 1 - p \in 1..Len(s) /\ (p + (4 * m - 1 - p)) % 4 = 3
    <3>1. m \in Nat /\ p + (4 * m - 1 - p) = 4 * m - 1 /\ (4 * m - 1) % 4 = 3
      BY <1>1
    <3>2. 4 * m - 1 > p /\ 4 * m - 1 <= q
      BY <1>1, <3>1 DEF Seps
    <3> QED
      BY <1>1, <3>1, <3>2
  <2> QED
    BY <1>2, <2>1
<1>4. ASSUME NEW k \in B PROVE \E m \in A : f[m] = k
  <2>1. k \in 1..Len(s) /\ (p + k) % 4 = 3
    BY <1>2
  <2> DEFINE m == (p + k + 1) \div 4
  <2>2. m \in A /\ 4 * m - 1 - p = k
    <3>1. k \in Nat /\ 1 <= k /\ k <= Len(s)
      BY <1>1, <2>1
    <3>2. m \in Nat /\ 4 * m = p + k + 1
      BY <2>1, <3>1
    <3>3. 4 * m - 1 - p = k /\ 4 * m > p + 1 /\ 4 * m <= q + 1
      BY <1>1, <3>1, <3>2
    <3> HIDE DEF m, q
    <3>4. m > Seps(p) /\ m <= Seps(q)
      BY <1>1, <3>2, <3>3 DEF Seps
    <3> QED
      BY <1>1, <3>2, <3>3, <3>4
  <2> HIDE DEF m
  <2> QED
    BY <1>3, <2>2
<1>5. f \in [A -> B] /\ \A m, n \in A : f[m] = f[n] => m = n
  <2>1. f \in [A -> B]
    <3> HIDE DEF A, B
    <3> QED
      BY <1>3
  <2>2. ASSUME NEW m \in A, NEW n \in A, f[m] = f[n] PROVE m = n
    BY <1>1, <1>3, <2>2
  <2> QED
    BY <2>1, <2>2
<1> HIDE DEF f, A, B
<1>6. ExistsBijection(A, B)
  <2>1. f \in Bijection(A, B)
    BY <1>4, <1>5 DEF Bijection, Injection, Surjection, IsInjective
  <2> QED
    BY <2>1 DEF ExistsBijection
<1>7. IsFiniteSet(A) /\ Cardinality(A) = Seps(q) - Seps(p)
  <2>1. IsFiniteSet(A) /\ Cardinality(A) = IF Seps(p) + 1 > Seps(q) THEN 0 ELSE Seps(q) - (Seps(p) + 1) + 1
    <3>1. Seps(p) + 1 \in Int /\ Seps(q) \in Int
      BY <1>1
    <3> QED
      BY <3>1, FS_Interval DEF A
  <2> HIDE DEF q
  <2> QED
    BY <1>1, <2>1
<1>8. Cardinality(B) = Seps(q) - Seps(p)
  BY <1>6, <1>7, FS_Bijection
<1> QED
  BY <1>8 DEF CountSeps, B

\* The messages whose headers a stretch has.
LEMMA MessagesBetween ==
  ASSUME NEW S, NEW s \in Seq(S), NEW p \in Nat, Stretch(s, p)
  PROVE  MessagesIn(s) = Run((p + 3) \div 4, (p + Len(s) + 3) \div 4)
<1> DEFINE H(k) == (k + 3) \div 4
           seqs == [k \in DOMAIN s |-> IF s[k].part = "header" THEN <<s[k].msg>> ELSE <<>>]
           f == [k \in 0..Len(s) |-> Run(H(p), H(p + k))]
<1>0. DOMAIN s = 1..Len(s) /\ Len(s) \in Nat /\ H(p) \in Nat
  OBVIOUS
<1>1. ASSUME NEW k \in 1..Len(s)
      PROVE  /\ s[k].part = "header" <=> (p + k) % 4 = 1
             /\ (p + k) % 4 = 1 => s[k].msg = H(p + k)
  <2>1. s[k] = UnitAt(p + k) /\ p + k \in Nat
    BY <1>0 DEF Stretch
  <2> QED
    BY <2>1, UnitFacts DEF Unit
<1>2. ASSUME NEW k \in 1..Len(s)
      PROVE  /\ (p + k) % 4 = 1 => seqs[k] = <<H(p + k)>>
             /\ (p + k) % 4 # 1 => seqs[k] = <<>>
  BY <1>0, <1>1
<1>3. seqs \in Seq(Seq(Nat)) /\ Len(seqs) = Len(s)
  <2>1. ASSUME NEW k \in 1..Len(s) PROVE seqs[k] \in Seq(Nat)
    <3>1. H(p + k) \in Nat
      BY <1>0
    <3> HIDE DEF H, seqs
    <3>2. <<>> \in Seq(Nat) /\ <<H(p + k)>> \in Seq(Nat)
      BY <3>1
    <3> QED
      BY <1>2, <3>2
  <2>2. seqs \in [1..Len(s) -> Seq(Nat)]
    <3> DEFINE e(k) == IF s[k].part = "header" THEN <<s[k].msg>> ELSE <<>>
    <3>1. \A k \in 1..Len(s) : seqs[k] = e(k)
      BY <1>0
    <3>2. \A k \in 1..Len(s) : e(k) \in Seq(Nat)
      BY <2>1, <3>1
    <3>3. seqs = [k \in 1..Len(s) |-> e(k)]
      BY <1>0
    <3> HIDE DEF e, seqs
    <3> QED
      BY <3>2, <3>3
  <2> HIDE DEF seqs
  <2> QED
    BY <1>0, <2>2, SeqDef
<1>4. f[0] = <<>>
  <2>1. f[0] = Run(H(p), H(p))
    BY <1>0
  <2>2. Run(H(p), H(p)) \in Seq(Nat) /\ Len(Run(H(p), H(p))) = 0
    <3>1. H(p) - H(p) = 0 /\ H(p) <= H(p)
      BY <1>0
    <3> HIDE DEF H
    <3> QED
      BY <1>0, <3>1, RunFacts
  <2> QED
    BY <2>1, <2>2, EmptySeq
<1>5. ASSUME NEW k \in 1..Len(s) PROVE f[k] = f[k - 1] \o seqs[k]
  <2> DEFINE a == H(p)  b == H(p + k - 1)  c == H(p + k)
  <2>1. k - 1 \in 0..Len(s) /\ k \in 0..Len(s) /\ p + (k - 1) = p + k - 1
    BY <1>0
  <2>2. f[k] = Run(a, c) /\ f[k - 1] = Run(a, b)
    BY <2>1
  <2>3. a \in Nat /\ b \in Nat /\ a <= b /\ b + 1 \in Nat
    BY <1>0
  <2>4. (p + k) % 4 = 1 => c = b + 1
    BY <1>0
  <2>5. (p + k) % 4 # 1 => c = b
    BY <1>0
  <2>6. seqs[k] = IF (p + k) % 4 = 1 THEN <<c>> ELSE <<>>
    BY <1>2
  <2> HIDE DEF H, f, seqs, a, b, c
  <2>7. CASE (p + k) % 4 = 1
    <3>1. seqs[k] = <<b + 1>> /\ f[k] = Run(a, b + 1)
      BY <2>2, <2>4, <2>6, <2>7
    <3>2. Run(a, b) \in Seq(Nat)
      BY <2>3, RunFacts
    <3>3. Run(a, b) \o <<b + 1>> = Append(Run(a, b), b + 1)
      BY <2>3, <3>2
    <3> QED
      BY <2>2, <2>3, <3>1, <3>3, RunAppend
  <2>8. CASE (p + k) % 4 # 1
    <3>1. seqs[k] = <<>> /\ f[k] = Run(a, b)
      BY <2>2, <2>5, <2>6, <2>8
    <3>2. Run(a, b) \in Seq(Nat)
      BY <2>3, RunFacts
    <3> QED
      BY <2>2, <3>1, <3>2, ConcatEmptySeq
  <2> QED
    BY <2>7, <2>8
<1>6. f[Len(s)] = Run(H(p), H(p + Len(s)))
  BY <1>0
<1>7. FlattenSeq(seqs) = f[Len(seqs)]
  <2> HIDE DEF seqs, f
  <2> QED
    BY <1>3, <1>4, <1>5, FlattenIs
<1>8. MessagesIn(s) = FlattenSeq(seqs)
  BY DEF MessagesIn
<1> HIDE DEF f, seqs
<1>9. MessagesIn(s) = Run(H(p), H(p + Len(s)))
  BY <1>3, <1>6, <1>7, <1>8
<1> QED
  BY <1>9

-----------------------------------------------------------------------------
(* The refinement.                                                         *)

\* What the refinement mapping makes of the units, in terms of their places.
Runs ==
  /\ UpTo(sent, CountSeps(channel)) = Run(Seps(Got), sent)
  /\ UpTo(sent - CountSeps(channel), CountSeps(str \o buf)) = Run(Seps(Returned), Seps(Got))
  /\ received # <<>>
       => MessagesIn(Last(received)) = Run(Seps(Returned - Len(Last(received)) - 1), Seps(Returned))

\* What the messages of Receiver are, by the counts of the separators.
LEMMA RunsHold ==
  ASSUME ReceiverInv
  PROVE  Runs
<1>0. TypeOK /\ InPlace
  BY DEF ReceiverInv
<1>1. PICK cut \in [0..Calls -> Nat] : CutAt(cut)
  BY DEF ReceiverInv
<1>2. channel \in Seq(Units) /\ str \in Seq(Units) /\ buf \in Seq(Units) /\ received \in Seq(Seq(Units))
  BY <1>0 DEF TypeOK
<1>3. /\ sent \in Nat /\ Len(channel) \in Nat /\ Len(str) \in Nat /\ Len(buf) \in Nat
      /\ Calls \in Nat /\ Returned \in Nat
  BY <1>0, <1>1, Lengths DEF CutAt
<1>4. /\ Got \in Nat /\ Got = Returned + Len(str) + Len(buf) /\ Got + Len(channel) = 4 * sent
  BY <1>3 DEF Got, Returned
<1>5. Seps(Got) \in Nat /\ Seps(Returned) \in Nat /\ Seps(4 * sent) = sent
  BY <1>3, <1>4 DEF Seps
<1>6. CountSeps(channel) = sent - Seps(Got)
  <2>1. CountSeps(channel) = Seps(Got + Len(channel)) - Seps(Got)
    BY <1>0, <1>2, <1>4, SepsCounted DEF InPlace
  <2> QED
    BY <1>4, <1>5, <2>1
<1>7. CountSeps(str \o buf) = Seps(Got) - Seps(Returned)
  <2>1. str \o buf \in Seq(Units) /\ Len(str \o buf) = Len(str) + Len(buf)
    BY <1>2, ConcatProperties
  <2>2. Stretch(str \o buf, Returned)
    BY <1>0, <1>2, <1>3, StretchConcat DEF InPlace
  <2>3. CountSeps(str \o buf) = Seps(Returned + Len(str \o buf)) - Seps(Returned)
    BY <1>3, <2>1, <2>2, SepsCounted
  <2>4. Returned + Len(str \o buf) = Got
    BY <1>3, <1>4, <2>1
  <2> QED
    BY <2>3, <2>4
<1>8. UpTo(sent, CountSeps(channel)) = Run(Seps(Got), sent)
  <2>1. sent - (sent - Seps(Got)) = Seps(Got)
    BY <1>3, <1>5
  <2> QED
    BY <1>6, <2>1 DEF UpTo, Run
<1>9. UpTo(sent - CountSeps(channel), CountSeps(str \o buf)) = Run(Seps(Returned), Seps(Got))
  <2>1. sent - (sent - Seps(Got)) - (Seps(Got) - Seps(Returned)) = Seps(Returned)
    BY <1>3, <1>5
  <2> QED
    BY <1>6, <1>7, <2>1 DEF UpTo, Run
<1>10. ASSUME received # <<>>
       PROVE  MessagesIn(Last(received)) = Run(Seps(Returned - Len(Last(received)) - 1), Seps(Returned))
  <2> DEFINE s == Last(received)  p == cut[Calls - 1]
  <2>1. Calls \in 1..Calls /\ Calls - 1 \in 0..Calls /\ Calls \in 0..Calls
    BY <1>2, <1>3, <1>10, EmptySeq DEF Calls
  <2>2. s = received[Calls] /\ s \in Seq(Units) /\ Len(s) \in Nat
    BY <1>2, <2>1 DEF Last, Calls
  <2>3. /\ Stretch(s, p) /\ Returned = p + Len(s) + 1 /\ p \in Nat /\ Returned % 4 = 3
        /\ (p = 0 \/ p % 4 = 3)
    <3>1. Stretch(s, p) /\ cut[Calls] = p + Len(s) + 1 /\ cut[Calls] = Returned /\ Returned % 4 = 3
      BY <1>1, <2>1, <2>2 DEF CutAt
    <3>2. p = 0 \/ p % 4 = 3
      <4>1. Calls - 1 = 0 \/ Calls - 1 \in 1..Calls
        BY <1>3, <2>1
      <4> QED
        BY <1>1, <4>1 DEF CutAt
    <3>3. p \in Nat
      BY <2>1
    <3> QED
      BY <3>1, <3>2, <3>3
  <2> HIDE DEF s, p
  <2>4. MessagesIn(s) = Run((p + 3) \div 4, (p + Len(s) + 3) \div 4)
    BY <2>2, <2>3, MessagesBetween
  <2>5. (p + 3) \div 4 = Seps(p) /\ Returned - Len(s) - 1 = p
    <3>1. p \in Nat /\ (p = 0 \/ p % 4 = 3)
      BY <2>3
    <3>2. (p + 3) \div 4 = (p + 1) \div 4
      BY <3>1
    <3>3. Returned - Len(s) - 1 = p
      <4>1. Returned = p + Len(s) + 1
        BY <2>3
      <4>2. Len(s) \in Nat
        BY <2>2
      <4> QED
        BY <3>1, <4>1, <4>2
    <3> QED
      BY <3>2, <3>3 DEF Seps
  <2>6. (p + Len(s) + 3) \div 4 = Seps(Returned)
    <3>1. p + Len(s) + 3 = Returned + 2
      BY <2>2, <2>3
    <3>2. (Returned + 2) \div 4 = Seps(Returned)
      <4>1. Returned \in Nat /\ Returned % 4 = 3
        BY <1>3, <2>3
      <4> QED
        BY <4>1 DEF Seps
    <3> QED
      BY <3>1, <3>2
  <2> QED
    BY <2>4, <2>5, <2>6 DEF s
<1> QED
  BY <1>8, <1>9, <1>10 DEF Runs

\* A step that returns no message and sends none does not change the messages.
LEMMA Stutters ==
  ASSUME Runs, Runs', sent' = sent, received' = received, Seps(Got') = Seps(Got), Returned' = Returned
  PROVE  UNCHANGED Messages!receiverVars
<1>1. UpTo(sent, CountSeps(channel))' = UpTo(sent, CountSeps(channel))
  BY DEF Runs
<1>2. UpTo(sent - CountSeps(channel), CountSeps(str \o buf))'
        = UpTo(sent - CountSeps(channel), CountSeps(str \o buf))
  BY DEF Runs
<1> QED
  BY <1>1, <1>2 DEF Messages!receiverVars

\* Every step sends a message of Receiver, receives one, or changes nothing of it.
LEMMA Implements ==
  ASSUME ReceiverInv, ReceiverInv', Runs, Runs', [Next]_vars
  PROVE  [Messages!Next]_(Messages!receiverVars)
<1>0. TypeOK /\ TypeOK' /\ InPlace
  BY DEF ReceiverInv
<1>1. /\ sent \in Nat /\ Len(channel) \in Nat /\ Len(str) \in Nat /\ Len(buf) \in Nat
      /\ Calls \in Nat /\ Returned \in Nat
  <2>1. PICK cut \in [0..Calls -> Nat] : CutAt(cut)
    BY DEF ReceiverInv
  <2> QED
    BY <1>0, <2>1, Lengths DEF CutAt
<1>2. /\ Got \in Nat /\ Got = Returned + Len(str) + Len(buf) /\ Got + Len(channel) = 4 * sent
  BY <1>1 DEF Got, Returned
<1>3. Seps(Got) \in Nat /\ Seps(Returned) \in Nat /\ Seps(Got) <= sent /\ Seps(Returned) <= Seps(Got)
  BY <1>1, <1>2 DEF Seps
<1>g. Got \in Nat
  BY <1>2
<1>4. CASE Send
  <2>1. /\ sent' = sent + 1 /\ channel' = channel \o Frame(sent + 1) /\ sent < MaxMessages
        /\ UNCHANGED <<buf, str, received>>
    BY <1>4 DEF Send
  <2>2. Got' = Got /\ Returned' = Returned
    <3>1. Len(Frame(sent + 1)) = 4 /\ Frame(sent + 1) \in Seq(Units)
      <4>1. sent + 1 \in 1..MaxMessages
        BY <1>0, <2>1, Lengths
      <4> QED
        BY <1>1, <4>1, FrameInPlace DEF Frame, Units
    <3>2. Len(channel \o Frame(sent + 1)) = Len(channel) + Len(Frame(sent + 1))
      BY <1>0, <3>1, ConcatProperties DEF TypeOK
    <3>3. Len(channel') = Len(channel) + 4 /\ sent' = sent + 1
      BY <2>1, <3>1, <3>2
    <3>4. Got' = Got
      BY <1>1, <3>3 DEF Got
    <3>5. Len(buf') = Len(buf) /\ Len(str') = Len(str)
      BY <2>1
    <3>6. Returned = Got - Len(buf) - Len(str) /\ Returned' = Got' - Len(buf') - Len(str')
      BY DEF Got, Returned
    <3> QED
      BY <3>4, <3>5, <3>6
  <2>3. Run(Seps(Got), sent + 1) = Append(Run(Seps(Got), sent), sent + 1)
    BY <1>1, <1>3, RunAppend
  <2>4. Messages!Send(sent + 1)
    <3>1. UpTo(sent, CountSeps(channel))' = Append(UpTo(sent, CountSeps(channel)), sent + 1)
      BY <2>1, <2>2, <2>3 DEF Runs
    <3>2. UpTo(sent - CountSeps(channel), CountSeps(str \o buf))'
            = UpTo(sent - CountSeps(channel), CountSeps(str \o buf))
      BY <2>2 DEF Runs
    <3> QED
      BY <2>1, <3>1, <3>2 DEF Messages!Send
  <2>5. sent + 1 \in 1..MaxMessages
    BY <1>0, <2>1, Lengths
  <2> QED
    BY <2>4, <2>5 DEF Messages!Next
<1>5. CASE CloseSender \/ Eof \/ UNCHANGED vars
  <2>1. UNCHANGED <<sent, channel, buf, str, received>>
    BY <1>5 DEF CloseSender, Eof, vars
  <2> QED
    BY <2>1, Stutters DEF Got, Returned
<1>6. CASE Call
  <2>1. UNCHANGED <<sent, channel, received>> /\ Len(str') = Len(buf) /\ Len(buf') = 0 /\ Len(str) = 0
    BY <1>0, <1>6, Lengths DEF Call
  <2>2. Got' = Got /\ Returned' = Returned
    BY <1>1, <2>1 DEF Got, Returned
  <2> QED
    BY <2>1, <2>2, Stutters
<1>7. ASSUME NEW k \in Arrived, ChunkWithout(k)
      PROVE  UNCHANGED Messages!receiverVars
  <2> DEFINE chunk == SubSeq(channel, 1, k)
  <2>1. state = "recv" /\ NoSep(chunk) /\ str' = str \o chunk /\ UNCHANGED <<sent, buf, received>>
    BY <1>7 DEF ChunkWithout
  <2>2. /\ k \in 1..Len(channel) /\ chunk \in Seq(Units) /\ Len(chunk) = k
        /\ Len(channel') = Len(channel) - k /\ \A i \in 1..k : chunk[i] = Sep <=> (Got + i) % 4 = 3
    BY <1>7, <2>1, ChunkFacts DEF ChunkWithout
  <2> HIDE DEF chunk
  <2>3. k \in Nat /\ Got' = Got + k
    BY <1>1, <2>1, <2>2 DEF Got
  <2>4. Len(str') = Len(str) + k
    <3>1. Len(str \o chunk) = Len(str) + Len(chunk)
      BY <1>0, <2>2, ConcatProperties DEF TypeOK
    <3> QED
      BY <2>1, <2>2, <3>1
  <2>5. Returned' = Returned
    <3>1. Len(buf') = Len(buf)
      BY <2>1
    <3>2. Returned = Got - Len(buf) - Len(str) /\ Returned' = Got' - Len(buf') - Len(str')
      BY DEF Got, Returned
    <3> QED
      BY <1>1, <1>2, <2>3, <2>4, <3>1, <3>2
  <2>6. Seps(Got + k) = Seps(Got)
    <3>1. ASSUME NEW p \in Got + 1..Got + k PROVE p % 4 # 3
      <4>1. p - Got \in 1..k /\ Got + (p - Got) = p
        BY <1>2, <2>3
      <4>2. chunk[p - Got] # Sep
        BY <2>1, <2>2, <4>1 DEF NoSep
      <4> QED
        BY <2>2, <4>1, <4>2
    <3>2. Got + k \in Nat /\ Got <= Got + k
      BY <1>2, <2>3
    <3> QED
      BY <1>2, <3>1, <3>2, SepsSame
  <2> QED
    BY <2>1, <2>3, <2>5, <2>6, Stutters
<1>8. ASSUME NEW k \in Arrived, NEW i \in 1..k, ChunkWith(k, i)
      PROVE  Messages!Next
  <2> DEFINE chunk == SubSeq(channel, 1, k)
             head == SubSeq(chunk, 1, i - 1)
             tail == SubSeq(chunk, i + 1, k)
             a == Seps(Got)
             b == Seps(Got + k)
             j == b - a
  <2>1. /\ state = "recv" /\ chunk[i] = Sep /\ NoSep(head) /\ str' = <<>> /\ buf' = tail /\ sent' = sent
        /\ received' = Append(received, str \o head)
    BY <1>8 DEF ChunkWith
  <2>2. /\ k \in 1..Len(channel) /\ chunk \in Seq(Units) /\ Len(chunk) = k /\ Got = Returned + Len(str)
        /\ Len(channel') = Len(channel) - k /\ \A l \in 1..k : chunk[l] = Sep <=> (Got + l) % 4 = 3
    BY <1>8, <2>1, ChunkFacts DEF ChunkWith
  <2> HIDE DEF chunk
  <2>3. k \in Nat /\ i \in Nat /\ 1 <= i /\ i <= k /\ Got + i \in Nat /\ Got + k \in Nat /\ k - i \in Nat
    <3>1. k \in Nat
      BY <1>1, <2>2
    <3> QED
      BY <1>2, <3>1
  <2>4. /\ head \in Seq(Units) /\ Len(head) = i - 1 /\ \A l \in 1..i - 1 : head[l] = chunk[l]
        /\ Len(tail) = k - i
    <3> DEFINE n == i - 1  m == i + 1
    <3>1. /\ n \in Nat /\ n = n - 1 + 1 /\ m \in Nat /\ k - m + 1 = k - i
          /\ \A l \in 1..n : l \in 1..k /\ l = 1 + l - 1
          /\ \A l \in m..k : l \in 1..k
          /\ (1 <= n \/ n = 0) /\ (m <= k \/ k - i = 0)
      BY <2>3
    <3>2. \A l \in 1..k : chunk[l] \in Units
      BY <2>2
    <3> HIDE DEF n, m
    <3>3. /\ SubSeq(chunk, 1, n) \in Seq(Units) /\ Len(SubSeq(chunk, 1, n)) = n
          /\ \A l \in 1..n : SubSeq(chunk, 1, n)[l] = chunk[l]
      BY <3>1, <3>2, SubSeqProperties
    <3>4. Len(SubSeq(chunk, m, k)) = k - i
      <4>1. Len(SubSeq(chunk, m, k)) = IF m <= k THEN k - m + 1 ELSE 0
        BY <2>3, <3>1, <3>2, SubSeqProperties
      <4> QED
        BY <2>3, <3>1, <4>1
    <3> QED
      BY <3>3, <3>4 DEF n, m
  <2> HIDE DEF head, tail
  <2>5. Seps(Got + i) = a + 1
    <3>1. (Got + i) % 4 = 3
      BY <2>1, <2>2
    <3>2. ASSUME NEW p \in Got + 1..Got + i - 1 PROVE p % 4 # 3
      <4>1. p - Got \in 1..i - 1 /\ p - Got \in 1..k /\ Got + (p - Got) = p
        BY <1>g, <2>3
      <4>2. DOMAIN head = 1..i - 1
        BY <2>4
      <4>3. chunk[p - Got] # Sep
        BY <2>1, <2>4, <4>1, <4>2 DEF NoSep
      <4> QED
        BY <2>2, <4>1, <4>3
    <3>3. Got < Got + i
      BY <1>g, <2>3
    <3> QED
      BY <1>g, <2>3, <3>1, <3>2, <3>3, SepsNext
  <2>6. Got' = Got + k /\ Returned' = Got + i
    <3>1. Got' = Got + k
      BY <1>1, <2>1, <2>2, <2>3 DEF Got
    <3>2. Len(str') = 0 /\ Len(buf') = k - i
      BY <2>1, <2>4
    <3>3. Returned' = Got' - Len(buf') - Len(str')
      BY DEF Got, Returned
    <3> QED
      BY <1>2, <2>3, <3>1, <3>2, <3>3
  <2>7. a + 1 <= b /\ b <= sent /\ a \in Nat /\ b \in Nat
    <3>1. Got + i <= Got + k /\ Got + k <= 4 * sent
      BY <1>1, <1>2, <2>2, <2>3
    <3>2. Seps(Got + i) <= b
      BY <1>g, <2>3, <3>1 DEF Seps
    <3>3. b <= sent
      BY <1>1, <1>g, <2>3, <3>1 DEF Seps
    <3>4. a \in Nat /\ b \in Nat
      BY <1>g, <2>3 DEF Seps
    <3> QED
      BY <2>5, <3>2, <3>3, <3>4
  <2> DEFINE c == Seps(Returned)
  <2>8. c \in Nat /\ c <= a
    BY <1>3
  <2>9. /\ received' # <<>> /\ Last(received') = str \o head
        /\ Returned' - Len(Last(received')) - 1 = Returned
    <3>1. Len(str \o head) = Len(str) + (i - 1) /\ str \o head \in Seq(Units)
      <4>1. Len(str \o head) = Len(str) + Len(head) /\ str \o head \in Seq(Units)
        BY <1>0, <2>4, ConcatProperties DEF TypeOK
      <4> QED
        BY <2>4, <4>1
    <3>2. received' # <<>> /\ Last(received') = str \o head
      <4>1. /\ Len(Append(received, str \o head)) = Len(received) + 1
            /\ Append(received, str \o head)[Len(received) + 1] = str \o head
            /\ Len(received) \in Nat
        BY <1>0, <3>1, AppendProperties DEF TypeOK
      <4>2. Append(received, str \o head) # <<>>
        <5>1. Len(Append(received, str \o head)) # 0 /\ Len(<<>>) = 0
          BY <4>1
        <5> QED
          BY <5>1
      <4> QED
        BY <2>1, <4>1, <4>2 DEF Last
    <3>3. Len(Last(received')) = Len(str) + (i - 1)
      BY <3>1, <3>2
    <3>4. Got = Returned + Len(str)
      BY <2>2
    <3> QED
      BY <1>1, <2>3, <2>6, <3>2, <3>3, <3>4
  <2> HIDE DEF a, b, c
  <2>10. j \in 1..sent - a
    BY <1>1, <2>7
  <2>11. /\ UpTo(sent, CountSeps(channel)) = Run(a, sent) /\ UpTo(sent, CountSeps(channel))' = Run(b, sent)
         /\ UpTo(sent - CountSeps(channel), CountSeps(str \o buf)) = Run(c, a)
         /\ UpTo(sent - CountSeps(channel), CountSeps(str \o buf))' = Run(a + 1, b)
         /\ MessagesIn(Last(received')) = Run(c, a + 1)
    BY <2>1, <2>5, <2>6, <2>9 DEF Runs, a, b, c
  <2>12. Len(Run(a, sent)) = sent - a /\ Head(Run(a, sent)) = a + 1
    <3>1. a <= sent /\ 1 \in 1..sent - a
      BY <1>1, <2>7
    <3>2. Run(a, sent) \in Seq(Nat) /\ Len(Run(a, sent)) = sent - a /\ Run(a, sent)[1] = a + 1
      BY <1>1, <2>7, <3>1, RunFacts
    <3> QED
      BY <3>2
  <2>13. Run(c, a + 1) = Append(Run(c, a), a + 1)
    BY <2>7, <2>8, RunAppend
  <2>14. Run(a + 1, b) = SubSeq(Run(a, sent), 2, j)
    <3> DEFINE x == 2
    <3>1. /\ a <= sent /\ x \in Nat /\ j \in Nat /\ 1 <= x /\ x <= j + 1 /\ j <= sent - a
          /\ a + x - 1 = a + 1 /\ a + j = b
      BY <1>1, <2>7
    <3>2. sent \in Nat /\ a \in Nat
      BY <1>1, <2>7
    <3> HIDE DEF x, j
    <3>3. SubSeq(Run(a, sent), x, j) = Run(a + x - 1, a + j)
      BY <3>1, <3>2, RunPart
    <3> QED
      BY <3>1, <3>3 DEF x
  <2>15. Run(b, sent) = SubSeq(Run(a, sent), j + 1, sent - a)
    <3> DEFINE x == j + 1  y == sent - a
    <3>1. /\ a <= sent /\ x \in Nat /\ y \in Nat /\ 1 <= x /\ x <= y + 1 /\ y <= sent - a
      BY <1>1, <2>7
    <3>2. sent \in Nat /\ a \in Nat
      BY <1>1, <2>7
    <3>3. a + x - 1 = b /\ a + y = sent
      BY <1>1, <2>7
    <3> HIDE DEF x, y
    <3>4. SubSeq(Run(a, sent), x, y) = Run(a + x - 1, a + y)
      BY <3>1, <3>2, RunPart
    <3> QED
      BY <3>3, <3>4 DEF x, y
  <2> HIDE DEF j
  <2>16. Messages!Recv(j)
    BY <2>9, <2>11, <2>12, <2>13, <2>14, <2>15 DEF Messages!Recv
  <2>17. j \in 1..Len(UpTo(sent, CountSeps(channel)))
    BY <2>10, <2>11, <2>12
  <2> QED
    BY <2>16, <2>17 DEF Messages!Next
<1> QED
  BY <1>4, <1>5, <1>6, <1>7, <1>8 DEF Next, Receive

\* The bytes implement messages: whatever the sizes of what ::recv returns,
\* recv waits for a message of which it has received no end yet and returns
\* it, behind those that came with the message before, and in order.
THEOREM ReceiverSpecCorrect == Spec => ReceiverSpec
<1>1. Init => Messages!Init
  <2> SUFFICES ASSUME Init PROVE Messages!Init
    OBVIOUS
  <2>1. Runs
    BY InitInv, RunsHold
  <2>2. sent = 0 /\ received = <<>> /\ Seps(Got) = 0 /\ Seps(Returned) = 0
    <3>1. sent = 0 /\ Len(channel) = 0 /\ Len(str) = 0 /\ Len(buf) = 0 /\ received = <<>>
      BY DEF Init
    <3> QED
      BY <3>1 DEF Got, Returned, Seps
  <2>3. Run(0, 0) = <<>>
    <3>1. Run(0, 0) \in Seq(Nat) /\ Len(Run(0, 0)) = 0
      BY RunFacts
    <3> QED
      BY <3>1, EmptySeq
  <2> QED
    BY <2>1, <2>2, <2>3 DEF Runs, Messages!Init
<1>2. ReceiverInv => Runs
  BY RunsHold
<1>3. ReceiverInv /\ ReceiverInv' /\ Runs /\ Runs' /\ [Next]_vars => [Messages!Next]_(Messages!receiverVars)
  BY Implements
<1> QED
  BY <1>1, <1>2, <1>3, ReceiverInvariant, PTL DEF Spec, ReceiverSpec, Messages!Spec
=============================================================================
