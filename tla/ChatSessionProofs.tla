-------------------------- MODULE ChatSessionProofs ---------------------------
(***************************************************************************)
(* Theorems about ChatSession, for any number of requests and deliveries.  *)
(***************************************************************************)
EXTENDS ChatSession, SequenceTheorems, TLAPS

\* How the client and the worker are through with each other: the worker first,
\* which has handled EXIT and left the online group, then the observer, then
\* the client.
ClosingInv ==
  /\ worker \in {"unregister", "close", "gone"} => Current.kind = "EXIT"
  /\ online => worker \notin {"register", "close", "gone"}
  /\ observer = "done" => worker = "gone"
  /\ client = "over" => observer = "done"

\* The invariant holds at first.
LEMMA ClosingInit == Init => ClosingInv
  BY DEF Init, ClosingInv

\* Every step keeps the invariant.
LEMMA ClosingStep == ClosingInv /\ [Next]_vars => ClosingInv'
<1> SUFFICES ASSUME ClosingInv, [Next]_vars
             PROVE  ClosingInv'
  OBVIOUS
<1> USE DEF ClosingInv, Current
<1>1. CASE Register \/ Command \/ Exit
  BY <1>1 DEF Register, Command, Exit, serverVars
<1>2. ASSUME NEW k \in 1..Len(down), NEW torn \in BOOLEAN, Observe(k) \/ Registered(k, torn)
      PROVE  ClosingInv'
  BY <1>2 DEF Observe, Registered, serverVars
<1>3. CASE ObserveEof \/ Leave
  BY <1>3 DEF ObserveEof, Leave, serverVars
<1>4. ASSUME NEW k \in 1..Len(up), TakeRegister(k) \/ TakeRequest(k)
      PROVE  ClosingInv'
  BY <1>4 DEF TakeRegister, TakeRequest, clientVars
<1>5. CASE Greet
  BY <1>5 DEF Greet, clientVars
<1>6. CASE Answer
  BY <1>6 DEF Answer, clientVars
<1>7. CASE Unregister
  BY <1>7 DEF Unregister, clientVars
<1>8. CASE Close
  BY <1>8 DEF Close, clientVars
<1>9. CASE Deliver
  BY <1>9 DEF Deliver, clientVars
<1>10. CASE UNCHANGED vars
  BY <1>10 DEF vars, clientVars, serverVars
<1> QED
  BY <1>1, <1>2, <1>3, <1>4, <1>5, <1>6, <1>7, <1>8, <1>9, <1>10
  DEF Next, ClientStep, Reception, WorkerStep

\* The order in which the two ends are through with each other.
LEMMA ClosingInvariant == Spec => []ClosingInv
  BY ClosingInit, ClosingStep, PTL DEF Spec

-----------------------------------------------------------------------------
\* The client closes its end only when the server has handled EXIT and closed
\* its own (client, userInteraction).
THEOREM ServerClosesFirstCorrect == Spec => []ServerClosesFirst
<1>1. ClosingInv => ServerClosesFirst
  BY DEF ClosingInv, ServerClosesFirst
<1> QED BY <1>1, ClosingInvariant, PTL

\* Neither the worker nor the messages loop writes to a connection that the
\* worker has closed (userInteraction, messagesLoop).
THEOREM NothingAfterCloseCorrect == Spec => NothingAfterClose
<1>1. ClosingInv /\ [Next]_vars => [worker = "gone" => UNCHANGED written]_vars
  <2> SUFFICES ASSUME ClosingInv, Next, worker = "gone"
               PROVE  written' = written
    OBVIOUS
  <2>1. CASE ClientStep
    BY <2>1 DEF ClientStep, Register, Command, Exit, Reception, Observe,
                Registered, ObserveEof, Leave, serverVars
  <2>2. CASE WorkerStep
    BY <2>2 DEF WorkerStep, TakeRegister, TakeRequest, Greet, Answer, Unregister, Close
  <2>3. CASE Deliver
    BY <2>3 DEF Deliver, ClosingInv
  <2> QED BY <2>1, <2>2, <2>3 DEF Next
<1> QED BY <1>1, ClosingInvariant, PTL DEF Spec, NothingAfterClose

-----------------------------------------------------------------------------
(* Messages in a line: those that are done, held and on their way.         *)

Below(s, t) == \A k \in 1..Len(s), l \in 1..Len(t) : s[k].no < t[l].no

\* n is the number of the message that was sent last.
InLine(done, held, channel, n) ==
  /\ Increasing(done) /\ Increasing(held) /\ Increasing(channel)
  /\ Below(done, held) /\ Below(done, channel) /\ Below(held, channel)
  /\ \A s \in {done, held, channel} : \A k \in 1..Len(s) : s[k].no <= n

LEMMA IncreasingSeq ==
  ASSUME NEW T, NEW s \in Seq(T)
  PROVE  Increasing(s) <=> \A k, l \in 1..Len(s) : k < l => s[k].no < s[l].no
BY DEF Increasing

\* A message behind all others is appended.
LEMMA IncreasingAppend ==
  ASSUME NEW T, NEW s \in Seq(T), NEW m \in T, Increasing(s),
         \A k \in 1..Len(s) : s[k].no < m.no
  PROVE  Increasing(Append(s, m))
<1>1. /\ Append(s, m) \in Seq(T) /\ Len(Append(s, m)) = Len(s) + 1 /\ Len(s) \in Nat
      /\ \A k \in 1..Len(s) : Append(s, m)[k] = s[k]
      /\ Append(s, m)[Len(s) + 1] = m
  BY AppendProperties
<1>2. \A k, l \in 1..Len(s) : k < l => s[k].no < s[l].no
  BY IncreasingSeq
<1>3. ASSUME NEW k \in 1..Len(s) + 1, NEW l \in 1..Len(s) + 1, k < l
      PROVE  Append(s, m)[k].no < Append(s, m)[l].no
  <2>1. k \in 1..Len(s) /\ (l \in 1..Len(s) \/ l = Len(s) + 1)
    BY <1>1, <1>3
  <2> QED
    BY <1>1, <1>2, <1>3, <2>1
<1>4. \A k, l \in 1..Len(Append(s, m)) : k < l => Append(s, m)[k].no < Append(s, m)[l].no
  BY <1>1, <1>3
<1> QED
  BY <1>1, <1>4, IncreasingSeq

\* A part of the messages is still in order.
LEMMA IncreasingPart ==
  ASSUME NEW T, NEW s \in Seq(T), NEW a \in 1..Len(s) + 1, NEW b \in 0..Len(s), a <= b + 1,
         Increasing(s)
  PROVE  /\ SubSeq(s, a, b) \in Seq(T) /\ Len(SubSeq(s, a, b)) = b - a + 1
         /\ \A k \in 1..b - a + 1 : SubSeq(s, a, b)[k] = s[a + k - 1] /\ a + k - 1 \in a..b
         /\ Increasing(SubSeq(s, a, b))
<1>1. Len(s) \in Nat /\ a \in Nat /\ b \in Nat /\ a >= 1 /\ b <= Len(s)
  OBVIOUS
<1>2. \A k \in 1..Len(s) : s[k] \in T
  BY ElementOfSeq
<1>3. \A k \in a..b : s[k] \in T
  BY <1>1, <1>2
<1>4. /\ SubSeq(s, a, b) \in Seq(T) /\ Len(SubSeq(s, a, b)) = b - a + 1
      /\ \A k \in 1..b - a + 1 : SubSeq(s, a, b)[k] = s[a + k - 1]
  BY <1>1, <1>3
<1>5. \A k \in 1..b - a + 1 : a + k - 1 \in a..b /\ a + k - 1 \in 1..Len(s)
  BY <1>1
<1>6. \A k, l \in 1..Len(s) : k < l => s[k].no < s[l].no
  BY IncreasingSeq
<1>7. ASSUME NEW k \in 1..b - a + 1, NEW l \in 1..b - a + 1, k < l
      PROVE  SubSeq(s, a, b)[k].no < SubSeq(s, a, b)[l].no
  <2>1. a + k - 1 < a + l - 1
    BY <1>1, <1>7
  <2> QED
    BY <1>4, <1>5, <1>6, <2>1
<1>8. Increasing(SubSeq(s, a, b))
  BY <1>4, <1>7, IncreasingSeq
<1> QED
  BY <1>4, <1>5, <1>8

LEMMA LineSent ==
  ASSUME NEW T, NEW n \in Nat, NEW m \in T, m.no = n + 1,
         NEW done \in Seq(T), NEW held \in Seq(T), NEW channel \in Seq(T),
         \A x \in T : x.no \in Nat,
         InLine(done, held, channel, n)
  PROVE  InLine(done, held, Append(channel, m), n + 1)
<1> DEFINE chan == Append(channel, m)
<1>1. /\ Len(chan) = Len(channel) + 1 /\ Len(channel) \in Nat
      /\ \A k \in 1..Len(channel) : chan[k] = channel[k]
      /\ chan[Len(channel) + 1] = m
  BY AppendProperties
<1>2. \A k \in 1..Len(channel) + 1 : k \in 1..Len(channel) \/ k = Len(channel) + 1
  BY <1>1
<1>3. \A s \in {done, held, channel} : \A k \in 1..Len(s) :
        s[k].no \in Nat /\ s[k].no <= n
  BY ElementOfSeq DEF InLine
<1>4. \A s \in {done, held, channel} : \A k \in 1..Len(s) :
        s[k].no < m.no /\ s[k].no <= n + 1
  <2>1. \A l \in Nat : l <= n => l < m.no /\ l <= n + 1
    OBVIOUS
  <2> QED
    BY <1>3, <2>1
<1>5. Increasing(chan)
  BY <1>4, IncreasingAppend DEF InLine
<1> HIDE DEF chan
<1>6. Below(done, chan) /\ Below(held, chan)
  BY <1>1, <1>2, <1>4 DEF InLine, Below
<1>7. \A k \in 1..Len(chan) : chan[k].no <= n + 1
  <2>1. m.no <= n + 1 /\ \A k \in 1..Len(channel) : channel[k].no <= n + 1
    BY <1>4
  <2> QED
    BY <1>1, <1>2, <2>1
<1> QED
  BY <1>4, <1>5, <1>6, <1>7 DEF InLine, chan

\* The messages up to the k-th leave the channel; those from the second are held,
\* and one in front of them is done.
LEMMA LineMoved ==
  ASSUME NEW T, NEW n \in Nat,
         NEW done \in Seq(T), NEW held \in Seq(T), NEW channel \in Seq(T),
         \A x \in T : x.no \in Nat,
         NEW k \in 1..Len(channel),
         NEW m \in {Head(channel), Head(Append(held, Head(channel)))},
         InLine(done, held, channel, n)
  PROVE  /\ SubSeq(channel, 2, k) \in Seq(T) /\ SubSeq(channel, k + 1, Len(channel)) \in Seq(T)
         /\ Len(SubSeq(channel, 2, k)) = k - 1
         /\ Len(SubSeq(channel, k + 1, Len(channel))) = Len(channel) - k
         /\ InLine(done, SubSeq(channel, 2, k), SubSeq(channel, k + 1, Len(channel)), n)
         /\ InLine(done, <<>>, SubSeq(channel, k + 1, Len(channel)), n)
         /\ m \in T
         /\ InLine(Append(done, m), SubSeq(channel, 2, k), SubSeq(channel, k + 1, Len(channel)), n)
         /\ InLine(Append(done, m), <<>>, SubSeq(channel, k + 1, Len(channel)), n)
<1> DEFINE rest == SubSeq(channel, k + 1, Len(channel))
           next == SubSeq(channel, 2, k)
<1>1. Len(channel) \in Nat /\ k \in Nat /\ 1 <= k /\ k <= Len(channel)
  OBVIOUS
<1>2. /\ next \in Seq(T) /\ Len(next) = k - 1 /\ Increasing(next)
      /\ \A l \in 1..k - 1 : next[l] = channel[l + 1] /\ l + 1 \in 2..k
  <2>1. /\ next \in Seq(T) /\ Len(next) = k - 2 + 1 /\ Increasing(next)
        /\ \A l \in 1..k - 2 + 1 : next[l] = channel[2 + l - 1] /\ 2 + l - 1 \in 2..k
    <3>1. 2 \in 1..Len(channel) + 1 /\ k \in 0..Len(channel) /\ 2 <= k + 1
      BY <1>1
    <3> QED
      BY <3>1, IncreasingPart DEF InLine
  <2>2. k - 2 + 1 = k - 1 /\ \A l \in 1..k - 1 : 2 + l - 1 = l + 1
    BY <1>1
  <2> QED
    BY <2>1, <2>2
<1>3. /\ rest \in Seq(T) /\ Len(rest) = Len(channel) - k /\ Increasing(rest)
      /\ \A l \in 1..Len(channel) - k : rest[l] = channel[k + l] /\ k + l \in k + 1..Len(channel)
  <2>1. /\ rest \in Seq(T) /\ Len(rest) = Len(channel) - (k + 1) + 1 /\ Increasing(rest)
        /\ \A l \in 1..Len(channel) - (k + 1) + 1 :
             rest[l] = channel[(k + 1) + l - 1] /\ (k + 1) + l - 1 \in k + 1..Len(channel)
    <3>1. k + 1 \in 1..Len(channel) + 1 /\ Len(channel) \in 0..Len(channel) /\ k + 1 <= Len(channel) + 1
      BY <1>1
    <3> QED
      BY <3>1, IncreasingPart DEF InLine
  <2>2. /\ Len(channel) - (k + 1) + 1 = Len(channel) - k
        /\ \A l \in 1..Len(channel) - k : (k + 1) + l - 1 = k + l
    BY <1>1
  <2> QED
    BY <2>1, <2>2
<1> HIDE DEF rest, next
<1>4. \A a, b \in 1..Len(channel) : a < b => channel[a].no < channel[b].no
  BY IncreasingSeq DEF InLine
<1>5. /\ \A l \in 1..Len(next) : \E a \in 1..Len(channel) : a > 1 /\ a <= k /\ next[l] = channel[a]
      /\ \A l \in 1..Len(rest) : \E a \in 1..Len(channel) : a > k /\ a > 1 /\ rest[l] = channel[a]
  <2>1. /\ \A l \in 1..k - 1 : l + 1 \in 1..Len(channel) /\ l + 1 > 1 /\ l + 1 <= k
        /\ \A l \in 1..Len(channel) - k : k + l \in 1..Len(channel) /\ k + l > k /\ k + l > 1
    BY <1>1
  <2> QED
    BY <1>2, <1>3, <2>1
<1>6. /\ Below(done, next) /\ Below(done, rest)
      /\ \A l \in 1..Len(next) : next[l].no <= n
      /\ \A l \in 1..Len(rest) : rest[l].no <= n
  BY <1>5 DEF InLine, Below
<1>7. Below(next, rest)
  <2> SUFFICES ASSUME NEW p \in 1..Len(next), NEW q \in 1..Len(rest)
               PROVE  next[p].no < rest[q].no
    BY DEF Below
  <2>1. PICK a \in 1..Len(channel) : a <= k /\ next[p] = channel[a]
    BY <1>5
  <2>2. PICK b \in 1..Len(channel) : b > k /\ rest[q] = channel[b]
    BY <1>5
  <2>3. a < b
    BY <1>1, <2>1, <2>2
  <2> QED
    BY <1>4, <2>1, <2>2, <2>3
<1>8. Len(<<>>) = 0 /\ <<>> \in Seq(T) /\ Increasing(<<>>)
  BY DEF Increasing
<1>9. \A s \in Seq(T) : Below(s, <<>>) /\ Below(<<>>, s)
  BY <1>8 DEF Below
<1>10. InLine(done, next, rest, n) /\ InLine(done, <<>>, rest, n)
  BY <1>2, <1>3, <1>6, <1>7, <1>8, <1>9 DEF InLine
<1>11. /\ m \in T /\ InLine(Append(done, m), next, rest, n)
       /\ InLine(Append(done, m), <<>>, rest, n)
  <2>1. Head(channel) = channel[1] /\ channel[1] \in T
    BY <1>1, ElementOfSeq
  <2>2. \A l \in 1..Len(channel) : l > 1 => channel[1].no < channel[l].no
    BY <1>1, <1>4
  <2>3. (m = channel[1]) \/ (Len(held) > 0 /\ m = held[1])
    <3>1. CASE held = <<>>
      BY <2>1, <3>1
    <3>2. CASE held # <<>>
      <4>1. Len(held) \in Nat /\ Len(held) > 0
        BY <3>2
      <4>2. Head(Append(held, Head(channel))) = held[1]
        BY <2>1, <4>1, AppendProperties
      <4> QED
        BY <2>1, <4>1, <4>2
    <3> QED
      BY <3>1, <3>2
  <2>4. /\ m \in T /\ m.no <= n
        /\ \A l \in 1..Len(done) : done[l].no < m.no
        /\ \A l \in 1..Len(channel) : l > 1 => m.no < channel[l].no
    <3>1. CASE m = channel[1]
      BY <1>1, <2>1, <2>2, <3>1 DEF InLine, Below
    <3>2. CASE Len(held) > 0 /\ m = held[1]
      <4>1. 1 \in 1..Len(held) /\ held[1] \in T
        BY <3>2, ElementOfSeq
      <4> QED
        BY <3>2, <4>1 DEF InLine, Below
    <3> QED
      BY <2>3, <3>1, <3>2
  <2> DEFINE done2 == Append(done, m)
  <2>5. /\ Len(done2) = Len(done) + 1 /\ Len(done) \in Nat
        /\ \A l \in 1..Len(done) : done2[l] = done[l]
        /\ done2[Len(done) + 1] = m
    BY <2>4, AppendProperties
  <2>6. Increasing(done2)
    BY <2>4, IncreasingAppend DEF InLine
  <2> HIDE DEF done2
  <2>7. \A l \in 1..Len(done) + 1 : l \in 1..Len(done) \/ l = Len(done) + 1
    BY <2>5
  <2>8. /\ \A l \in 1..Len(next) : m.no < next[l].no
        /\ \A l \in 1..Len(rest) : m.no < rest[l].no
    BY <1>5, <2>4
  <2>9. Below(done2, next) /\ Below(done2, rest)
    BY <1>6, <2>5, <2>7, <2>8 DEF Below
  <2>10. \A l \in 1..Len(done2) : done2[l].no <= n
    <3>1. \A l \in 1..Len(done) : done[l].no <= n
      BY DEF InLine
    <3> QED
      BY <2>4, <2>5, <2>7, <3>1
  <2>11. Below(done2, <<>>)
    BY <1>8 DEF Below
  <2>12. InLine(done2, next, rest, n)
    BY <1>2, <1>3, <1>6, <1>7, <2>6, <2>9, <2>10 DEF InLine
  <2>13. InLine(done2, <<>>, rest, n)
    BY <1>3, <1>6, <1>8, <1>9, <2>6, <2>9, <2>10, <2>11 DEF InLine
  <2> QED
    BY <2>4, <2>12, <2>13 DEF done2
<1> QED
  BY <1>2, <1>3, <1>10, <1>11 DEF rest, next

\* What a message says does not matter for the order.
LEMMA LineTorn ==
  ASSUME NEW done, NEW held, NEW n, NEW s, NEW t, InLine(done, held, s, n),
         DOMAIN s = 1..Len(s), DOMAIN t = 1..Len(t), Len(t) = Len(s),
         \A k \in 1..Len(s) : t[k].no = s[k].no
  PROVE  InLine(done, held, t, n)
<1>1. Increasing(t)
  BY DEF InLine, Increasing
<1>2. Below(done, t) /\ Below(held, t)
  BY DEF InLine, Below
<1>3. \A k \in 1..Len(t) : t[k].no <= n
  BY DEF InLine
<1> QED
  BY <1>1, <1>2, <1>3 DEF InLine

-----------------------------------------------------------------------------
(* The invariant of the session.                                           *)

\* Each answer belongs to a request, and a request is in one place.
Counts ==
  /\ client = "register" => asked = 0
  /\ client = "wait" \/ client = "run" => asked <= MaxRequests + 1
  /\ Len(handled) + Len(upHeld) + Len(up) <= asked
  /\ worker = "greet" \/ worker = "answer" => written + 1 <= incoming + Len(handled)
  /\ written <= incoming + Len(handled)

UpLine == InLine(handled, upHeld, up, asked)
DownLine == InLine(shown, downHeld, down, written)

SessionInv == TypeOK /\ Counts /\ UpLine /\ DownLine

LEMMA SessionInit == Init => SessionInv
<1> SUFFICES ASSUME Init PROVE SessionInv
  OBVIOUS
<1> USE ChatSessionAssumption DEF Init, Up!Init, Down!Init
<1>1. Len(<<>>) = 0 /\ 1..0 = {} /\ DOMAIN <<>> = {} /\ 0 \in Nat
  OBVIOUS
<1>2. TypeOK
  <2>1. <<>> \in Seq(Requests) /\ <<>> \in Seq(Writes)
    OBVIOUS
  <2>2. /\ 0 \in 0..MaxRequests + 2 /\ 0 \in 0..MaxRequests + MaxIncoming + 2
        /\ 0 \in 0..MaxIncoming
    OBVIOUS
  <2> QED
    BY <2>1, <2>2 DEF TypeOK
<1>3. Counts
  BY <1>1 DEF Counts
<1>4. UpLine /\ DownLine
  BY <1>1 DEF UpLine, DownLine, InLine, Below, Increasing
<1> QED
  BY <1>2, <1>3, <1>4 DEF SessionInv

\* The messages are numbered.
LEMMA Messages ==
  /\ \A x \in Requests : x.no \in Nat
  /\ \A x \in Writes : x.no \in Nat
BY ChatSessionAssumption DEF Requests, Writes

UpTypes == up \in Seq(Requests) /\ upHeld \in Seq(Requests) /\ upContent \in Seq(Requests)
DownTypes == down \in Seq(Writes) /\ downHeld \in Seq(Writes) /\ downContent \in Seq(Writes)

LEMMA AskStep ==
  ASSUME SessionInv, asked <= MaxRequests + 1, NEW kind \in {"REGISTER", "request", "EXIT"},
         Ask(kind), UNCHANGED handled
  PROVE  /\ UpTypes' /\ UpLine' /\ asked' \in 0..MaxRequests + 2 /\ asked' = asked + 1
         /\ Len(handled') + Len(upHeld') + Len(up') <= asked'
<1>1. /\ asked \in Nat /\ up \in Seq(Requests) /\ upHeld \in Seq(Requests)
      /\ upContent \in Seq(Requests) /\ handled \in Seq(Requests)
  BY DEF SessionInv, TypeOK
<1>2. /\ asked' = asked + 1 /\ up' = Append(up, Numbered(kind, asked + 1))
      /\ upHeld' = upHeld /\ upContent' = upContent
  BY DEF Ask, Up!Send
<1>3. Numbered(kind, asked + 1) \in Requests /\ Numbered(kind, asked + 1).no = asked + 1
  BY <1>1, ChatSessionAssumption DEF Numbered, Requests
<1>4. UpLine'
  BY <1>1, <1>2, <1>3, LineSent, Messages DEF SessionInv, UpLine
<1>5. Append(up, Numbered(kind, asked + 1)) \in Seq(Requests)
      /\ Len(Append(up, Numbered(kind, asked + 1))) = Len(up) + 1
  BY <1>1, <1>3, AppendProperties
<1>6. /\ Len(handled) \in Nat /\ Len(upHeld) \in Nat /\ Len(up) \in Nat
      /\ Len(handled) + Len(upHeld) + Len(up) <= asked
  BY <1>1 DEF SessionInv, Counts
<1>7. Len(handled) + Len(upHeld) + (Len(up) + 1) <= asked + 1
  BY <1>1, <1>6
<1>8. asked + 1 \in 0..MaxRequests + 2
  BY <1>1, ChatSessionAssumption
<1> QED
  BY <1>1, <1>2, <1>4, <1>5, <1>7, <1>8 DEF UpTypes

LEMMA TakeStep ==
  ASSUME SessionInv, NEW k \in 1..Len(up), Take(k), UNCHANGED asked
  PROVE  /\ UpTypes' /\ UpLine' /\ handled' \in Seq(Requests) /\ handled' # <<>>
         /\ Len(handled') = Len(handled) + 1 /\ Len(handled) \in Nat
         /\ Len(handled') + Len(upHeld') + Len(up') <= asked'
<1>1. /\ asked \in Nat /\ up \in Seq(Requests) /\ upHeld \in Seq(Requests)
      /\ handled \in Seq(Requests)
  BY DEF SessionInv, TypeOK
<1> DEFINE m == Head(Append(upHeld, Head(up)))
<1>2. /\ upContent' = Append(upHeld, Head(up)) /\ upHeld' = SubSeq(up, 2, k)
      /\ up' = SubSeq(up, k + 1, Len(up)) /\ handled' = Append(handled, m)
  BY DEF Take, Up!Recv
<1>3. InLine(handled, upHeld, up, asked)
  BY DEF SessionInv, UpLine
<1>4. /\ upHeld' \in Seq(Requests) /\ up' \in Seq(Requests)
      /\ Len(upHeld') = k - 1 /\ Len(up') = Len(up) - k
      /\ m \in Requests /\ InLine(Append(handled, m), upHeld', up', asked)
  <2>1. /\ SubSeq(up, 2, k) \in Seq(Requests) /\ SubSeq(up, k + 1, Len(up)) \in Seq(Requests)
        /\ Len(SubSeq(up, 2, k)) = k - 1 /\ Len(SubSeq(up, k + 1, Len(up))) = Len(up) - k
        /\ m \in Requests
        /\ InLine(Append(handled, m), SubSeq(up, 2, k), SubSeq(up, k + 1, Len(up)), asked)
    <3>1. m \in {Head(up), Head(Append(upHeld, Head(up)))}
      OBVIOUS
    <3> HIDE DEF m
    <3> QED
      BY <1>1, <1>3, <3>1, LineMoved, Messages
  <2> HIDE DEF m
  <2> QED
    BY <1>2, <2>1
<1> HIDE DEF m
<1>5. handled' \in Seq(Requests) /\ handled' # <<>> /\ Len(handled') = Len(handled) + 1
  BY <1>1, <1>2, <1>4, AppendProperties
<1>6. upContent' \in Seq(Requests)
  <2>1. Head(up) \in Requests
    BY <1>1
  <2> QED
    BY <1>1, <1>2, <2>1, AppendProperties
<1>7. /\ Len(handled) \in Nat /\ Len(upHeld) \in Nat /\ Len(up) \in Nat
      /\ Len(upHeld') \in Nat /\ Len(up') \in Nat
      /\ Len(handled) + Len(upHeld) + Len(up) <= asked
  BY <1>1, <1>4 DEF SessionInv, Counts
<1>8. Len(handled) + 1 + Len(upHeld') + Len(up') <= asked
  BY <1>1, <1>4, <1>7
<1> QED
  BY <1>1, <1>2, <1>4, <1>5, <1>6, <1>7, <1>8 DEF UpTypes, UpLine

LEMMA WriteStep ==
  ASSUME SessionInv, written + 1 <= MaxRequests + MaxIncoming + 2,
         NEW kind \in {"OK", "answer", "incoming"}, Write(kind), UNCHANGED shown
  PROVE  /\ DownTypes' /\ DownLine' /\ written' = written + 1
         /\ written' \in 0..MaxRequests + MaxIncoming + 2
<1>1. /\ written \in Nat /\ down \in Seq(Writes) /\ downHeld \in Seq(Writes)
      /\ downContent \in Seq(Writes) /\ shown \in Seq(Writes)
  BY DEF SessionInv, TypeOK
<1>2. /\ written' = written + 1 /\ down' = Append(down, Numbered(kind, written + 1))
      /\ downHeld' = downHeld /\ downContent' = downContent
  BY DEF Write, Down!Send
<1>3. Numbered(kind, written + 1) \in Writes /\ Numbered(kind, written + 1).no = written + 1
  BY <1>1, ChatSessionAssumption DEF Numbered, Writes
<1>4. DownLine'
  BY <1>1, <1>2, <1>3, LineSent, Messages DEF SessionInv, DownLine
<1>5. Append(down, Numbered(kind, written + 1)) \in Seq(Writes)
  BY <1>1, <1>3, AppendProperties
<1> QED
  BY <1>1, <1>2, <1>4, <1>5, ChatSessionAssumption DEF DownTypes

LEMMA ShowStep ==
  ASSUME SessionInv, NEW k \in 1..Len(down), Show(k), UNCHANGED written
  PROVE  DownTypes' /\ DownLine' /\ shown' \in Seq(Writes)
<1>1. /\ written \in Nat /\ down \in Seq(Writes) /\ downHeld \in Seq(Writes)
      /\ shown \in Seq(Writes)
  BY DEF SessionInv, TypeOK
<1> DEFINE m == Head(Append(downHeld, Head(down)))
<1>2. /\ downContent' = Append(downHeld, Head(down)) /\ downHeld' = SubSeq(down, 2, k)
      /\ down' = SubSeq(down, k + 1, Len(down))
      /\ shown' = shown \/ shown' = Append(shown, m)
  BY DEF Show, Down!Recv
<1>3. InLine(shown, downHeld, down, written)
  BY DEF SessionInv, DownLine
<1>4. /\ downHeld' \in Seq(Writes) /\ down' \in Seq(Writes) /\ m \in Writes
      /\ InLine(shown, downHeld', down', written)
      /\ InLine(Append(shown, m), downHeld', down', written)
  <2>1. /\ SubSeq(down, 2, k) \in Seq(Writes) /\ SubSeq(down, k + 1, Len(down)) \in Seq(Writes)
        /\ InLine(shown, SubSeq(down, 2, k), SubSeq(down, k + 1, Len(down)), written)
        /\ m \in Writes
        /\ InLine(Append(shown, m), SubSeq(down, 2, k), SubSeq(down, k + 1, Len(down)), written)
    <3>1. m \in {Head(down), Head(Append(downHeld, Head(down)))}
      OBVIOUS
    <3> HIDE DEF m
    <3> QED
      BY <1>1, <1>3, <3>1, LineMoved, Messages
  <2> HIDE DEF m
  <2> QED
    BY <1>2, <2>1
<1> HIDE DEF m
<1>5. shown' \in Seq(Writes)
  <2>1. Append(shown, m) \in Seq(Writes)
    BY <1>1, <1>4, AppendProperties
  <2> QED
    BY <1>1, <1>2, <2>1
<1>6. downContent' \in Seq(Writes)
  <2>1. Head(down) \in Writes
    BY <1>1
  <2> QED
    BY <1>1, <1>2, <2>1, AppendProperties
<1> QED
  BY <1>1, <1>2, <1>4, <1>5, <1>6 DEF DownTypes, DownLine

LEMMA RegisteredStep ==
  ASSUME SessionInv, NEW k \in 1..Len(down), NEW torn \in BOOLEAN, Registered(k, torn)
  PROVE  DownTypes' /\ DownLine' /\ shown' \in Seq(Writes)
<1>1. /\ written \in Nat /\ down \in Seq(Writes) /\ downHeld \in Seq(Writes)
      /\ shown \in Seq(Writes) /\ Head(down) \in Writes
  BY DEF SessionInv, TypeOK
<1> DEFINE rest == SubSeq(down, k + 1, Len(down))
<1>2. /\ downContent' = <<Head(down)>> /\ downHeld' = <<>>
      /\ torn => rest # <<>>
      /\ down' = IF torn THEN [rest EXCEPT ![1].kind = "torn"] ELSE rest
      /\ shown' = Append(shown, Head(down)) /\ written' = written
  BY DEF Registered, serverVars
<1>3. InLine(shown, downHeld, down, written)
  BY DEF SessionInv, DownLine
<1>4. rest \in Seq(Writes) /\ InLine(Append(shown, Head(down)), <<>>, rest, written)
  <2>1. Head(down) \in {Head(down), Head(Append(downHeld, Head(down)))}
    OBVIOUS
  <2> QED
    BY <1>1, <1>3, <2>1, LineMoved, Messages
<1> HIDE DEF rest
<1>5. down' \in Seq(Writes) /\ InLine(Append(shown, Head(down)), <<>>, down', written)
  <2>1. CASE ~torn
    BY <1>2, <1>4, <2>1
  <2>2. CASE torn
    <3> DEFINE e == [rest[1] EXCEPT !.kind = "torn"]
    <3>1. 1 \in 1..Len(rest) /\ rest[1] \in Writes
      <4>1. rest # <<>>
        BY <1>2, <2>2
      <4>2. 1 \in 1..Len(rest)
        BY <1>4, <4>1
      <4> QED
        BY <1>4, <4>2, ElementOfSeq
    <3>2. e \in Writes /\ e.no = rest[1].no
      BY <3>1 DEF Writes
    <3>3. down' = [rest EXCEPT ![1] = e]
      BY <1>2, <2>2
    <3> HIDE DEF e
    <3>4. /\ down' \in Seq(Writes) /\ Len(down') = Len(rest)
          /\ \A j \in 1..Len(rest) : down'[j] = IF j = 1 THEN e ELSE rest[j]
      BY <1>4, <3>1, <3>2, <3>3, ExceptSeq
    <3>5. \A j \in 1..Len(rest) : down'[j].no = rest[j].no
      BY <3>2, <3>4
    <3>6. DOMAIN rest = 1..Len(rest) /\ DOMAIN down' = 1..Len(down')
      BY <1>4, <3>4
    <3> QED
      BY <1>4, <3>4, <3>5, <3>6, LineTorn
  <2> QED
    BY <2>1, <2>2
<1>6. shown' \in Seq(Writes)
  <2>1. Append(shown, Head(down)) \in Seq(Writes)
    BY <1>1, AppendProperties
  <2> QED
    BY <1>2, <2>1
<1>7. downContent' \in Seq(Writes) /\ downHeld' \in Seq(Writes)
  BY <1>1, <1>2
<1> QED
  BY <1>2, <1>5, <1>6, <1>7 DEF DownTypes, DownLine

\* What the counts bound.
LEMMA CountFacts ==
  ASSUME SessionInv
  PROVE  /\ asked \in Nat /\ written \in Nat /\ incoming \in Nat
         /\ MaxRequests \in Nat /\ MaxIncoming \in Nat
         /\ Len(handled) \in Nat /\ Len(handled) <= MaxRequests + 2
         /\ incoming <= MaxIncoming
         /\ written <= incoming + Len(handled)
<1>1. /\ asked \in 0..MaxRequests + 2 /\ written \in 0..MaxRequests + MaxIncoming + 2
      /\ incoming \in 0..MaxIncoming /\ handled \in Seq(Requests)
      /\ up \in Seq(Requests) /\ upHeld \in Seq(Requests)
  BY DEF SessionInv, TypeOK
<1>2. /\ Len(handled) \in Nat /\ Len(up) \in Nat /\ Len(upHeld) \in Nat
      /\ MaxRequests \in Nat /\ MaxIncoming \in Nat
  BY <1>1, ChatSessionAssumption
<1>3. /\ Len(handled) + Len(upHeld) + Len(up) <= asked
      /\ written <= incoming + Len(handled)
  BY DEF SessionInv, Counts
<1>4. Len(handled) <= MaxRequests + 2
  BY <1>1, <1>2, <1>3
<1> QED
  BY <1>1, <1>2, <1>3, <1>4

LEMMA SessionStep ==
  ASSUME SessionInv, [Next]_vars
  PROVE  SessionInv'
<1> USE CountFacts
<1>0. TypeOK /\ Counts /\ UpLine /\ DownLine /\ UpTypes /\ DownTypes
  BY DEF SessionInv, TypeOK, UpTypes, DownTypes
<1>1. ASSUME UNCHANGED <<upVars, handled, asked>>
      PROVE  UpTypes' /\ UpLine'
  BY <1>0, <1>1 DEF upVars, UpTypes, UpLine
<1>2. ASSUME UNCHANGED <<downVars, shown, written>>
      PROVE  DownTypes' /\ DownLine'
  BY <1>0, <1>2 DEF downVars, DownTypes, DownLine
<1>3. CASE Register \/ Command \/ Exit
  <2>1. /\ \E kind \in {"REGISTER", "request", "EXIT"} : Ask(kind)
        /\ UNCHANGED <<patient, observer, shown, serverVars, downVars>>
    BY <1>3 DEF Register, Command, Exit
  <2>2. asked <= MaxRequests + 1
    BY <1>0, <1>3 DEF Register, Command, Exit, Counts
  <2>3. /\ UpTypes' /\ UpLine' /\ asked' \in 0..MaxRequests + 2 /\ asked' = asked + 1
        /\ Len(handled') + Len(upHeld') + Len(up') <= asked'
    BY <2>1, <2>2, AskStep DEF serverVars
  <2>4. DownTypes' /\ DownLine'
    BY <1>2, <2>1 DEF serverVars
  <2>5. /\ client' \in {"wait", "run", "leaving"}
        /\ client' # "leaving" => asked' <= MaxRequests + 1
    BY <1>0, <1>3, <2>3 DEF Register, Command, Exit, Counts
  <2>6. TypeOK'
    BY <1>0, <2>1, <2>3, <2>4, <2>5 DEF TypeOK, UpTypes, DownTypes, serverVars
  <2>7. Counts'
    BY <1>0, <2>1, <2>3, <2>5 DEF Counts, serverVars
  <2> QED
    BY <2>3, <2>4, <2>6, <2>7 DEF SessionInv
<1>4. ASSUME NEW k \in 1..Len(down), NEW torn \in BOOLEAN, Observe(k) \/ Registered(k, torn)
      PROVE  SessionInv'
  <2>1. /\ UNCHANGED <<patient, asked, serverVars, upVars>>
        /\ \/ client' = client /\ observer' = observer
           \/ client = "wait" /\ client' = "run" /\ observer' = "on"
    <3>1. CASE Observe(k)
      BY <3>1 DEF Observe
    <3>2. CASE Registered(k, torn)
      BY <3>2 DEF Registered
    <3> QED
      BY <1>4, <3>1, <3>2
  <2>2. DownTypes' /\ DownLine' /\ shown' \in Seq(Writes)
    BY <1>4, <2>1, ShowStep, RegisteredStep DEF Observe, serverVars
  <2>3. UpTypes' /\ UpLine'
    BY <1>1, <2>1 DEF serverVars
  <2>4. TypeOK'
    BY <1>0, <2>1, <2>2, <2>3 DEF TypeOK, UpTypes, DownTypes, serverVars
  <2>5. Counts'
    BY <1>0, <2>1 DEF Counts, serverVars, upVars
  <2> QED
    BY <2>2, <2>3, <2>4, <2>5 DEF SessionInv
<1>5. ASSUME UNCHANGED <<patient, asked, shown, handled, written, incoming, upVars, downVars>>,
             client' = client \/ client' = "over",
             observer' \in {"off", "on", "done"}, online' \in BOOLEAN,
             worker' = worker \/ worker' \in {"close", "gone"}
      PROVE  SessionInv'
  <2>1. UpTypes' /\ UpLine' /\ DownTypes' /\ DownLine'
    BY <1>1, <1>2, <1>5
  <2>2. TypeOK'
    BY <1>0, <1>5, <2>1 DEF TypeOK, UpTypes, DownTypes
  <2>3. Counts'
    BY <1>0, <1>5 DEF Counts, upVars
  <2> QED
    BY <2>1, <2>2, <2>3 DEF SessionInv
<1>6. CASE ObserveEof \/ Leave \/ Unregister \/ Close \/ UNCHANGED vars
  BY <1>0, <1>5, <1>6 DEF ObserveEof, Leave, Unregister, Close, TypeOK, vars, clientVars, serverVars
<1>7. ASSUME NEW k \in 1..Len(up), TakeRegister(k) \/ TakeRequest(k)
      PROVE  SessionInv'
  <2>1. /\ Take(k) /\ UNCHANGED <<patient, clientVars, written, incoming, downVars>>
        /\ worker' \in {"greet", "answer"} /\ (online' = TRUE \/ online' = online)
    BY <1>7 DEF TakeRegister, TakeRequest
  <2>2. /\ UpTypes' /\ UpLine' /\ handled' \in Seq(Requests)
        /\ Len(handled') = Len(handled) + 1
        /\ Len(handled') + Len(upHeld') + Len(up') <= asked'
    BY <2>1, TakeStep DEF clientVars
  <2>3. DownTypes' /\ DownLine'
    BY <1>2, <2>1 DEF clientVars
  <2>4. TypeOK'
    BY <1>0, <2>1, <2>2, <2>3 DEF TypeOK, UpTypes, DownTypes, clientVars
  <2>5. written + 1 <= incoming + (Len(handled) + 1) /\ written <= incoming + (Len(handled) + 1)
    OBVIOUS
  <2>6. Counts'
    BY <1>0, <2>1, <2>2, <2>5 DEF Counts, clientVars
  <2> QED
    BY <2>2, <2>3, <2>4, <2>6 DEF SessionInv
<1>8. CASE Greet \/ Answer
  <2>1. /\ \E kind \in {"OK", "answer", "incoming"} : Write(kind)
        /\ UNCHANGED <<patient, clientVars, handled, online, incoming, upVars>>
        /\ worker' \in {"recv", "unregister"} /\ worker \in {"greet", "answer"}
    BY <1>8 DEF Greet, Answer
  <2>2. written + 1 <= incoming + Len(handled)
    BY <1>0, <2>1 DEF Counts
  <2>3. written + 1 <= MaxRequests + MaxIncoming + 2
    BY <2>2
  <2>4. /\ DownTypes' /\ DownLine' /\ written' = written + 1
        /\ written' \in 0..MaxRequests + MaxIncoming + 2
    BY <2>1, <2>3, WriteStep DEF clientVars
  <2>5. UpTypes' /\ UpLine'
    BY <1>1, <2>1 DEF clientVars
  <2>6. TypeOK'
    BY <1>0, <2>1, <2>4, <2>5 DEF TypeOK, UpTypes, DownTypes, clientVars
  <2>7. Counts'
    BY <1>0, <2>1, <2>2, <2>4 DEF Counts, clientVars, upVars
  <2> QED
    BY <2>4, <2>5, <2>6, <2>7 DEF SessionInv
<1>9. CASE Deliver
  <2>1. /\ Write("incoming") /\ incoming' = incoming + 1 /\ incoming < MaxIncoming
        /\ UNCHANGED <<patient, clientVars, worker, handled, online, upVars>>
    BY <1>9 DEF Deliver
  <2>2. written + 1 <= MaxRequests + MaxIncoming + 2 /\ incoming + 1 \in 0..MaxIncoming
    BY <2>1
  <2>3. /\ DownTypes' /\ DownLine' /\ written' = written + 1
        /\ written' \in 0..MaxRequests + MaxIncoming + 2
    BY <2>1, <2>2, WriteStep DEF clientVars
  <2>4. UpTypes' /\ UpLine'
    BY <1>1, <2>1 DEF clientVars
  <2>5. TypeOK'
    BY <1>0, <2>1, <2>2, <2>3, <2>4 DEF TypeOK, UpTypes, DownTypes, clientVars
  <2>6. /\ written + 1 <= incoming + Len(handled) => (written + 1) + 1 <= (incoming + 1) + Len(handled)
        /\ written + 1 <= (incoming + 1) + Len(handled)
    OBVIOUS
  <2>7. Counts'
    BY <1>0, <2>1, <2>3, <2>6 DEF Counts, clientVars, upVars
  <2> QED
    BY <2>3, <2>4, <2>5, <2>7 DEF SessionInv
<1> QED
  BY <1>3, <1>4, <1>6, <1>7, <1>8, <1>9 DEF Next, ClientStep, Reception, WorkerStep

LEMMA SessionInvariant == Spec => []SessionInv
  BY SessionInit, SessionStep, PTL DEF Spec

\* The variables keep their types, the numbers of the messages among them.
THEOREM SessionTypeCorrect == Spec => []TypeOK
<1>1. SessionInv => TypeOK
  BY DEF SessionInv
<1> QED BY <1>1, SessionInvariant, PTL

\* Requests are handled, and what the server writes is shown, in the order they
\* were sent and none of them twice, however recv cuts the streams and holds
\* messages back.
THEOREM InOrderCorrect == Spec => []InOrder
<1>1. SessionInv => InOrder
  BY DEF SessionInv, UpLine, DownLine, InLine, InOrder
<1> QED BY <1>1, SessionInvariant, PTL
=============================================================================
