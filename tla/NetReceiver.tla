------------------------------ MODULE NetReceiver -----------------------------
(***************************************************************************)
(* Framing: how one side's NetReceiver (project/src/net.cpp) cuts the byte *)
(* stream of a TCP connection into the messages the other side sent.       *)
(*                                                                         *)
(* The n-th message is its header, the rest of its fields, and MSG_SEP     *)
(* (project/src/protocol.cpp); send writes one more byte, the NUL that     *)
(* ends the C string.  Fields are sanitized, so MSG_SEP is nowhere else.   *)
(* TCP keeps the order of the bytes and nothing else: ::recv returns any   *)
(* part of what has arrived.                                               *)
(***************************************************************************)
EXTENDS Integers, SequencesExt

CONSTANTS
  MaxMessages,   \* bound on the messages sent
  MaxChunk       \* the units ::recv returns at most (MAX_BUF_LEN)

ASSUME NetReceiverAssumption ==
  /\ MaxMessages \in Nat
  /\ MaxChunk \in Nat \ {0}

VARIABLES
  waits,      \* the sender waits until its message was received (never changes)
  sent,       \* how many messages were sent
  closed,     \* the sender has closed the connection
  channel,    \* the units on their way
  buf,        \* NetReceiver::buf: what was received beyond a separator
  str,        \* the local variable str of NetReceiver::recv
  state,      \* of the receiver: outside recv, in recv, or at the end of file
  received    \* the contents recv has returned

vars == <<waits, sent, closed, channel, buf, str, state, received>>

-----------------------------------------------------------------------------
Unit(n, part) == [msg |-> n, part |-> part]
Sep == Unit(0, "sep")
Nul == Unit(0, "nul")

\* What send writes for the n-th message.
Frame(n) == <<Unit(n, "header"), Unit(n, "fields"), Sep, Nul>>

Units == {Sep, Nul} \cup {Unit(n, p) : n \in 1..MaxMessages, p \in {"header", "fields"}}

TypeOK ==
  /\ waits \in BOOLEAN
  /\ sent \in 0..MaxMessages
  /\ closed \in BOOLEAN
  /\ channel \in Seq(Units) /\ buf \in Seq(Units) /\ str \in Seq(Units)
  /\ state \in {"idle", "recv", "eof"}
  /\ received \in Seq(Seq(Units))
  /\ state = "idle" => str = <<>>
  /\ state = "recv" => buf = <<>>

\* Fault: a byte in front of the header is not expected.
HeaderInFront(content) ==
  IF Len(content) >= 1 /\ content[1].part = "header" THEN content[1].msg ELSE 0

\* The message that a content is taken for: its header is the first byte, or
\* the second when the first belongs to no field separator (a NUL that was
\* left of the message before); 0 for UNDEFINED.
Header(content) ==
  IF Len(content) >= 1 /\ content[1].part = "header" THEN content[1].msg
  ELSE IF Len(content) >= 2 /\ content[2].part = "header" THEN content[2].msg
  ELSE 0

Init ==
  /\ waits \in BOOLEAN
  /\ sent = 0 /\ closed = FALSE /\ channel = <<>>
  /\ buf = <<>> /\ str = <<>> /\ state = "idle" /\ received = <<>>

-----------------------------------------------------------------------------
Send ==
  /\ ~closed
  /\ sent < MaxMessages
  /\ waits => sent = Len(received)
  /\ sent' = sent + 1
  /\ channel' = channel \o Frame(sent + 1)
  /\ UNCHANGED <<waits, closed, buf, str, state, received>>

CloseSender ==
  /\ ~closed
  /\ closed' = TRUE
  /\ UNCHANGED <<waits, sent, channel, buf, str, state, received>>

\* Fault: what was left stays in the buffer as well.
CallKeepsBuffer ==
  /\ state = "idle"
  /\ state' = "recv"
  /\ str' = buf
  /\ UNCHANGED <<waits, sent, closed, channel, buf, received>>

\* recv is called: what was left is copied without looking for a separator.
Call ==
  /\ state = "idle"
  /\ state' = "recv"
  /\ str' = buf
  /\ buf' = <<>>
  /\ UNCHANGED <<waits, sent, closed, channel, received>>

NoSep(s) == \A i \in DOMAIN s : s[i] # Sep

\* Fault: the separator is not looked for.
ChunkUnscanned(k) ==
  /\ state = "recv"
  /\ str' = str \o SubSeq(channel, 1, k)
  /\ channel' = SubSeq(channel, k + 1, Len(channel))
  /\ UNCHANGED <<waits, sent, closed, buf, state, received>>

\* ::recv returns k units without a separator: recv goes on.
ChunkWithout(k) ==
  LET chunk == SubSeq(channel, 1, k) IN
  /\ state = "recv"
  /\ NoSep(chunk)
  /\ str' = str \o chunk
  /\ channel' = SubSeq(channel, k + 1, Len(channel))
  /\ UNCHANGED <<waits, sent, closed, buf, state, received>>

\* Fault: what is kept begins with the separator.
ChunkWithSepKept(k, i) ==
  LET chunk == SubSeq(channel, 1, k) IN
  /\ state = "recv"
  /\ chunk[i] = Sep /\ NoSep(SubSeq(chunk, 1, i - 1))
  /\ received' = Append(received, str \o SubSeq(chunk, 1, i - 1))
  /\ str' = <<>>
  /\ buf' = SubSeq(chunk, i, k)
  /\ channel' = SubSeq(channel, k + 1, Len(channel))
  /\ state' = "idle"
  /\ UNCHANGED <<waits, sent, closed>>

\* Fault: what is behind the separator is not kept.
ChunkWithRestDropped(k, i) ==
  LET chunk == SubSeq(channel, 1, k) IN
  /\ state = "recv"
  /\ chunk[i] = Sep /\ NoSep(SubSeq(chunk, 1, i - 1))
  /\ received' = Append(received, str \o SubSeq(chunk, 1, i - 1))
  /\ str' = <<>>
  /\ channel' = SubSeq(channel, k + 1, Len(channel))
  /\ state' = "idle"
  /\ UNCHANGED <<waits, sent, closed, buf>>

\* ::recv returns k units, the i-th of which is the first separator: recv
\* returns, and keeps what is behind it.
ChunkWith(k, i) ==
  LET chunk == SubSeq(channel, 1, k) IN
  /\ state = "recv"
  /\ chunk[i] = Sep /\ NoSep(SubSeq(chunk, 1, i - 1))
  /\ received' = Append(received, str \o SubSeq(chunk, 1, i - 1))
  /\ str' = <<>>
  /\ buf' = SubSeq(chunk, i + 1, k)
  /\ channel' = SubSeq(channel, k + 1, Len(channel))
  /\ state' = "idle"
  /\ UNCHANGED <<waits, sent, closed>>

\* recv returns error code 0, and drops what it had.
Eof ==
  /\ state = "recv"
  /\ closed /\ channel = <<>>
  /\ state' = "eof"
  /\ UNCHANGED <<waits, sent, closed, channel, buf, str, received>>

Arrived == 1..(IF Len(channel) < MaxChunk THEN Len(channel) ELSE MaxChunk)

Receive == Call \/ Eof \/ \E k \in Arrived : ChunkWithout(k) \/ \E i \in 1..k : ChunkWith(k, i)

Next == Send \/ CloseSender \/ Receive

Spec == Init /\ [][Next]_vars

\* TCP delivers what was sent and the receiver is called again and again.
FairSpec == Spec /\ WF_vars(Receive)

-----------------------------------------------------------------------------
(* Properties.                                                             *)

\* No unit is lost, doubled or moved: what recv returned (with the separator
\* it takes out), what it holds and what is on its way are what was sent.
Conservation ==
  FlattenSeq([i \in DOMAIN received |-> Append(received[i], Sep)]) \o str \o buf \o channel
    = FlattenSeq([n \in 1..sent |-> Frame(n)])

\* Whatever the pace of the sender, every content begins with a message, and
\* no message is taken twice or out of order.
HeadersInOrder ==
  \A i, j \in DOMAIN received :
    /\ Header(received[i]) # 0
    /\ i < j => Header(received[i]) < Header(received[j])

\* When the sender waits, each call returns exactly the next message, although
\* the NUL of one message may come in front of the next.
OneByOne == waits => \A i \in DOMAIN received : Header(received[i]) = i

\* When the sender waits, the end of file discards no message.
NothingDiscarded ==
  waits /\ state = "eof" => \A i \in DOMAIN str : str[i].part # "header"

Taken(n) == \E i \in DOMAIN received : Header(received[i]) = n

\* When the sender waits, every message that it sends is received.
AllTaken == \A n \in 1..MaxMessages : (waits /\ sent >= n) ~> Taken(n)

\* The bytes implement the messages: a message is where its separator is.
CountSeps(s) == Cardinality({i \in DOMAIN s : s[i] = Sep})

\* The n messages up to and including message last.
UpTo(last, n) == [i \in 1..n |-> last - n + i]

MessagesIn(s) ==
  FlattenSeq([i \in DOMAIN s |-> IF s[i].part = "header" THEN <<s[i].msg>> ELSE <<>>])

Messages == INSTANCE Receiver WITH
  Message <- 1..MaxMessages,
  channel <- UpTo(sent, CountSeps(channel)),
  held <- UpTo(sent - CountSeps(channel), CountSeps(str \o buf)),
  content <- IF received = <<>> THEN <<>> ELSE MessagesIn(Last(received))

ReceiverSpec == Messages!Spec
=============================================================================
