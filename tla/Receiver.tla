------------------------------- MODULE Receiver -------------------------------
(***************************************************************************)
(* What a NetReceiver (project/src/net.cpp) makes of a stream of messages, *)
(* without bytes: a call waits for a message that it has not received any  *)
(* part of yet, and returns it behind all those that came in one chunk     *)
(* with the message before.                                                *)
(***************************************************************************)
EXTENDS Sequences, Integers

CONSTANT Message

VARIABLES
  channel,     \* the messages whose end was not received yet
  held,        \* those received beyond the one that a call returned last
  content      \* what that call returned: one message or several in a row

receiverVars == <<channel, held, content>>

Init == channel = <<>> /\ held = <<>> /\ content = <<>>

Send(m) ==
  /\ channel' = Append(channel, m)
  /\ UNCHANGED <<held, content>>

\* Fault: what is held begins with the message that is returned.
RecvKeepsFirst(k) ==
  /\ content' = Append(held, Head(channel))
  /\ held' = SubSeq(channel, 1, k)
  /\ channel' = SubSeq(channel, k + 1, Len(channel))

\* The end of the first message, and of k - 1 more, come in one chunk.
Recv(k) ==
  /\ content' = Append(held, Head(channel))
  /\ held' = SubSeq(channel, 2, k)
  /\ channel' = SubSeq(channel, k + 1, Len(channel))

Next ==
  \/ \E m \in Message : Send(m)
  \/ \E k \in 1..Len(channel) : Recv(k)

Spec == Init /\ [][Next]_receiverVars
=============================================================================
