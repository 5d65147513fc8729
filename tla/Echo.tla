--------------------------------- MODULE Echo ---------------------------------
(***************************************************************************)
(* What an echo server over a stream promises each of its connections: the *)
(* client gets back the bytes it sent, in order, each of them once.  The   *)
(* bytes of a connection are numbered from 1.                              *)
(***************************************************************************)
EXTENDS Naturals

CONSTANTS Conns

VARIABLES
  sent,   \* how many bytes each client has sent
  got     \* the last byte that each client got back

Init == sent = [c \in Conns |-> 0] /\ got = [c \in Conns |-> 0]

Send(c) == sent' = [sent EXCEPT ![c] = @ + 1] /\ UNCHANGED got

Receive(c) ==
  /\ got[c] < sent[c]
  /\ got' = [got EXCEPT ![c] = @ + 1]
  /\ UNCHANGED sent

Next == \E c \in Conns : Send(c) \/ Receive(c)

Spec == Init /\ [][Next]_<<sent, got>>
=============================================================================
