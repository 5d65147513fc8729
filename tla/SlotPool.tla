------------------------------- MODULE SlotPool -------------------------------
(***************************************************************************)
(* What the server's thread pool promises: a slot is given to one job at a *)
(* time, and comes back only when the job in it is over.                   *)
(***************************************************************************)
CONSTANTS Slots, Jobs, None

VARIABLE job       \* the job in each slot, None when it is free

Init == job = [s \in Slots |-> None]

Take(s, j) ==
  /\ job[s] = None
  /\ \A t \in Slots : job[t] # j
  /\ job' = [job EXCEPT ![s] = j]

Give(s) ==
  /\ job[s] # None
  /\ job' = [job EXCEPT ![s] = None]

Next == \E s \in Slots : Give(s) \/ \E j \in Jobs : Take(s, j)

Spec == Init /\ [][Next]_job
=============================================================================
