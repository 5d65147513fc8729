------------------------------ MODULE ThreadPool ------------------------------
(***************************************************************************)
(* The thread pool of the chat server: serverLoop and the end of           *)
(* userInteraction (project/src/server.cpp), step by step around           *)
(* free_thread, which free_thread_mtx protects, and the std::thread        *)
(* objects, which only the accept loop touches.  The critical sections of  *)
(* free_thread_mtx are steps.                                              *)
(***************************************************************************)
EXTENDS Integers, FiniteSets

CONSTANTS
  Slots,         \* 0 .. MAX_NUM_THREADS - 1
  NoSlot,        \* what the scan ends with when no slot is free
  Jobs,          \* the connections that are accepted
  NoJob

ASSUME ThreadPoolAssumption ==
  /\ Slots \subseteq Nat
  /\ NoSlot \notin Slots
  /\ NoJob \notin Jobs

VARIABLES
  apc,           \* where the accept loop is
  i,             \* its variable i
  conn_sock,     \* the connection it has accepted
  waiting,       \* the connections not yet accepted
  free_thread,
  joinable,      \* joinable() of threads[i]
  tpc,           \* the thread last started in a slot: none, running, at its
                 \* very end with the slot marked free, or ended
  serving,       \* the connection the thread in a slot serves
  crashed        \* std::terminate was called

vars == <<apc, i, conn_sock, waiting, free_thread, joinable, tpc, serving, crashed>>

TypeOK ==
  /\ apc \in {"accept", "scan", "join", "mark", "start"}
  /\ i \in Slots \cup {NoSlot}
  /\ conn_sock \in Jobs \cup {NoJob}
  /\ waiting \subseteq Jobs
  /\ free_thread \in [Slots -> BOOLEAN]
  /\ joinable \in [Slots -> BOOLEAN]
  /\ tpc \in [Slots -> {"none", "running", "marked", "ended"}]
  /\ serving \in [Slots -> Jobs \cup {NoJob}]
  /\ crashed \in BOOLEAN

Init ==
  /\ apc = "accept"
  /\ i = NoSlot
  /\ conn_sock = NoJob
  /\ waiting = Jobs
  /\ free_thread = [s \in Slots |-> TRUE]
  /\ joinable = [s \in Slots |-> FALSE]
  /\ tpc = [s \in Slots |-> "none"]
  /\ serving = [s \in Slots |-> NoJob]
  /\ crashed = FALSE

-----------------------------------------------------------------------------
(* The accept loop.                                                        *)

Accept(j) ==
  /\ apc = "accept"
  /\ j \in waiting
  /\ waiting' = waiting \ {j}
  /\ conn_sock' = j
  /\ apc' = "scan"
  /\ UNCHANGED <<i, free_thread, joinable, tpc, serving, crashed>>

\* Fault: what lies behind free_thread is taken for one more slot, free.
ScanTooFar ==
  /\ apc = "scan"
  /\ \E s \in Slots \cup {Cardinality(Slots)} :
       /\ s \in Slots => free_thread[s]
       /\ \A t \in Slots : t < s => ~free_thread[t]
       /\ i' = s
  /\ apc' = "join"
  /\ UNCHANGED <<conn_sock, waiting, free_thread, joinable, tpc, serving, crashed>>

\* The lowest free slot; free_thread_mtx is released after the scan.
Scan ==
  /\ apc = "scan"
  /\ \/ \E s \in Slots :
          /\ free_thread[s]
          /\ \A t \in Slots : t < s => ~free_thread[t]
          /\ i' = s
          /\ apc' = "join"
          /\ UNCHANGED conn_sock
     \* No slot is free: the connection is forgotten.
     \/ /\ \A s \in Slots : ~free_thread[s]
        /\ i' = NoSlot
        /\ apc' = "accept"
        /\ conn_sock' = NoJob
  /\ UNCHANGED <<waiting, free_thread, joinable, tpc, serving, crashed>>

\* Fault: the thread that was in the slot is not joined.
JoinSkipped ==
  /\ apc = "join"
  /\ apc' = "mark"
  /\ UNCHANGED <<i, conn_sock, waiting, free_thread, joinable, tpc, serving, crashed>>

\* join() returns when the thread is over.
Join ==
  /\ apc = "join"
  /\ joinable[i] => tpc[i] = "ended"
  /\ joinable' = [joinable EXCEPT ![i] = FALSE]
  /\ apc' = "mark"
  /\ UNCHANGED <<i, conn_sock, waiting, free_thread, tpc, serving, crashed>>

Mark ==
  /\ apc = "mark"
  /\ free_thread' = [free_thread EXCEPT ![i] = FALSE]
  /\ apc' = "start"
  /\ UNCHANGED <<i, conn_sock, waiting, joinable, tpc, serving, crashed>>

\* Assigning to a joinable std::thread calls std::terminate.
Start ==
  /\ apc = "start"
  /\ crashed' = joinable[i]
  /\ joinable' = [joinable EXCEPT ![i] = TRUE]
  /\ tpc' = [tpc EXCEPT ![i] = "running"]
  /\ serving' = [serving EXCEPT ![i] = conn_sock]
  /\ conn_sock' = NoJob
  /\ apc' = "accept"
  /\ UNCHANGED <<i, waiting, free_thread>>

-----------------------------------------------------------------------------
(* A thread: the end of userInteraction.                                   *)

\* Fault: the slot is marked free by a thread that goes on serving.
FinishEarly(s) ==
  /\ tpc[s] = "running" /\ ~free_thread[s]
  /\ free_thread' = [free_thread EXCEPT ![s] = TRUE]
  /\ UNCHANGED <<apc, i, conn_sock, waiting, joinable, tpc, serving, crashed>>

\* Fault: the connection is not closed.
FinishUnclosed(s) ==
  /\ tpc[s] = "running"
  /\ free_thread' = [free_thread EXCEPT ![s] = TRUE]
  /\ tpc' = [tpc EXCEPT ![s] = "marked"]
  /\ UNCHANGED <<apc, i, conn_sock, waiting, joinable, serving, crashed>>

\* The connection is closed and the slot is marked free, by the thread that
\* is still in it.
Finish(s) ==
  /\ tpc[s] = "running"
  /\ free_thread' = [free_thread EXCEPT ![s] = TRUE]
  /\ serving' = [serving EXCEPT ![s] = NoJob]
  /\ tpc' = [tpc EXCEPT ![s] = "marked"]
  /\ UNCHANGED <<apc, i, conn_sock, waiting, joinable, crashed>>

Return(s) ==
  /\ tpc[s] = "marked"
  /\ tpc' = [tpc EXCEPT ![s] = "ended"]
  /\ UNCHANGED <<apc, i, conn_sock, waiting, free_thread, joinable, serving, crashed>>

-----------------------------------------------------------------------------
AcceptLoop == Scan \/ Join \/ Mark \/ Start

Next ==
  /\ ~crashed
  /\ \/ \E j \in Jobs : Accept(j)
     \/ AcceptLoop
     \/ \E s \in Slots : Finish(s) \/ Return(s)

Spec == Init /\ [][Next]_vars

\* The scheduler runs the accept loop and the threads; a client may never
\* leave, so nothing makes a thread finish.
FairSpec ==
  /\ Spec
  /\ WF_vars(~crashed /\ AcceptLoop)
  /\ \A s \in Slots : WF_vars(~crashed /\ Return(s))

-----------------------------------------------------------------------------
(* Properties.                                                             *)

\* No thread object is assigned while it stands for a thread: the server never
\* calls std::terminate.
NeverTerminates == ~crashed

\* The accept loop only joins threads that have marked their slot: it does
\* not wait for a client.
JoinsOnlyFinished ==
  apc = "join" /\ joinable[i] => tpc[i] \in {"marked", "ended"}

\* Whatever connection it has accepted, the loop comes back to accept the next.
BackToAccept == apc # "accept" ~> apc = "accept"

\* The threads implement the pool of slots.
Pool == INSTANCE SlotPool WITH Slots <- Slots, Jobs <- Jobs, None <- NoJob, job <- serving

PoolSpec == Pool!Spec
=============================================================================
