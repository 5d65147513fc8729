--------------------------- MODULE ThreadPoolProofs ---------------------------
(***************************************************************************)
(* Theorems about ThreadPool, for any number of slots and connections.     *)
(***************************************************************************)
EXTENDS ThreadPool, TLAPS

-----------------------------------------------------------------------------
(* The inductive invariant.                                                *)

\* What the accept loop holds between its steps.
LoopInv ==
  /\ apc # "accept" => conn_sock \in Jobs
  /\ conn_sock \in Jobs =>
       conn_sock \notin waiting /\ \A s \in Slots : serving[s] # conn_sock
  /\ apc \in {"join", "mark", "start"} => i \in Slots
  /\ apc \in {"join", "mark"} => free_thread[i]
  /\ apc = "start" => ~free_thread[i]
  /\ apc \in {"mark", "start"} => ~joinable[i]

\* How the state of a slot, of its thread object and of its thread agree.
SlotInv ==
  \A s \in Slots :
    /\ free_thread[s] => tpc[s] # "running"
    /\ joinable[s] => tpc[s] # "none"
    /\ ~joinable[s] => tpc[s] \in {"none", "ended"}
    /\ serving[s] # NoJob => tpc[s] = "running" /\ serving[s] \notin waiting

PoolInv == TypeOK /\ LoopInv /\ SlotInv /\ ~crashed

\* The invariant holds at first.
LEMMA PoolInit == Init => PoolInv
  BY ThreadPoolAssumption DEF Init, PoolInv, TypeOK, LoopInv, SlotInv

\* Every step keeps the invariant, one step of the proof per action.
LEMMA PoolStep == PoolInv /\ [Next]_vars => PoolInv'
<1> SUFFICES ASSUME PoolInv, [Next]_vars
             PROVE  PoolInv'
  OBVIOUS
<1> USE ThreadPoolAssumption DEF PoolInv, TypeOK, LoopInv, SlotInv
<1>1. ASSUME NEW j \in Jobs, Accept(j)
      PROVE  PoolInv'
  BY <1>1 DEF Accept
<1>2. CASE Scan
  BY <1>2 DEF Scan
<1>3. CASE Join
  BY <1>3 DEF Join
<1>4. CASE Mark
  BY <1>4 DEF Mark
<1>5. CASE Start
  <2>1. /\ i \in Slots /\ conn_sock \in Jobs /\ joinable[i] = FALSE
        /\ conn_sock \notin waiting
    BY <1>5 DEF Start
  <2>2. TypeOK'
    BY <1>5, <2>1 DEF Start
  <2>3. LoopInv'
    BY <1>5 DEF Start
  <2>4. SlotInv'
    <3> SUFFICES ASSUME NEW s \in Slots
                 PROVE  SlotInv!(s)'
      OBVIOUS
    <3>1. CASE s = i
      BY <1>5, <2>1, <3>1 DEF Start
    <3>2. CASE s # i
      BY <1>5, <2>1, <3>2 DEF Start
    <3> QED BY <3>1, <3>2
  <2>5. ~crashed'
    BY <1>5, <2>1 DEF Start
  <2> QED BY <2>2, <2>3, <2>4, <2>5
<1>6. ASSUME NEW s \in Slots, Finish(s)
      PROVE  PoolInv'
  BY <1>6 DEF Finish
<1>7. ASSUME NEW s \in Slots, Return(s)
      PROVE  PoolInv'
  BY <1>7 DEF Return
<1>8. CASE UNCHANGED vars
  BY <1>8 DEF vars
<1> QED BY <1>1, <1>2, <1>3, <1>4, <1>5, <1>6, <1>7, <1>8 DEF Next, AcceptLoop

\* The accept loop, the slots, the thread objects and the threads agree in
\* every reachable state (serverLoop, userInteraction).
THEOREM PoolInvariant == Spec => []PoolInv
  BY PoolInit, PoolStep, PTL DEF Spec

\* The variables of the accept loop and the slots keep their types.
THEOREM PoolTypeCorrect == Spec => []TypeOK
<1>1. PoolInv => TypeOK
  BY DEF PoolInv
<1> QED BY <1>1, PoolInvariant, PTL

-----------------------------------------------------------------------------
\* The accept loop never assigns a thread object that still stands for a
\* thread (serverLoop).
THEOREM NeverTerminatesCorrect == Spec => []NeverTerminates
<1>1. PoolInv => NeverTerminates
  BY DEF PoolInv, NeverTerminates
<1> QED BY <1>1, PoolInvariant, PTL

\* The accept loop never waits for a thread that serves a client (serverLoop).
THEOREM JoinsOnlyFinishedCorrect == Spec => []JoinsOnlyFinished
<1>1. PoolInv => JoinsOnlyFinished
  <2> SUFFICES ASSUME PoolInv, apc = "join", joinable[i]
               PROVE  tpc[i] \in {"marked", "ended"}
    BY DEF JoinsOnlyFinished
  <2>1. i \in Slots /\ tpc[i] # "running"
    BY DEF PoolInv, LoopInv, SlotInv
  <2>2. tpc[i] # "none"
    BY <2>1 DEF PoolInv, SlotInv
  <2> QED BY <2>1, <2>2 DEF PoolInv, TypeOK
<1> QED BY <1>1, PoolInvariant, PTL

\* A slot is given to one connection at a time (serverLoop, userInteraction).
THEOREM ThreadsImplementPool == Spec => PoolSpec
<1>1. Init => Pool!Init
  BY DEF Init, Pool!Init
<1>2. PoolInv /\ [Next]_vars => [Pool!Next]_serving
  <2> SUFFICES ASSUME PoolInv, Next
               PROVE  [Pool!Next]_serving
    BY DEF vars
  <2>1. CASE Start
    <3>1. i \in Slots /\ conn_sock \in Jobs /\ Pool!Take(i, conn_sock)
      BY <2>1 DEF Start, Pool!Take, PoolInv, LoopInv, SlotInv
    <3> QED BY <3>1 DEF Pool!Next
  <2>2. ASSUME NEW s \in Slots, Finish(s)
        PROVE  [Pool!Next]_serving
    <3>1. serving[s] # NoJob => Pool!Give(s)
      BY <2>2 DEF Finish, Pool!Give
    <3>2. serving[s] = NoJob => UNCHANGED serving
      BY <2>2 DEF Finish, PoolInv, TypeOK
    <3> QED BY <3>1, <3>2 DEF Pool!Next
  <2>3. CASE ~Start /\ ~\E s \in Slots : Finish(s)
    BY <2>3 DEF Next, AcceptLoop, Accept, Scan, Join, Mark, Return
  <2> QED BY <2>1, <2>2, <2>3
<1> QED BY <1>1, <1>2, PoolInvariant, PTL DEF Spec, PoolSpec, Pool!Spec

=============================================================================
