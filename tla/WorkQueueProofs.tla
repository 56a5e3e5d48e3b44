--------------------------- MODULE WorkQueueProofs ---------------------------
(***************************************************************************)
(* Theorems about WorkQueue, for any finite set of workers and any bound   *)
(* on the messages: the mutex discipline, EnoughAwake, SleepersWereLate,   *)
(* and the implementation of MessagePool.                                  *)
(***************************************************************************)
EXTENDS WorkQueue, FiniteSetTheorems, TLAPS

(* Init establishes every part of the invariant.                           *)
LEMMA InitIInv == Init => IInv
  BY WorkersAssumption, MsgsAssumption
  DEF Init, IInv, TypeOK, WorkerPcs, MainPcs, Ownership, Numbering,
      Stopping, EnoughAwake, SleepersWereLate

(* A step keeps every variable in its range.                               *)
LEMMA TypeStep == IInv /\ [Next]_vars => TypeOK'
<1> SUFFICES ASSUME TypeOK, Numbering, [Next]_vars
             PROVE  TypeOK'
  BY DEF IInv
<1> USE WorkersAssumption, MsgsAssumption
    DEF TypeOK, WorkerPcs, MainPcs, Transition, queueVars
<1>1. CASE MainLock
  BY <1>1 DEF MainLock
<1>2. CASE MainPush
  <2>1. sent + 1 \in 1..MaxMsgs
    BY <1>2 DEF MainPush, Numbering
  <2> QED
    BY <1>2, <2>1 DEF MainPush, Enqueue, Signal
<1>3. CASE MainStop \/ MainClearStatus \/ MainBroadcast \/ MainJoin
  BY <1>3 DEF MainStop, MainClearStatus, MainBroadcast, MainJoin, AfterBroadcast
<1>4. ASSUME NEW w \in Workers, WorkerNext(w) \/ Spurious(w)
      PROVE  TypeOK'
  <2>1. CASE Pop(w)
    BY <2>1 DEF Pop
  <2>2. CASE Serve(w)
    <3>1. job[w] \in 1..MaxMsgs
      BY <2>2 DEF Serve, Numbering
    <3> QED
      BY <2>2, <3>1 DEF Serve
  <2> QED
    BY <1>4, <2>1, <2>2 DEF WorkerNext, Test, Lock, Wait, Wake, Woken, Spurious
<1>5. CASE UNCHANGED vars
  BY <1>5 DEF vars
<1> QED
  BY <1>1, <1>2, <1>3, <1>4, <1>5 DEF Next, MainNext

(* A step keeps the mutex with the thread inside the critical section.     *)
LEMMA OwnershipStep == IInv /\ [Next]_vars => Ownership'
<1> SUFFICES ASSUME TypeOK, Ownership, [Next]_vars
             PROVE  Ownership'
  BY DEF IInv
<1> USE WorkersAssumption DEF TypeOK, Ownership, Transition, queueVars
<1>1. CASE MainLock
  BY <1>1 DEF MainLock
<1>2. CASE MainPush
  BY <1>2 DEF MainPush, Signal
<1>3. CASE MainStop \/ MainClearStatus \/ MainBroadcast \/ MainJoin
  BY <1>3 DEF MainStop, MainClearStatus, MainBroadcast, MainJoin, AfterBroadcast
<1>4. ASSUME NEW w \in Workers, WorkerNext(w) \/ Spurious(w)
      PROVE  Ownership'
  BY <1>4 DEF WorkerNext, Test, Lock, Wait, Pop, Wake, Woken, Serve, Spurious
<1>5. CASE UNCHANGED vars
  BY <1>5 DEF vars
<1> QED
  BY <1>1, <1>2, <1>3, <1>4, <1>5 DEF Next, MainNext

(* A step keeps the numbers to those of registered messages.               *)
LEMMA NumberingStep == IInv /\ [Next]_vars => Numbering'
<1> SUFFICES ASSUME TypeOK, Numbering, [Next]_vars
             PROVE  Numbering'
  BY DEF IInv
<1> USE MsgsAssumption DEF TypeOK, Numbering, Transition, queueVars
<1>1. CASE MainPush
  BY <1>1 DEF MainPush, Enqueue
<1>2. CASE MainLock \/ MainStop \/ MainClearStatus \/ MainBroadcast \/ MainJoin
  BY <1>2 DEF MainLock, MainStop, MainClearStatus, MainBroadcast, MainJoin
<1>3. ASSUME NEW w \in Workers, WorkerNext(w) \/ Spurious(w)
      PROVE  Numbering'
  <2>1. CASE Pop(w)
    <3>1. messageQ[1] \in 1..MaxMsgs /\ messageQ[1] <= sent
      BY <2>1 DEF Pop
    <3> QED
      BY <2>1, <3>1 DEF Pop
  <2>2. CASE Serve(w)
    BY <2>2 DEF Serve
  <2> QED
    BY <1>3, <2>1, <2>2 DEF WorkerNext, Test, Lock, Wait, Wake, Woken, Spurious
<1>4. CASE UNCHANGED vars
  BY <1>4 DEF vars
<1> QED
  BY <1>1, <1>2, <1>3, <1>4 DEF Next, MainNext

(* A step keeps the late workers the only ones that can reach the wait     *)
(* after the broadcast.                                                    *)
LEMMA StoppingStep == IInv /\ [Next]_vars => Stopping' /\ SleepersWereLate'
<1> SUFFICES ASSUME TypeOK, Ownership, Stopping, SleepersWereLate, [Next]_vars
             PROVE  Stopping' /\ SleepersWereLate'
  BY DEF IInv
<1> USE DEF TypeOK, Stopping, SleepersWereLate, Transition, queueVars
<1>1. CASE MainPush
  BY <1>1 DEF MainPush
<1>2. CASE MainLock \/ MainStop \/ MainClearStatus \/ MainBroadcast \/ MainJoin
  BY <1>2 DEF MainLock, MainStop, MainClearStatus, MainBroadcast, MainJoin,
              AfterBroadcast
<1>3. ASSUME NEW w \in Workers, WorkerNext(w) \/ Spurious(w)
      PROVE  Stopping' /\ SleepersWereLate'
  BY <1>3 DEF WorkerNext, Test, Lock, Wait, Pop, Wake, Woken, Serve, Spurious
<1>4. CASE UNCHANGED vars
  BY <1>4 DEF vars
<1> QED
  BY <1>1, <1>2, <1>3, <1>4 DEF Next, MainNext

(* The heading workers form a finite set, so that they can be counted.     *)
LEMMA HeadingFinite == IsFiniteSet(Heading) /\ Cardinality(Heading) \in Nat
<1>1. Heading \subseteq Workers
  BY DEF Heading
<1> QED
  BY <1>1, WorkersAssumption, FS_Subset, FS_CardinalityType

(* The wake-up of one sleeper adds one heading worker.                     *)
LEMMA HeadingGains ==
  ASSUME NEW w, w \notin Heading, Heading' = Heading \cup {w}
  PROVE  Cardinality(Heading') = Cardinality(Heading) + 1
  BY HeadingFinite, FS_AddElement

(* A worker that leaves the way to the test makes Heading one smaller.     *)
LEMMA HeadingLoses ==
  ASSUME NEW w \in Heading, Heading' = Heading \ {w}
  PROVE  Cardinality(Heading') = Cardinality(Heading) - 1
  BY HeadingFinite, FS_RemoveElement

(* A push comes with its signal, a pop takes one message and one heading   *)
(* worker, and a worker goes to sleep only when nothing waits.             *)
LEMMA EnoughAwakeStep == IInv /\ [Next]_vars => EnoughAwake'
<1> SUFFICES ASSUME IInv, [Next]_vars, workerStatus' = 1, waitSet' # {}
             PROVE  Len(messageQ') <= Cardinality(Heading')
  BY DEF EnoughAwake
<1> USE DEF IInv, TypeOK, Ownership, Transition, queueVars
<1>0. /\ Cardinality(Heading) \in Nat
      /\ Len(messageQ) \in Nat
  BY HeadingFinite
<1>1. CASE MainPush
  <2>1. waitSet # {}
    BY <1>1 DEF MainPush, Signal
  <2>2. PICK x \in waitSet : waitSet' = waitSet \ {x}
    BY <1>1, <2>1 DEF MainPush, Signal
  <2>3. /\ x \notin Heading
        /\ Heading' = Heading \cup {x}
    BY <1>1, <2>2 DEF MainPush, Heading
  <2>4. Len(messageQ') = Len(messageQ) + 1
    BY <1>1 DEF MainPush, Enqueue
  <2>5. Cardinality(Heading') = Cardinality(Heading) + 1
    BY <2>3, HeadingGains
  <2>6. Len(messageQ) <= Cardinality(Heading)
    BY <1>1, <2>1 DEF MainPush, EnoughAwake
  <2> QED
    BY <1>0, <2>4, <2>5, <2>6
<1>2. CASE MainLock \/ MainStop \/ MainJoin
  <2>1. Heading' = Heading
    BY <1>2 DEF MainLock, MainStop, MainJoin, Heading
  <2> QED
    BY <1>2, <2>1 DEF MainLock, MainStop, MainJoin, EnoughAwake
<1>3. CASE MainClearStatus \/ MainBroadcast
  BY <1>3 DEF MainClearStatus, MainBroadcast, AfterBroadcast
<1>4. ASSUME NEW w \in Workers, WorkerNext(w)
      PROVE  Len(messageQ') <= Cardinality(Heading')
  <2>1. CASE Test(w) \/ Lock(w) \/ Wake(w) \/ Woken(w)
    <3>1. workerStatus = 1 /\ UNCHANGED <<waitSet, messageQ>>
      BY <2>1 DEF Test, Lock, Wake, Woken
    <3>2. Heading' = Heading
      BY <2>1, <3>1 DEF Test, Lock, Wake, Woken, Heading
    <3> QED
      BY <3>1, <3>2 DEF EnoughAwake
  <2>2. CASE Wait(w)
    <3>1. Heading' \subseteq Workers
      BY DEF Heading
    <3>2. Cardinality(Heading') \in Nat
      BY <3>1, WorkersAssumption, FS_Subset, FS_CardinalityType
    <3>3. messageQ' = <<>>
      BY <2>2 DEF Wait
    <3> QED
      BY <3>2, <3>3
  <2>3. CASE Pop(w)
    <3>1. w \in Heading /\ Heading' = Heading \ {w}
      BY <2>3 DEF Pop, Heading
    <3>2. Len(messageQ') = Len(messageQ) - 1
      BY <2>3 DEF Pop
    <3>3. Cardinality(Heading') = Cardinality(Heading) - 1
      BY <3>1, HeadingLoses
    <3>4. Len(messageQ) <= Cardinality(Heading)
      BY <2>3 DEF Pop, EnoughAwake
    <3> QED
      BY <1>0, <3>2, <3>3, <3>4
  <2>4. CASE Serve(w)
    <3>1. w \notin Heading /\ Heading' = Heading \cup {w}
      BY <2>4 DEF Serve, Heading
    <3>2. Cardinality(Heading') = Cardinality(Heading) + 1
      BY <3>1, HeadingGains
    <3>3. messageQ' = messageQ /\ Len(messageQ) <= Cardinality(Heading)
      BY <2>4 DEF Serve, EnoughAwake
    <3> QED
      BY <1>0, <3>2, <3>3
  <2> QED
    BY <1>4, <2>1, <2>2, <2>3, <2>4 DEF WorkerNext
<1>5. ASSUME NEW w \in Workers, Spurious(w)
      PROVE  Len(messageQ') <= Cardinality(Heading')
  <2>1. w \notin Heading /\ Heading' = Heading \cup {w}
    BY <1>5 DEF Spurious, Heading
  <2>2. Cardinality(Heading') = Cardinality(Heading) + 1
    BY <2>1, HeadingGains
  <2>3. messageQ' = messageQ /\ Len(messageQ) <= Cardinality(Heading)
    BY <1>5 DEF Spurious, EnoughAwake
  <2> QED
    BY <1>0, <2>2, <2>3
<1>6. CASE UNCHANGED vars
  BY <1>6 DEF vars, EnoughAwake, Heading
<1> QED
  BY <1>1, <1>2, <1>3, <1>4, <1>5, <1>6 DEF Next, MainNext

(* The invariant of the worker queue holds in every reachable state.       *)
THEOREM Invariance == Spec => []IInv
<1>1. IInv /\ [Next]_vars => IInv'
  BY TypeStep, OwnershipStep, NumberingStep, StoppingStep, EnoughAwakeStep DEF IInv
<1> QED
  BY InitIInv, <1>1, PTL DEF Spec

(* Whatever the number of workers, none sleeps on a message it is needed   *)
(* for: each push of reg_msg has its wake-up.                              *)
THEOREM NoLostWakeup == Spec => []EnoughAwake
<1>1. IInv => EnoughAwake
  BY DEF IInv
<1> QED
  BY Invariance, <1>1, PTL

(* A thread that never returns to the join of destroy is one that was      *)
(* between its test of _worker_status and pthread_cond_wait.               *)
THEOREM OnlyLateSleepers == Spec => []SleepersWereLate
<1>1. IInv => SleepersWereLate
  BY DEF IInv
<1> QED
  BY Invariance, <1>1, PTL

------------------------------------------------------------------------------
(* The implementation of MessagePool: every step of a thread is a step of  *)
(* the pool or leaves it alone.                                            *)

(* The empty queue is the empty pool.                                      *)
LEMMA InitPool == Init => Pool!PoolInit
  BY DEF Init, Pool!PoolInit

(* Every step is a step of the pool or changes nothing in it.              *)
LEMMA StepPool == IInv /\ [Next]_vars => [Pool!PoolNext]_(Pool!poolVars)
<1> SUFFICES ASSUME IInv, [Next]_vars
             PROVE  [Pool!PoolNext]_(Pool!poolVars)
  OBVIOUS
<1> USE DEF IInv, TypeOK, Numbering, Transition, queueVars
<1>1. CASE MainPush
  <2>1. sent + 1 \in 1..MaxMsgs
    BY <1>1, MsgsAssumption DEF MainPush
  <2>2. sent + 1 \notin Pool!Registered
    BY <1>1, MsgsAssumption DEF Pool!Registered
  <2>3. Pool!Register(sent + 1)
    BY <1>1, <2>1, <2>2 DEF Pool!Register, MainPush, Enqueue
  <2> QED
    BY <2>1, <2>3 DEF Pool!PoolNext
<1>2. CASE MainLock \/ MainStop \/ MainClearStatus \/ MainBroadcast \/ MainJoin
  BY <1>2 DEF MainLock, MainStop, MainClearStatus, MainBroadcast, MainJoin,
              Pool!poolVars
<1>3. ASSUME NEW w \in Workers, WorkerNext(w) \/ Spurious(w)
      PROVE  [Pool!PoolNext]_(Pool!poolVars)
  <2>1. CASE Pop(w)
    <3>1. job[w] = NoMsg
      BY <2>1 DEF Pop
    <3>2. Pool!Take(w)
      BY <2>1, <3>1 DEF Pop, Pool!Take
    <3> QED
      BY <3>2 DEF Pool!PoolNext
  <2>2. CASE Serve(w)
    <3>1. job[w] # NoMsg
      BY <2>2 DEF Serve
    <3>2. Pool!Finish(w)
      BY <2>2, <3>1 DEF Serve, Pool!Finish
    <3> QED
      BY <3>2 DEF Pool!PoolNext
  <2> QED
    BY <1>3, <2>1, <2>2
    DEF WorkerNext, Test, Lock, Wait, Wake, Woken, Spurious, Pool!poolVars
<1>4. CASE UNCHANGED vars
  BY <1>4 DEF vars, Pool!poolVars
<1> QED
  BY <1>1, <1>2, <1>3, <1>4 DEF Next, MainNext

(* The locked queue with its condition variable is the plain pool: each    *)
(* registered message is taken once, in order, by one worker.              *)
THEOREM QueueImplementsPool == Spec => ImplementsPool
  BY InitPool, StepPool, Invariance, PTL DEF Spec, ImplementsPool, Pool!PoolSpec
==============================================================================
