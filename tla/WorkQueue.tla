------------------------------ MODULE WorkQueue ------------------------------
(***************************************************************************)
(* The message queue between the main thread and the worker threads of     *)
(* Worker.cpp: reg_msg pushes under _msgq_m and signals _q_fill_cond, the  *)
(* loop of _worker_thread_func pops under the same mutex, and destroy      *)
(* clears _worker_status, broadcasts and joins.                            *)
(*                                                                         *)
(* Every step is what a thread does between two points where another       *)
(* thread can run.  destroy takes no mutex, so its two writes interleave   *)
(* with a worker that is inside its critical section.  The handling of a   *)
(* message (find_client, client_read, cmd_proc, client_write) is a single  *)
(* step here; EventLoop opens it up.                                       *)
(***************************************************************************)
EXTENDS Naturals, Sequences, FiniteSets

CONSTANTS
  Workers,    \* the threads of _thread_list (NUM_THREAD of them)
  MaxMsgs,    \* bound on the messages the main thread registers
  Main,       \* the thread that runs Server::run
  NoThread,   \* _msgq_m is free
  NoMsg       \* the worker handles no message

ASSUME WorkersAssumption ==
  /\ IsFiniteSet(Workers)
  /\ Workers # {}
  /\ Main \notin Workers
  /\ NoThread \notin Workers \cup {Main}

ASSUME MsgsAssumption ==
  /\ MaxMsgs \in Nat
  /\ NoMsg \notin Nat

VARIABLES
  workerStatus,   \* _worker_status
  messageQ,       \* _msgQ._messageQ; messages are numbered as registered
  holder,         \* the thread that holds _msgQ._msgq_m
  waitSet,        \* threads asleep in pthread_cond_wait(_q_fill_cond)
  pc,             \* where each worker is in _worker_thread_func
  job,            \* curr_msg of each worker
  mainPc,         \* where the main thread is in reg_msg and destroy
  sent,           \* number of messages registered so far
  handled,        \* history: messages whose handling is over
  late            \* history: the workers that had read _worker_status as
                  \* set and were not yet waiting when destroy broadcast

vars == <<workerStatus, messageQ, holder, waitSet, pc, job, mainPc, sent,
          handled, late>>

queueVars  == <<messageQ, job, sent, handled>>
mainVars   == <<workerStatus, mainPc, sent, late>>

(* Points of the worker loop, by the line of Worker.cpp executed next.     *)
WorkerPcs == {"test",    \* 78  while (_worker_status)
              "lock",    \* 81  pthread_mutex_lock
              "check",   \* 82  while (q._messageQ.empty())
              "wait",    \* 84  inside pthread_cond_wait
              "woken",   \* 85  if (!_worker_status), mutex held again
              "serve",   \* 94  the message is being handled
              "exit"}    \*     the thread function has returned

MainPcs == {"run", "push", "destroy", "broadcast", "join", "joined"}

Transition(w, from, to) ==
  /\ pc[w] = from
  /\ pc' = [pc EXCEPT ![w] = to]

Init ==
  /\ workerStatus = 1
  /\ messageQ = <<>>
  /\ holder = NoThread
  /\ waitSet = {}
  /\ pc = [w \in Workers |-> "test"]
  /\ job = [w \in Workers |-> NoMsg]
  /\ mainPc = "run"
  /\ sent = 0
  /\ handled = {}
  /\ late = {}

------------------------------------------------------------------------------
(* The main thread.                                                        *)

(* pthread_cond_signal wakes one of the waiters, if there is one: the wait *)
(* sets it can leave behind.                                               *)
MutantNoSignal(waiters, queue) == {waiters}
MutantSignalIfWasEmpty(waiters, queue) ==
  IF waiters = {} \/ queue # <<>> THEN {waiters}
  ELSE {waiters \ {w} : w \in waiters}

Signal(waiters, queue) ==
  IF waiters = {} THEN {waiters} ELSE {waiters \ {w} : w \in waiters}

(* reg_msg, first half: the scope lock on _msgq_m.                         *)
MainLock ==
  /\ mainPc = "run"
  /\ sent < MaxMsgs
  /\ holder = NoThread
  /\ holder' = Main
  /\ mainPc' = "push"
  /\ UNCHANGED <<workerStatus, waitSet, pc, queueVars, late>>

(* reg_msg, second half: push_back, pthread_cond_signal and the unlock at  *)
(* the end of the scope.  No thread can look at the queue in between.      *)
MutantPushFront(q, m) == <<m>> \o q
Enqueue(q, m) == Append(q, m)

MainPush ==
  /\ mainPc = "push"
  /\ messageQ' = Enqueue(messageQ, sent + 1)
  /\ sent' = sent + 1
  /\ waitSet' \in Signal(waitSet, messageQ)
  /\ holder' = NoThread
  /\ mainPc' = "run"
  /\ UNCHANGED <<workerStatus, pc, job, handled, late>>

(* SIGINT, or an error of kevent, ends the loop of Server::run.            *)
MainStop ==
  /\ mainPc = "run"
  /\ mainPc' = "destroy"
  /\ UNCHANGED <<workerStatus, holder, waitSet, pc, queueVars, late>>

(* destroy: _worker_status = 0, without _msgq_m.                           *)
MainClearStatus ==
  /\ mainPc = "destroy"
  /\ workerStatus' = 0
  /\ mainPc' = "broadcast"
  /\ UNCHANGED <<holder, waitSet, pc, queueVars, late>>

(* destroy: pthread_cond_broadcast, without _msgq_m.                       *)
MutantSignalAtStop == IF waitSet = {} THEN {} ELSE waitSet \ {CHOOSE w \in waitSet : TRUE}
AfterBroadcast == {}

MainBroadcast ==
  /\ mainPc = "broadcast"
  /\ waitSet' = AfterBroadcast
  /\ late' = {w \in Workers : pc[w] \in {"lock", "check"}}
  /\ mainPc' = "join"
  /\ UNCHANGED <<workerStatus, holder, pc, queueVars>>

(* destroy: pthread_join of every thread.                                  *)
MainJoin ==
  /\ mainPc = "join"
  /\ \A w \in Workers : pc[w] = "exit"
  /\ mainPc' = "joined"
  /\ UNCHANGED <<workerStatus, holder, waitSet, pc, queueVars, late>>

------------------------------------------------------------------------------
(* A worker thread.                                                        *)

Test(w) ==
  /\ Transition(w, "test", IF workerStatus = 1 THEN "lock" ELSE "exit")
  /\ UNCHANGED <<holder, waitSet, queueVars, workerStatus, mainPc, late>>

Lock(w) ==
  /\ Transition(w, "lock", "check")
  /\ holder = NoThread
  /\ holder' = w
  /\ UNCHANGED <<waitSet, queueVars, workerStatus, mainPc, late>>

(* The queue is empty: pthread_cond_wait releases the mutex and sleeps in  *)
(* one step.                                                               *)
Wait(w) ==
  /\ Transition(w, "check", "wait")
  /\ messageQ = <<>>
  /\ waitSet' = waitSet \cup {w}
  /\ holder' = NoThread
  /\ UNCHANGED <<queueVars, workerStatus, mainPc, late>>

(* front, pop_front and the unlock.                                        *)

Pop(w) ==
  /\ Transition(w, "check", "serve")
  /\ messageQ # <<>>
  /\ job' = [job EXCEPT ![w] = Head(messageQ)]
  /\ messageQ' = Tail(messageQ)
  /\ holder' = NoThread
  /\ UNCHANGED <<waitSet, workerStatus, mainPc, sent, handled, late>>

(* pthread_cond_wait returns once the mutex is held again.                 *)
Wake(w) ==
  /\ Transition(w, "wait", "woken")
  /\ w \notin waitSet
  /\ holder = NoThread
  /\ holder' = w
  /\ UNCHANGED <<waitSet, queueVars, workerStatus, mainPc, late>>

(* POSIX lets pthread_cond_wait return with no signal.                     *)
Spurious(w) ==
  /\ w \in waitSet
  /\ waitSet' = waitSet \ {w}
  /\ UNCHANGED <<holder, pc, queueVars, workerStatus, mainPc, late>>

(* Line 85: the status is read again after every return of the wait.       *)
MutantWoken(w) ==
  /\ Transition(w, "woken", IF workerStatus = 0 THEN "exit" ELSE "check")
  /\ UNCHANGED <<holder, waitSet, queueVars, workerStatus, mainPc, late>>

Woken(w) ==
  /\ IF workerStatus = 0
       THEN Transition(w, "woken", "exit") /\ holder' = NoThread
       ELSE Transition(w, "woken", "check") /\ UNCHANGED holder
  /\ UNCHANGED <<waitSet, queueVars, workerStatus, mainPc, late>>

(* The message is handled and the loop starts over.                        *)
Serve(w) ==
  /\ Transition(w, "serve", "test")
  /\ handled' = handled \cup {job[w]}
  /\ job' = [job EXCEPT ![w] = NoMsg]
  /\ UNCHANGED <<messageQ, sent, holder, waitSet, workerStatus, mainPc, late>>

------------------------------------------------------------------------------
MainNext ==
  \/ MainLock \/ MainPush
  \/ MainStop \/ MainClearStatus \/ MainBroadcast \/ MainJoin

WorkerNext(w) ==
  \/ Test(w) \/ Lock(w) \/ Wait(w) \/ Pop(w)
  \/ Wake(w) \/ Woken(w) \/ Serve(w)

Next ==
  \/ MainNext
  \/ \E w \in Workers : WorkerNext(w) \/ Spurious(w)

Spec == Init /\ [][Next]_vars

(* Threads are scheduled: one that can go on does.  Nothing makes an event *)
(* arrive, the server stop or a wait return spuriously.  A mutex is not    *)
(* handed out fairly, so acquiring one gets weak fairness only.            *)
Fairness ==
  /\ WF_vars(MainPush) /\ WF_vars(MainClearStatus)
  /\ WF_vars(MainBroadcast) /\ WF_vars(MainJoin)
  /\ \A w \in Workers : WF_vars(WorkerNext(w))

FairSpec == Spec /\ Fairness

------------------------------------------------------------------------------
(* Properties.                                                             *)

(* The threads, the queue and the counters are in their ranges.            *)
TypeOK ==
  /\ workerStatus \in {0, 1}
  /\ messageQ \in Seq(1..MaxMsgs)
  /\ holder \in Workers \cup {Main, NoThread}
  /\ waitSet \subseteq Workers
  /\ pc \in [Workers -> WorkerPcs]
  /\ job \in [Workers -> (1..MaxMsgs) \cup {NoMsg}]
  /\ mainPc \in MainPcs
  /\ sent \in 0..MaxMsgs
  /\ handled \subseteq 1..MaxMsgs
  /\ late \subseteq Workers

(* _msgq_m is held exactly by the thread between its lock and its unlock,  *)
(* and a thread in the wait set is inside pthread_cond_wait.               *)
Ownership ==
  /\ \A w \in Workers : holder = w <=> pc[w] \in {"check", "woken"}
  /\ holder = Main <=> mainPc = "push"
  /\ \A w \in waitSet : pc[w] = "wait"

(* The workers on their way to the emptiness test: awake and not handling  *)
(* a message.                                                              *)
Heading ==
  {w \in Workers : \/ pc[w] \in {"test", "lock", "check", "woken"}
                   \/ pc[w] = "wait" /\ w \notin waitSet}

(* No worker sleeps while more messages wait than workers are on their way *)
(* to take one: the signal of reg_msg, one per push whatever the length of *)
(* the queue, is never lost between a worker's emptiness test and its      *)
(* wait, and a worker that finds its message stolen does not take the      *)
(* wake-up of another message with it.                                     *)
EnoughAwake ==
  workerStatus = 1 /\ waitSet # {} => Len(messageQ) <= Cardinality(Heading)

(* A thread that destroy will join can only be asleep if it had already    *)
(* read _worker_status as set, and had not reached pthread_cond_wait, when *)
(* the broadcast came: destroy takes no mutex, so that window exists, and  *)
(* it is the only way a join can hang.                                     *)
SleepersWereLate == mainPc \in {"join", "joined"} => waitSet \subseteq late

(* The numbers in the queue, in the hands of the workers and handled are   *)
(* those of registered messages, and only a serving worker has one.        *)
Numbering ==
  /\ mainPc = "push" => sent < MaxMsgs
  /\ \A i \in DOMAIN messageQ : messageQ[i] <= sent
  /\ \A w \in Workers : job[w] # NoMsg <=> pc[w] = "serve"
  /\ \A w \in Workers : job[w] # NoMsg => job[w] <= sent
  /\ \A m \in handled : m <= sent

(* Once destroy has broadcast, the workers that can still reach the wait   *)
(* are those that were late.                                               *)
Stopping ==
  /\ workerStatus = 0 <=> mainPc \in {"broadcast", "join", "joined"}
  /\ mainPc \in {"join", "joined"} =>
       \A w \in Workers : pc[w] \in {"lock", "check"} => w \in late

(* The inductive invariant: every variable is in its range, every path of  *)
(* the worker loop, its two returns included, gives the mutex back, and    *)
(* the two properties above hold.                                          *)
IInv ==
  /\ TypeOK /\ Ownership /\ Numbering /\ Stopping
  /\ EnoughAwake /\ SleepersWereLate

(* Every registered message that waits is eventually handled, unless the   *)
(* server is stopped first: no message is stuck in _messageQ however the   *)
(* workers contend for the mutex and steal each other's wake-ups.          *)
EveryMessageHandled ==
  \A m \in 1..MaxMsgs : sent >= m ~> (m \in handled \/ workerStatus = 0)

(* If no worker was in the window of SleepersWereLate when destroy         *)
(* broadcast, all threads return and destroy does too.                     *)
JoinReturns == (mainPc = "join" /\ late = {}) ~> mainPc = "joined"

(* The queue with its mutex and condition variable implements the plain    *)
(* pool of messages: registration order, one worker per message, nothing   *)
(* lost and nothing handled twice.                                         *)
Pool == INSTANCE MessagePool WITH pending <- messageQ
ImplementsPool == Pool!PoolSpec
==============================================================================
