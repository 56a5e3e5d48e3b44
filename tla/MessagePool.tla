----------------------------- MODULE MessagePool -----------------------------
(***************************************************************************)
(* What the worker queue of Worker.cpp promises to the rest of the server, *)
(* with no mutex, no condition variable and no thread control: messages    *)
(* wait in the order the main thread registered them, each one is taken    *)
(* off the front by exactly one idle worker, which handles it and is idle  *)
(* again.  WorkQueue is shown to implement this specification.             *)
(***************************************************************************)
EXTENDS Naturals, Sequences

CONSTANTS
  Workers,    \* the threads of _thread_list
  MaxMsgs,    \* bound on the messages ever registered
  NoMsg       \* the job of an idle worker

VARIABLES
  pending,    \* messages waiting, oldest first
  job,        \* the message each worker is handling, or NoMsg
  handled     \* the messages whose handling is over

poolVars == <<pending, job, handled>>

(* Messages are numbered in the order they are registered.                 *)
Registered == handled \cup {job[w] : w \in Workers} \cup {pending[i] : i \in DOMAIN pending}

PoolInit ==
  /\ pending = <<>>
  /\ job = [w \in Workers |-> NoMsg]
  /\ handled = {}

(* A message that was never registered before goes to the back.            *)
Register(m) ==
  /\ m \in 1..MaxMsgs
  /\ m \notin Registered
  /\ pending' = Append(pending, m)
  /\ UNCHANGED <<job, handled>>

(* An idle worker takes the oldest message.                                *)
Take(w) ==
  /\ job[w] = NoMsg
  /\ pending # <<>>
  /\ job' = [job EXCEPT ![w] = Head(pending)]
  /\ pending' = Tail(pending)
  /\ UNCHANGED handled

Finish(w) ==
  /\ job[w] # NoMsg
  /\ handled' = handled \cup {job[w]}
  /\ job' = [job EXCEPT ![w] = NoMsg]
  /\ UNCHANGED pending

PoolNext ==
  \/ \E m \in 1..MaxMsgs : Register(m)
  \/ \E w \in Workers : Take(w) \/ Finish(w)

PoolSpec == PoolInit /\ [][PoolNext]_poolVars
==============================================================================
