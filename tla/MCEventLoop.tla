----------------------------- MODULE MCEventLoop -----------------------------
(* EventLoop with worker threads that TLC can permute.                     *)
EXTENDS EventLoop, TLC

CONSTANTS w1, w2

WorkerSymmetry == Permutations({w1, w2})
==============================================================================
