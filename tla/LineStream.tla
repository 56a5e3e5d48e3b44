------------------------------ MODULE LineStream ------------------------------
(***************************************************************************)
(* What a reader of lines promises: the bytes that arrive are cut at each  *)
(* CR LF, and the lines are delivered one by one, each once and in order,  *)
(* however the bytes were split on their way.                              *)
(***************************************************************************)
EXTENDS Naturals, Sequences, FiniteSetsExt

CONSTANTS CR, LF

VARIABLES
  arrived,     \* the bytes that arrived
  delivered    \* the lines handed on

vars == <<arrived, delivered>>

(* The positions of the CR LF pairs; two of them never overlap.            *)
Ends(bytes) == {i \in 1..(Len(bytes) - 1) : bytes[i] = CR /\ bytes[i + 1] = LF}

EndsBefore(bytes, i) == {j \in Ends(bytes) : j < i}

(* The line that ends before the pair at e begins behind the pair before   *)
(* it.                                                                     *)
Begins(bytes, e) ==
  IF EndsBefore(bytes, e) = {} THEN 1 ELSE Max(EndsBefore(bytes, e)) + 2

Line(bytes, e) == SubSeq(bytes, Begins(bytes, e), e - 1)

Init == arrived = <<>> /\ delivered = <<>>

Arrive ==
  /\ Len(arrived) <= Len(arrived') /\ SubSeq(arrived', 1, Len(arrived)) = arrived
  /\ UNCHANGED delivered

(* The next line is the one that has as many before it as were delivered.  *)
Deliver ==
  /\ \E e \in Ends(arrived) :
       /\ Cardinality(EndsBefore(arrived, e)) = Len(delivered)
       /\ delivered' = Append(delivered, Line(arrived, e))
  /\ UNCHANGED arrived

Next == Arrive \/ Deliver

Spec == Init /\ [][Next]_vars
==============================================================================
