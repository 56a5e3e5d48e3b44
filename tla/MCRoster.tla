-------------------------------- MODULE MCRoster --------------------------------
(* Roster with a client that leaves its nickname for a free one, and the   *)
(* watcher after the nickname it leaves.                                   *)
EXTENDS Roster

CONSTANTS w, c1, x

Asked == [c \in Clients |-> IF c = w THEN {c1} ELSE IF c = c1 THEN {x} ELSE {}]
=================================================================================
