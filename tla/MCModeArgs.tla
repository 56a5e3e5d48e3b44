------------------------------ MODULE MCModeArgs ------------------------------
(* Two members, one of them an IRC operator, and words that are a key, a   *)
(* number, a negative number or nothing.                                   *)
EXTENDS ModeArgs

NumberOf == [w \in Words |-> CASE w = "2" -> 2 [] w = "-3" -> -3 [] OTHER -> 0]
==============================================================================
