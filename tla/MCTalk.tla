--------------------------------- MODULE MCTalk ---------------------------------
(* Talk with its target lists.                                             *)
EXTENDS Talk, TLC

TargetLists == {<<Chan>>} \cup {<<d, Chan>> : d \in Clients}
Symmetry == Permutations(Clients)
=================================================================================
