------------------------------ MODULE MCChannels ------------------------------
(* Channels with clients and channel objects that TLC can permute.         *)
EXTENDS Channels, TLC

Symmetry == Permutations(Clients) \cup Permutations(Chans)
==============================================================================
