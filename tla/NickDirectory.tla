---------------------------- MODULE NickDirectory ----------------------------
(***************************************************************************)
(* What _cl_nick_list promises to the commands that look a client up by    *)
(* nickname: a nickname leads to at most one client, a client is found     *)
(* under at most one nickname, and a new client never takes a place that   *)
(* is not free.  Entries may be lost, and a rename frees its old place     *)
(* before it takes the new one, whoever that place belonged to.            *)
(***************************************************************************)
CONSTANTS
  Clients,   \* the connections
  Nicks,     \* the nicknames
  NoClient   \* nobody is found under the nickname

VARIABLE directory

Entered(c) == \E n \in Nicks : directory[n] = c

DirInit == directory = [n \in Nicks |-> NoClient]

(* A client that has no entry takes a free nickname.                       *)
Claim(c, n) ==
  /\ directory[n] = NoClient
  /\ ~ Entered(c)
  /\ directory' = [directory EXCEPT ![n] = c]

(* An entry goes.                                                          *)
Drop(n) == directory' = [directory EXCEPT ![n] = NoClient]

(* A rename: the old place is freed, and a client that is found nowhere    *)
(* else takes the new one if it is free by then.                           *)
Swap(c, old, n) ==
  /\ n = old \/ directory[n] = NoClient
  /\ \A m \in Nicks : directory[m] = c => m = old
  /\ directory' = [directory EXCEPT ![old] = NoClient, ![n] = c]

DirNext ==
  \/ \E c \in Clients, n \in Nicks : Claim(c, n)
  \/ \E n \in Nicks : Drop(n)
  \/ \E c \in Clients, old, n \in Nicks : Swap(c, old, n)

DirSpec == DirInit /\ [][DirNext]_directory
==============================================================================
