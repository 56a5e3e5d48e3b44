----------------------------- MODULE Registration -----------------------------
(***************************************************************************)
(* Registration and nicknames: the commands PASS, NICK, USER, OPER and     *)
(* QUIT of Operator.cpp, the user state of Client and the nickname list of *)
(* ClientInfo.                                                             *)
(*                                                                         *)
(* The commands of one client run one at a time (OneReader of EventLoop),  *)
(* those of different clients in parallel, so a client is the process      *)
(* here.  _cl_list_lock covers one access to the nickname list at a time:  *)
(* a command that first checks a nickname and then enters it does so in    *)
(* two steps, and others run in between.  A client's own fields are        *)
(* written by its own commands only, so what a command does to them        *)
(* belongs to the access before it.                                        *)
(***************************************************************************)
EXTENDS Naturals, FiniteSets

CONSTANTS
  Clients,   \* the connections made over a run, each used once
  Nicks,     \* the nicknames that _avail_nick accepts
  Star,      \* "*", the nickname of a client that gave none
  NoClient   \* the list has no entry

ASSUME NamesAssumption == Star \notin Nicks /\ NoClient \notin Clients

VARIABLES
  ustate,     \* _user_state; OFF before the connection
  passOk,     \* _passwd_ok
  nick,       \* _nickname
  user,       \* _username is not "*"
  nickList,   \* _cl_nick_list
  pc,         \* what the client's command still has to do
  arg,        \* the nickname it does it with
  clash,      \* history: nicknames two connected clients had at a time
  gave        \* history: clients whose USER was carried out

vars == <<ustate, passOk, nick, user, nickList, pc, arg, clash, gave>>

Connected  == {c \in Clients : ustate[c] \in {"NEEDREG", "NEEDNICK", "AVAIL", "OPERATOR"}}
Registered == {c \in Clients : ustate[c] \in {"AVAIL", "OPERATOR"}}

Init ==
  /\ ustate = [c \in Clients |-> "OFF"]
  /\ passOk = [c \in Clients |-> FALSE]
  /\ nick = [c \in Clients |-> Star]
  /\ user = [c \in Clients |-> FALSE]
  /\ nickList = [n \in Nicks |-> NoClient]
  /\ pc = [c \in Clients |-> "idle"]
  /\ arg = [c \in Clients |-> Star]
  /\ clash = {} /\ gave = {}

SetState(c, s) == ustate' = [ustate EXCEPT ![c] = s]

(* nick_set, and the clash it brings about.                                *)
SetNick(c, n) ==
  /\ nick' = [nick EXCEPT ![c] = n]
  /\ clash' = IF \E d \in Connected \ {c} : nick[d] = n
                THEN clash \cup {n} ELSE clash

(* nick_dup_check: find_client by nickname, under the read lock.           *)
InUse(n) == nickList[n] # NoClient /\ ustate[nickList[n]] # "UNAVAIL"

(* std::map::insert leaves an entry that is there alone.                   *)
MutantInserted(list, n, c) == [list EXCEPT ![n] = c]
Inserted(list, n, c) == IF list[n] = NoClient THEN [list EXCEPT ![n] = c] ELSE list

(* std::map::erase takes whatever entry is there.                          *)
Erased(list, n) == [m \in Nicks |-> IF m = n THEN NoClient ELSE list[m]]

(* remove_client under the write lock: the entry at the client's nickname  *)
(* is erased, the state set.                                               *)
MutantRemove(c) ==
  /\ SetState(c, "UNAVAIL")
  /\ UNCHANGED <<passOk, nick, user, gave, nickList, pc, arg, clash>>

Remove(c) ==
  /\ nickList' = Erased(nickList, nick[c])
  /\ SetState(c, "UNAVAIL")
  /\ UNCHANGED <<passOk, nick, user, gave, pc, arg, clash>>

Idle(c) == c \in Connected /\ pc[c] = "idle"

------------------------------------------------------------------------------
Connect(c) ==
  /\ ustate[c] = "OFF"
  /\ SetState(c, "NEEDREG")
  /\ UNCHANGED <<passOk, nick, user, gave, nickList, pc, arg, clash>>

(* PASS counts only before anything else went wrong; a wrong password      *)
(* removes the client.                                                     *)
Pass(c) ==
  /\ Idle(c) /\ ustate[c] = "NEEDREG"
  /\ passOk' = [passOk EXCEPT ![c] = TRUE]
  /\ UNCHANGED <<ustate, nick, user, gave, nickList, pc, arg, clash>>

PassWrong(c) ==
  /\ Idle(c) /\ ustate[c] = "NEEDREG"
  /\ Remove(c)

(* cmd_proc lets nothing but PASS through before the password is given,    *)
(* and removes the client that tries.                                      *)
Admitted(c) == Idle(c) /\ passOk[c]

Refuse(c) ==
  /\ Idle(c) /\ ~passOk[c]
  /\ Remove(c)

(* NICK in state NEEDREG: an unacceptable nickname removes the client, one *)
(* in use leaves it in NEEDNICK.                                           *)
NickFirstBad(c) ==
  /\ Admitted(c) /\ ustate[c] = "NEEDREG"
  /\ Remove(c)

NickFirst(c, n) ==
  /\ Admitted(c) /\ ustate[c] = "NEEDREG"
  /\ IF InUse(n)
       THEN SetState(c, "NEEDNICK") /\ UNCHANGED <<nick, clash>>
       ELSE SetNick(c, n) /\ UNCHANGED ustate
  /\ UNCHANGED <<passOk, user, gave, nickList, pc, arg>>

(* NICK in state NEEDNICK: with a username already set the client          *)
(* registers.                                                              *)
NickAgain(c, n) ==
  /\ Admitted(c) /\ ustate[c] = "NEEDNICK"
  /\ ~ InUse(n)
  /\ SetNick(c, n)
  /\ IF user[c]
       THEN /\ SetState(c, "AVAIL")
            /\ pc' = [pc EXCEPT ![c] = "insert"]
       ELSE UNCHANGED <<ustate, pc>>
  /\ UNCHANGED <<passOk, user, gave, nickList, arg>>

(* USER: registers the client unless its nickname is missing or was        *)
(* refused.  The username may be "*", which the tests of it take for none: *)
(* USER is then carried out again, and again enters a client that is       *)
(* registered, no longer as an IRC operator.                               *)
NickGiven(c) == nick[c] # Star

User(c, named) ==
  /\ Admitted(c) /\ ~user[c]
  /\ user' = [user EXCEPT ![c] = named]
  /\ gave' = gave \cup {c}
  /\ \/ /\ ~NickGiven(c)
        /\ SetState(c, "NEEDNICK") /\ UNCHANGED pc
     \/ /\ NickGiven(c) /\ ustate[c] # "NEEDNICK"
        /\ SetState(c, "AVAIL") /\ pc' = [pc EXCEPT ![c] = "insert"]
     \/ /\ NickGiven(c) /\ ustate[c] = "NEEDNICK"
        /\ UNCHANGED <<ustate, pc>>
  /\ UNCHANGED <<passOk, nick, nickList, arg, clash>>

(* reg_client under the write lock.                                        *)
RegClient(c) ==
  /\ pc[c] = "insert"
  /\ nickList' = Inserted(nickList, nick[c], c)
  /\ pc' = [pc EXCEPT ![c] = "idle"]
  /\ UNCHANGED <<ustate, passOk, nick, user, gave, arg, clash>>

(* NICK of a registered client: the check, then client_nick_change under   *)
(* the write lock.                                                         *)
NickCheck(c, n) ==
  /\ Admitted(c) /\ c \in Registered
  /\ ~ InUse(n)
  /\ arg' = [arg EXCEPT ![c] = n]
  /\ pc' = [pc EXCEPT ![c] = "change"]
  /\ UNCHANGED <<ustate, passOk, nick, user, gave, nickList, clash>>

MutantRenamed(list, old, n, c) == Inserted(list, n, c)
Renamed(list, old, n, c) == Inserted(Erased(list, old), n, c)

ClientNickChange(c) ==
  /\ pc[c] = "change"
  /\ nickList' = Renamed(nickList, nick[c], arg[c], c)
  /\ SetNick(c, arg[c])
  /\ pc' = [pc EXCEPT ![c] = "idle"]
  /\ arg' = [arg EXCEPT ![c] = Star]
  /\ UNCHANGED <<ustate, passOk, user, gave>>

Oper(c) ==
  /\ Admitted(c) /\ c \in Registered
  /\ SetState(c, "OPERATOR")
  /\ UNCHANGED <<passOk, nick, user, gave, nickList, pc, arg, clash>>

(* QUIT of a client that is not registered is ignored.                     *)
Quit(c) ==
  /\ Admitted(c) /\ c \in Registered
  /\ Remove(c)

(* The end of the connection.                                              *)
Disconnect(c) ==
  /\ Idle(c)
  /\ Remove(c)

(* close_client, at once after a disconnection, otherwise when the last    *)
(* output of the removed client is out.                                    *)
CloseClient(c) ==
  /\ ustate[c] = "UNAVAIL"
  /\ SetState(c, "CLOSE")
  /\ UNCHANGED <<passOk, nick, user, gave, nickList, pc, arg, clash>>

(* What the commands and the connection of one client do.                  *)
ClientNext(c) ==
  \/ Connect(c) \/ Pass(c) \/ PassWrong(c) \/ Refuse(c)
  \/ NickFirstBad(c) \/ RegClient(c) \/ ClientNickChange(c)
  \/ Oper(c) \/ Quit(c) \/ Disconnect(c) \/ CloseClient(c)
  \/ \E n \in Nicks : NickFirst(c, n) \/ NickAgain(c, n) \/ NickCheck(c, n)
  \/ \E named \in BOOLEAN : User(c, named)

Next == \E c \in Clients : ClientNext(c)

Spec == Init /\ [][Next]_vars

------------------------------------------------------------------------------
(* The ranges of the client fields and of the list.                        *)
TypeOK ==
  /\ ustate \in [Clients -> {"OFF", "NEEDREG", "NEEDNICK", "AVAIL", "OPERATOR",
                             "UNAVAIL", "CLOSE"}]
  /\ passOk \in [Clients -> BOOLEAN]
  /\ nick \in [Clients -> Nicks \cup {Star}]
  /\ user \in [Clients -> BOOLEAN]
  /\ nickList \in [Nicks -> Clients \cup {NoClient}]
  /\ pc \in [Clients -> {"idle", "insert", "change"}]
  /\ arg \in [Clients -> Nicks \cup {Star}]
  /\ clash \subseteq Nicks /\ gave \subseteq Clients

(* Whoever a nickname leads to is registered, and has that nickname: no    *)
(* path leaves an entry behind for a client that left or renamed itself,   *)
(* even though an erase takes whatever entry is there and an insert may    *)
(* find the place taken.                                                   *)
ListedUnderOwnNick ==
  \A n \in Nicks : nickList[n] # NoClient =>
    nickList[n] \in Registered /\ nick[nickList[n]] = n

(* A registered client gave the password, a nickname and USER, in whatever *)
(* order and with whatever refusals in between, although what the code     *)
(* keeps of USER, a username, can look like none; and one in NEEDREG       *)
(* cannot have given all three without being registered.                   *)
RegistrationComplete ==
  \A c \in Clients :
    /\ c \in Registered => passOk[c] /\ c \in gave /\ nick[c] # Star
    /\ ustate[c] = "NEEDREG" => c \notin gave

(* The commands under way: a client about to be entered or renamed is      *)
(* registered, and one that is not connected yet has given nothing.        *)
UnderWay ==
  \A c \in Clients :
    /\ pc[c] # "idle" => c \in Registered
    /\ pc[c] = "change" <=> arg[c] # Star
    /\ ustate[c] = "OFF" => c \notin gave /\ nick[c] = Star
    /\ user[c] => c \in gave

(* The history variable says what it should.                               *)
ClashKnown ==
  \A c, d \in Connected :
    c # d /\ nick[c] = nick[d] /\ nick[c] # Star => nick[c] \in clash

(* A registered client is found under its nickname, unless it has not been *)
(* entered yet or two connected clients have at some time had this same    *)
(* nickname: that, and only that, is how a client can be lost to PRIVMSG,  *)
(* KICK and INVITE.                                                        *)
FoundUnlessClash ==
  \A c \in Registered :
    pc[c] # "insert" /\ nick[c] \notin clash => nickList[nick[c]] = c

(* An entry changes hands or disappears only in the step in which a        *)
(* connected client of this very nickname gives it up, by leaving or by a  *)
(* rename: the client it leads to, or another that came by the same        *)
(* nickname through the gap.  Nobody else's command can take it away, even *)
(* after a clash, although insert and erase go by the nickname alone and   *)
(* a command may have looked at the list long before.                      *)
GivesUp(c) == ustate'[c] = "UNAVAIL" \/ (pc[c] = "change" /\ pc'[c] = "idle")

LostToNamesakeOnly ==
  [][\A n \in Nicks :
       nickList[n] # NoClient /\ nickList'[n] # nickList[n]
         => \E c \in Connected : nick[c] = n /\ GivesUp(c)]_vars

(* The inductive invariant.                                                *)
IInv ==
  /\ TypeOK /\ ListedUnderOwnNick /\ RegistrationComplete /\ UnderWay
  /\ ClashKnown /\ FoundUnlessClash

Dir == INSTANCE NickDirectory WITH directory <- nickList
ImplementsDirectory == Dir!DirSpec
==============================================================================
