--------------------------------- MODULE Roster ---------------------------------
(***************************************************************************)
(* What the members of a channel are told, and what they then believe.     *)
(*                                                                         *)
(* A command changes the channel under its lock and tells the members in   *)
(* other steps: the sender of a JOIN is a member before it has its own     *)
(* JOIN, its NAMES list is read and sent apart, a PART is told before the  *)
(* member is taken out, a nickname is changed before the NICK goes out.    *)
(* The module follows one channel that a channel operator of its own keeps *)
(* alive (Channels is about channels that come and go, and about clients   *)
(* that OPER made operators), so find_chan always finds it.  Messages      *)
(* reach a client in the order of add_output; at its end is an IRC client  *)
(* that keeps the list of nicknames from them.  One of these is followed,  *)
(* the watcher, which may be any client: what the others show changes      *)
(* nothing.                                                                *)
(*                                                                         *)
(* PART, and the removal of a client, hold _ch_list_lock for writing from  *)
(* the first message to the removal; KICK and the entry of JOIN take it    *)
(* too.  NAMES and TOPIC need the lock of the channel alone.               *)
(***************************************************************************)
EXTENDS Naturals, FiniteSets

CONSTANTS
  Clients,     \* registered clients, the operator that stays not among them
  Nicks,       \* nicknames; a client begins with the one it is named by here
  Wants,       \* the nicknames that each client asks for
  Quitters,    \* the clients that leave the server
  Watcher,     \* the client whose list is followed
  Topics,      \* topics that TOPIC may set
  NoTopic,     \* the empty topic
  NoClient     \* no entry in the nickname list

ASSUME RosterAssumption ==
  /\ Clients \subseteq Nicks /\ Watcher \in Clients
  /\ Wants \in [Clients -> SUBSET Nicks] /\ Quitters \subseteq Clients
  /\ NoTopic \in Topics /\ NoClient \notin Clients

VARIABLES
  member,   \* _member, the operator that stays left out
  nick,     \* _nickname
  nickList, \* _cl_nick_list
  topic,    \* _topic
  pc,       \* what the command of a client does next
  held,     \* what it holds in a local: topic, nicknames or one nickname
  view,     \* nicknames the watcher shows in the channel, {} when outside
  told,     \* the topic it shows
  left,     \* history: nicknames it was told had left before NAMES listed them
  renamed,  \* history: nicknames it was told had changed during its JOIN
  mixed,    \* history: nicknames told under another name than they were known by
  shaken    \* history: kicked during its JOIN or NICK, or TOPIC set during JOIN

vars == <<member, nick, nickList, topic, pc, held, view, told, left, renamed, mixed, shaken>>

beliefs == <<view, told>>
history == <<left, renamed, mixed, shaken>>

Init ==
  /\ member = {} /\ topic = NoTopic
  /\ nick = [c \in Clients |-> c]
  /\ nickList = [n \in Nicks |-> IF n \in Clients THEN n ELSE NoClient]
  /\ pc = [c \in Clients |-> "idle"]
  /\ held = [c \in Clients |-> {}]
  /\ view = {} /\ told = NoTopic
  /\ left = {} /\ renamed = {} /\ mixed = {} /\ shaken = {}

Goto(c, p, local) ==
  /\ pc' = [pc EXCEPT ![c] = p]
  /\ held' = [held EXCEPT ![c] = local]

(* Nobody holds _ch_list_lock over several steps.                          *)
MapFree == \A c \in Clients : pc[c] \notin {"part_tell", "part_out", "quit_out"}

(* The JOIN of the watcher is under way, before it has its NAMES list.     *)
Joining == pc[Watcher] \in {"find", "topic", "echo", "rpl_topic", "names", "rpl_names"}

------------------------------------------------------------------------------
(* The IRC client of the watcher, what it takes for its own nickname, and  *)
(* what it makes of a JOIN, of a PART, KICK or QUIT, of a NICK and of the  *)
(* NAMES list.                                                             *)
The(set) == CHOOSE x \in set : TRUE

Me == IF pc[Watcher] = "nick_echo" THEN The(held[Watcher]) ELSE nick[Watcher]

AfterJoin(n) == IF n = Me THEN {n} ELSE IF view = {} THEN {} ELSE view \cup {n}
AfterLeave(n) == IF n = Me THEN {} ELSE view \ {n}
AfterNick(old, n) == IF old \in view THEN (view \ {old}) \cup {n} ELSE view
AfterNames(names) == IF view = {} THEN {} ELSE view \cup names

(* _channel_output of a PART, KICK or QUIT to a set of members.            *)
TellLeave(to, n) ==
  IF Watcher \in to
    THEN /\ view' = AfterLeave(n)
         /\ left' = IF Joining THEN left \cup {n} ELSE left \ {n}
    ELSE UNCHANGED <<view, left>>

(* channel_output tells the others, when the sender is a member.           *)
Others(c) == IF c \in member THEN member \ {c} ELSE {}

------------------------------------------------------------------------------
(* JOIN: join_chan under both locks, also for one that is a member.  Of    *)
(* the replies to it, those to the watcher are followed.                   *)
JoinChan(c) ==
  /\ pc[c] = "idle" /\ MapFree
  /\ member' = member \cup {c}
  /\ IF c = Watcher
       THEN Goto(c, "find", {}) /\ left' = {} /\ renamed' = {} /\ shaken' = {}
       ELSE Goto(c, "join_tell", {}) /\ UNCHANGED <<left, renamed, shaken>>
  /\ UNCHANGED <<nick, nickList, topic, beliefs, mixed>>

FindChan ==
  /\ pc[Watcher] = "find" /\ MapFree
  /\ Goto(Watcher, "topic", {})
  /\ UNCHANGED <<member, nick, nickList, topic, beliefs, history>>

GetTopic ==
  /\ pc[Watcher] = "topic"
  /\ Goto(Watcher, "echo", {topic})
  /\ UNCHANGED <<member, nick, nickList, topic, beliefs, history>>

AfterEcho(t) == IF t = NoTopic THEN "names" ELSE "rpl_topic"

JoinEcho ==
  /\ pc[Watcher] = "echo"
  /\ view' = AfterJoin(nick[Watcher])
  /\ told' = NoTopic
  /\ LET t == The(held[Watcher])
     IN  Goto(Watcher, AfterEcho(t), IF t = NoTopic THEN {} ELSE {t})
  /\ UNCHANGED <<member, nick, nickList, topic, history>>

RplTopic ==
  /\ pc[Watcher] = "rpl_topic"
  /\ told' = The(held[Watcher])
  /\ Goto(Watcher, "names", {})
  /\ UNCHANGED <<member, nick, nickList, topic, view, history>>

(* get_namelist_reply, and the reply with what it returned.                *)
GetNamelist ==
  /\ pc[Watcher] = "names"
  /\ Goto(Watcher, "rpl_names", {nick[d] : d \in member})
  /\ UNCHANGED <<member, nick, nickList, topic, beliefs, history>>

RplNames ==
  /\ pc[Watcher] = "rpl_names"
  /\ view' = AfterNames(held[Watcher])
  /\ left' = left \cap held[Watcher]
  /\ Goto(Watcher, "join_tell", {})
  /\ UNCHANGED <<member, nick, nickList, topic, told, renamed, mixed, shaken>>

MutantJoinTell(c) ==
  /\ pc[c] = "join_tell"
  /\ Goto(c, "idle", {})
  /\ UNCHANGED <<member, nick, nickList, topic, beliefs, history>>
JoinTell(c) ==
  /\ pc[c] = "join_tell"
  /\ view' = IF Watcher \in Others(c) THEN AfterJoin(nick[c]) ELSE view
  /\ Goto(c, "idle", {})
  /\ UNCHANGED <<member, nick, nickList, topic, told, history>>

------------------------------------------------------------------------------
(* PART: leave_chan tests the membership, then locks the map.              *)
PartCheck(c) ==
  /\ pc[c] = "idle" /\ c \in member
  /\ Goto(c, "part", {})
  /\ UNCHANGED <<member, nick, nickList, topic, beliefs, history>>

MutantPartEcho(c) ==
  /\ pc[c] = "part" /\ MapFree
  /\ view' = IF c = Watcher THEN AfterLeave(nick[c]) ELSE view
  /\ member' = member \ {c}
  /\ Goto(c, "part_tell", {})
  /\ UNCHANGED <<nick, nickList, topic, told, history>>
PartEcho(c) ==
  /\ pc[c] = "part" /\ MapFree
  /\ view' = IF c = Watcher THEN AfterLeave(nick[c]) ELSE view
  /\ Goto(c, "part_tell", {})
  /\ UNCHANGED <<member, nick, nickList, topic, told, history>>

PartTell(c) ==
  /\ pc[c] = "part_tell"
  /\ TellLeave(Others(c), nick[c])
  /\ Goto(c, "part_out", {})
  /\ UNCHANGED <<member, nick, nickList, topic, told, renamed, mixed, shaken>>

PartOut(c) ==
  /\ pc[c] = "part_out"
  /\ member' = member \ {c}
  /\ Goto(c, "idle", {})
  /\ UNCHANGED <<nick, nickList, topic, beliefs, history>>

(* remove_client, then leave_all_channel.                                  *)
Remove(c) ==
  /\ pc[c] = "idle" /\ c \in Quitters
  /\ nickList' = [nickList EXCEPT ![nick[c]] = NoClient]
  /\ Goto(c, "quit", {})
  /\ UNCHANGED <<member, nick, topic, beliefs, history>>

QuitTell(c) ==
  /\ pc[c] = "quit" /\ MapFree
  /\ TellLeave(Others(c), nick[c])
  /\ Goto(c, "quit_out", {})
  /\ UNCHANGED <<member, nick, nickList, topic, told, renamed, mixed, shaken>>

QuitOut(c) ==
  /\ pc[c] = "quit_out"
  /\ member' = member \ {c}
  /\ Goto(c, "gone", {})
  /\ UNCHANGED <<nick, nickList, topic, beliefs, history>>

(* KICK by the operator that stays: kick_user works under both locks, and  *)
(* names the member by the nickname it has by then.                        *)
Renaming == {c \in Clients : pc[c] \in {"nick_echo", "nick_tell"}}

(* Who is told: all of the members, the one to go among them.              *)
MutantKicked(d) == member \ {d}
Kicked(d) == member

Kick(d) ==
  /\ MapFree /\ d \in member
  /\ TellLeave(Kicked(d), nick[d])
  /\ member' = member \ {d}
  /\ mixed' = IF d \in Renaming THEN mixed \cup held[d] \cup {nick[d]} ELSE mixed
  /\ shaken' = IF d = Watcher /\ (Joining \/ d \in Renaming)
                 THEN shaken \cup {"kick"} ELSE shaken
  /\ UNCHANGED <<nick, nickList, topic, pc, held, told, renamed>>

------------------------------------------------------------------------------
(* NICK: nick_dup_check, the change under the lock of the client list, the *)
(* NICK to its sender, and to the members of its channels.                 *)
Found(n) == nickList[n] # NoClient /\ pc[nickList[n]] \notin {"quit", "quit_out", "gone"}

NickCheck(c, n) ==
  /\ pc[c] = "idle" /\ n \in Wants[c] /\ ~ Found(n)
  /\ Goto(c, "nick", {n})
  /\ UNCHANGED <<member, nick, nickList, topic, beliefs, history>>

(* client_nick_change: the old entry is erased, the new one is inserted    *)
(* when there is none.  A nickname is mixed up when the members may still  *)
(* know another client by it.                                              *)
NickSet(c) ==
  LET n      == The(held[c])
      erased == [nickList EXCEPT ![nick[c]] = NoClient]
  IN  /\ pc[c] = "nick"
      /\ nick' = [nick EXCEPT ![c] = n]
      /\ nickList' = IF erased[n] = NoClient THEN [erased EXCEPT ![n] = c] ELSE erased
      /\ Goto(c, "nick_echo", {nick[c]})
      /\ mixed' = IF n \in {nick[d] : d \in {e \in Clients : pc[e] # "gone"}}
                         \cup UNION {held[d] : d \in Renaming}
                    THEN mixed \cup {n} ELSE mixed
      /\ UNCHANGED <<member, topic, beliefs, left, renamed, shaken>>

NickEcho(c) ==
  /\ pc[c] = "nick_echo"
  /\ view' = IF c = Watcher THEN AfterNick(The(held[c]), nick[c]) ELSE view
  /\ Goto(c, "nick_tell", held[c])
  /\ UNCHANGED <<member, nick, nickList, topic, told, history>>

NickTell(c) ==
  LET old == The(held[c])
  IN  /\ pc[c] = "nick_tell" /\ MapFree
      /\ IF Watcher \in Others(c)
           THEN /\ view' = AfterNick(old, nick[c])
                /\ renamed' = IF Joining \/ old \in renamed
                                THEN renamed \cup {old, nick[c]} ELSE renamed
           ELSE UNCHANGED <<view, renamed>>
      /\ mixed' = IF old \in mixed THEN mixed \cup {nick[c]} ELSE mixed
      /\ Goto(c, "idle", {})
      /\ UNCHANGED <<member, nick, nickList, topic, told, left, shaken>>

(* TOPIC: set_topic tells every member under the lock of the channel.      *)
MutantTopicTold(t) == IF Watcher \in member /\ t # NoTopic THEN t ELSE told
TopicTold(t) == IF Watcher \in member THEN t ELSE told

SetTopic(t) ==
  /\ topic' = t
  /\ told' = TopicTold(t)
  /\ shaken' = IF Joining THEN shaken \cup {"topic"} ELSE shaken
  /\ UNCHANGED <<member, nick, nickList, pc, held, view, left, renamed, mixed>>

Next ==
  \/ \E c \in Clients :
       \/ JoinChan(c) \/ JoinTell(c)
       \/ PartCheck(c) \/ PartEcho(c) \/ PartTell(c) \/ PartOut(c)
       \/ Remove(c) \/ QuitTell(c) \/ QuitOut(c) \/ Kick(c)
       \/ \E n \in Nicks : NickCheck(c, n)
       \/ NickSet(c) \/ NickEcho(c) \/ NickTell(c)
  \/ FindChan \/ GetTopic \/ JoinEcho \/ RplTopic \/ GetNamelist \/ RplNames
  \/ \E t \in Topics : SetTopic(t)

Spec == Init /\ [][Next]_vars

------------------------------------------------------------------------------
Settled == {c \in member : pc[c] = "idle"}

(* A member shows every other member whose command is over: between the    *)
(* NAMES list and the JOINs told later nobody is lost, whoever joins at    *)
(* the same time.  Only a change of nickname told while its NAMES list was *)
(* under way, or a nickname that was mixed up, can hide someone; everyone, *)
(* if the mixed up nickname is its own, and it takes the QUIT of another   *)
(* for its own.                                                            *)
NobodyMissing ==
  Watcher \in Settled /\ nick[Watcher] \notin mixed =>
    \A d \in Settled : nick[d] \in view \cup renamed \cup mixed

(* A member shows nobody who is not there, but for those that left, or     *)
(* changed their nickname, between its own entry and its NAMES list: PART, *)
(* QUIT and NICK reach it before the older list does, and stay unheeded.   *)
NoGhosts ==
  Watcher \in Settled =>
    view \subseteq {nick[d] : d \in member} \cup left \cup renamed \cup mixed
                    \cup UNION {held[d] : d \in Renaming}

(* A client knows whether it is in the channel, whatever reached it        *)
(* between the steps of its commands.  It takes itself for a member that   *)
(* it is not only when its KICK came before its own JOIN; and it can be    *)
(* mistaken when it was told of by a nickname it does not yet know it has. *)
KnowsWhetherItIsIn ==
  nick[Watcher] \notin mixed =>
    /\ Watcher \in Settled => view # {}
    /\ pc[Watcher] = "idle" /\ view # {} /\ "kick" \notin shaken => Watcher \in member

(* A member shows the topic of the channel, unless a TOPIC was set during  *)
(* its JOIN: the reply to it then brings the older topic last.             *)
ShowsTheTopic ==
  Watcher \in Settled /\ "topic" \notin shaken => told = topic
=================================================================================
