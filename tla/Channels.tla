------------------------------- MODULE Channels -------------------------------
(***************************************************************************)
(* Channels and their members: JOIN, PART, KICK, INVITE, MODE, OPER and    *)
(* the removal of a client, of Operator.cpp, ClientInfo.cpp and            *)
(* Channel.cpp.                                                            *)
(*                                                                         *)
(* Two levels of locks cover the state.  _ch_list_lock covers the map from *)
(* names to channel objects, and the commands that can empty a channel     *)
(* hold it while they do; _channel_m of each object covers its sets.  A    *)
(* command first gets a ChanRef with find_chan, lets go of the map, and    *)
(* works on the object later: by then the object may be out of the map and *)
(* another one under its name.  Every action is what happens under one     *)
(* acquisition of the outer lock taken.                                    *)
(*                                                                         *)
(* The clients here are registered ones (see Registration), a client's own *)
(* commands run one at a time (OneReader of EventLoop).  What is sent to   *)
(* members is left out.  A MODE command sets one mode letter: mode_set     *)
(* keeps the lock of the object over all its letters, so a command with    *)
(* several of them leads where several commands do.  An object lives as    *)
(* long as the map or a ChanRef holds it.                                  *)
(***************************************************************************)
EXTENDS Naturals, FiniteSets

CONSTANTS
  Clients,    \* the registered clients
  Names,      \* channel names
  Chans,      \* the channel objects, as many as may be alive at once
  Modes,      \* the modes that keep clients out: some of "i", "k", "l"
  Limit,      \* the limit that MODE +l sets
  Opers,      \* the clients that know the operator password
  Workers,    \* number of worker threads, so of commands under way at once
  NoChan,     \* no channel object
  NoOne       \* no client

ASSUME ChannelsAssumption ==
  /\ Opers \subseteq Clients
  /\ Modes \subseteq {"i", "k", "l"} /\ Limit \in Nat /\ Workers \in Nat \ {0}
  /\ Names # {} /\ NoOne \notin Clients /\ NoChan \notin Chans

VARIABLES
  up,        \* the process runs; a null ChanRef brings it down
  ustate,    \* _user_state; UNAVAIL becomes GONE once the channels are left
  channel,   \* _channel, name to object
  chan,      \* the objects
  joined,    \* Client::_chan
  pc,        \* what each client's command does next
  ref,       \* the ChanRef it holds
  who,       \* the ClientRef that an INVITE or a KICK holds
  dropped,   \* history: names erased through the reference of another object
  raced      \* history: clients removed while an INVITE of them was under way

vars == <<up, ustate, channel, chan, joined, pc, ref, who, dropped, raced>>

Blank ==
  [name |-> CHOOSE n \in Names : TRUE, member |-> {}, oper |-> {}, invite |-> {},
   mode |-> {}]

Init ==
  /\ up = TRUE
  /\ ustate = [c \in Clients |-> "AVAIL"]
  /\ channel = [n \in Names |-> NoChan]
  /\ chan = [o \in Chans |-> Blank]
  /\ joined = [c \in Clients |-> {}]
  /\ pc = [c \in Clients |-> "idle"]
  /\ ref = [c \in Clients |-> NoChan]
  /\ who = [c \in Clients |-> NoOne]
  /\ dropped = {} /\ raced = {}

MutantRegistered == Clients
Registered == {c \in Clients : ustate[c] \in {"AVAIL", "OPERATOR"}}

(* A worker takes up the next command of a client.                         *)
Busy == {c \in Clients : pc[c] # "idle" \/ ustate[c] = "UNAVAIL"}
Idle(c) ==
  /\ up /\ c \in Registered /\ pc[c] = "idle"
  /\ Cardinality(Busy) < Workers

At(c, p) == up /\ pc[c] = p

Goto(c, p) == pc' = [pc EXCEPT ![c] = p]

(* The command is over, its references are dropped.                        *)
Finish(c) ==
  /\ Goto(c, "idle")
  /\ ref' = [ref EXCEPT ![c] = NoChan]
  /\ who' = [who EXCEPT ![c] = NoOne]

(* The objects that the map or a command holds; the others are destroyed.  *)
Alive == {channel[n] : n \in Names} \cup {ref[c] : c \in Clients}
Keep(objects) ==
  chan' = [o \in Chans |-> IF o \in Alive' THEN objects[o] ELSE Blank]

(* _is_user and _is_operator: an IRC operator counts as both everywhere.   *)
IsUser(o, c) == ustate[c] = "OPERATOR" \/ c \in chan[o].member
IsOperator(o, c) == ustate[c] = "OPERATOR" \/ c \in chan[o].oper

(* remove_user, and the same erasures in kick_user.                        *)
MutantWithout(o, c) == [chan[o] EXCEPT !.member = @ \ {c}, !.oper = @ \ {c}]
Without(o, c) ==
  [chan[o] EXCEPT !.member = @ \ {c}, !.oper = @ \ {c}, !.invite = @ \ {c}]

(* _channel.erase(chan->get_name()) once the object is empty, whatever     *)
(* object the map has under that name.                                     *)
MutantEraseIfEmpty(obj) ==
  IF obj.member \cup obj.invite = {} THEN [channel EXCEPT ![obj.name] = NoChan]
  ELSE channel
EraseIfEmpty(obj) ==
  IF obj.member = {} THEN [channel EXCEPT ![obj.name] = NoChan] ELSE channel

(* remove_user or kick_user, and the erasure, under the lock of the map.   *)
TakeOut(o, c) ==
  LET n == chan[o].name
  IN /\ joined' = [joined EXCEPT ![c] = @ \ {n}]
     /\ channel' = EraseIfEmpty(Without(o, c))
     /\ dropped' = IF channel'[n] # channel[n] /\ channel[n] # o
                     THEN dropped \cup {n} ELSE dropped
     /\ Keep([chan EXCEPT ![o] = Without(o, c)])

------------------------------------------------------------------------------
(* join_chan under the write lock of the map.  A new channel gets its      *)
(* creator as member and operator before it is in the map.                 *)
JoinNew(c, n) ==
  /\ Idle(c) /\ channel[n] = NoChan
  /\ \E o \in Chans \ Alive :
       /\ channel' = [channel EXCEPT ![n] = o]
       /\ chan' = [chan EXCEPT ![o] = [Blank EXCEPT !.name = n, !.member = {c},
                                                   !.oper = {c}]]
  /\ joined' = [joined EXCEPT ![c] = @ \cup {n}]
  /\ UNCHANGED <<up, ustate, pc, ref, who, dropped, raced>>

(* add_user: an invitation overrides limit, invite-only mode and key.      *)
Joining(o, c) == [chan[o] EXCEPT !.member = @ \cup {c}, !.invite = @ \ {c}]

Refused(o, c, goodKey) ==
  /\ c \notin chan[o].invite
  /\ \/ "l" \in chan[o].mode /\ Limit <= Cardinality(chan[o].member)
     \/ "i" \in chan[o].mode
     \/ "k" \in chan[o].mode /\ ~goodKey

Join(c, n, goodKey) ==
  /\ Idle(c) /\ channel[n] # NoChan
  /\ ~ Refused(channel[n], c, goodKey)
  /\ chan' = [chan EXCEPT ![channel[n]] = Joining(channel[n], c)]
  /\ joined' = [joined EXCEPT ![c] = @ \cup {n}]
  /\ UNCHANGED <<up, ustate, channel, pc, ref, who, dropped, raced>>

(* find_chan, the first step of PART, KICK and MODE; a null reference ends *)
(* the command.                                                            *)
Found(n) == channel[n] # NoChan

FindChan(c, n, next) ==
  /\ Idle(c) /\ Found(n)
  /\ ref' = [ref EXCEPT ![c] = channel[n]]
  /\ Goto(c, next)
  /\ UNCHANGED <<up, ustate, channel, chan, joined, who, dropped, raced>>

(* The command ends with a reply.                                          *)
GiveUp(c) ==
  /\ up
  /\ \/ pc[c] = "part" /\ ~ IsUser(ref[c], c)
     \/ pc[c] \in {"kick", "mode", "inviting"}
  /\ Finish(c)
  /\ UNCHANGED <<up, ustate, channel, joined, dropped, raced>>
  /\ Keep(chan)

(* PART: leave_chan tests the membership before it locks the map.          *)
PartCheck(c) ==
  /\ At(c, "part") /\ IsUser(ref[c], c)
  /\ Goto(c, "leave")
  /\ UNCHANGED <<up, ustate, channel, chan, joined, ref, who, dropped, raced>>

PartLeave(c) ==
  /\ At(c, "leave")
  /\ Finish(c)
  /\ TakeOut(ref[c], c)
  /\ UNCHANGED <<up, ustate, raced>>

(* KICK: each name of the list is looked up, then kick_chan works under    *)
(* the lock of the map, on the one object found at the start.              *)
KickFind(c, d) ==
  /\ At(c, "kick") /\ d \in Registered
  /\ who' = [who EXCEPT ![c] = d]
  /\ Goto(c, "kicking")
  /\ UNCHANGED <<up, ustate, channel, chan, joined, ref, dropped, raced>>

Kick(c) ==
  LET o == ref[c]
  IN /\ At(c, "kicking")
     /\ who' = [who EXCEPT ![c] = NoOne]
     /\ Goto(c, "kick")
     /\ UNCHANGED <<up, ustate, ref, raced>>
     /\ IF IsUser(o, c) /\ IsOperator(o, c) /\ IsUser(o, who[c])
          THEN TakeOut(o, who[c])
          ELSE UNCHANGED <<channel, chan, joined, dropped>>

(* INVITE: the client first, then the channel, which is used without a     *)
(* look at whether find_chan found one.                                    *)
InviteFind(c, d) ==
  /\ Idle(c) /\ d \in Registered
  /\ who' = [who EXCEPT ![c] = d]
  /\ Goto(c, "invite")
  /\ UNCHANGED <<up, ustate, channel, chan, joined, ref, dropped, raced>>

InviteChan(c, n) ==
  /\ At(c, "invite")
  /\ \/ /\ Found(n)
        /\ ref' = [ref EXCEPT ![c] = channel[n]]
        /\ Goto(c, "inviting")
        /\ UNCHANGED up
     \/ /\ ~ Found(n)
        /\ up' = FALSE
        /\ UNCHANGED <<pc, ref>>
  /\ UNCHANGED <<ustate, channel, chan, joined, who, dropped, raced>>

(* add_invite, under the lock of the object alone.                         *)
MutantInvitable(o, c, d) == IsUser(o, c) /\ IsOperator(o, c)
Invitable(o, c, d) == IsUser(o, c) /\ IsOperator(o, c) /\ ~ IsUser(o, d)

Invite(c) ==
  /\ At(c, "inviting") /\ Invitable(ref[c], c, who[c])
  /\ Finish(c)
  /\ UNCHANGED <<up, ustate, channel, joined, dropped, raced>>
  /\ Keep([chan EXCEPT ![ref[c]].invite = @ \cup {who[c]}])

(* mode_set, one letter: i, k or l, and o for a member of the channel.     *)
MutantCandidates(o) == Registered
Candidates(o) == chan[o].member

ModeSet(c) ==
  LET o == ref[c]
  IN /\ At(c, "mode")
     /\ IsUser(o, c) /\ IsOperator(o, c)
     /\ Finish(c)
     /\ UNCHANGED <<up, ustate, channel, joined, dropped, raced>>
     /\ \/ \E m \in Modes : \/ Keep([chan EXCEPT ![o].mode = @ \cup {m}])
                           \/ Keep([chan EXCEPT ![o].mode = @ \ {m}])
        \/ \E d \in Candidates(o) :
             /\ ~ IsOperator(o, d)
             /\ Keep([chan EXCEPT ![o].oper = @ \cup {d}])
        \/ \E d \in Candidates(o) : Keep([chan EXCEPT ![o].oper = @ \ {d}])

Oper(c) ==
  /\ Idle(c) /\ c \in Opers
  /\ ustate' = [ustate EXCEPT ![c] = "OPERATOR"]
  /\ UNCHANGED <<up, channel, chan, joined, pc, ref, who, dropped, raced>>

(* USER again, of an IRC operator whose username is "*": reg_client makes  *)
(* it an ordinary client, which keeps its channels.                        *)
UserAgain(c) ==
  /\ Idle(c) /\ ustate[c] = "OPERATOR"
  /\ ustate' = [ustate EXCEPT ![c] = "AVAIL"]
  /\ UNCHANGED <<up, channel, chan, joined, pc, ref, who, dropped, raced>>

(* remove_client: the state under the lock of the client list, then        *)
(* leave_all_channel under the lock of the map.                            *)
Remove(c) ==
  /\ Idle(c)
  /\ ustate' = [ustate EXCEPT ![c] = "UNAVAIL"]
  /\ UNCHANGED <<up, channel, chan, joined, pc, ref, who, dropped, raced>>

(* The channels that leave_all_channel goes through: all of the map.       *)
Leaves(c) == {channel[n] : n \in Names} \ {NoChan}

LeaveAllChannel(c) ==
  /\ up /\ ustate[c] = "UNAVAIL"
  /\ joined' = [joined EXCEPT ![c] = {}]
  /\ channel' = [n \in Names |->
       IF channel[n] \in Leaves(c) /\ Without(channel[n], c).member = {}
         THEN NoChan ELSE channel[n]]
  /\ ustate' = [ustate EXCEPT ![c] = "GONE"]
  /\ raced' = IF \E d \in Clients : who[d] = c /\ pc[d] \in {"invite", "inviting"}
                THEN raced \cup {c} ELSE raced
  /\ UNCHANGED <<up, pc, ref, who, dropped>>
  /\ Keep([o \in Chans |-> IF o \in Leaves(c) THEN Without(o, c) ELSE chan[o]])

Next ==
  \E c \in Clients :
    \/ GiveUp(c) \/ PartCheck(c) \/ PartLeave(c) \/ Kick(c) \/ Invite(c)
    \/ ModeSet(c) \/ Oper(c) \/ UserAgain(c) \/ Remove(c) \/ LeaveAllChannel(c)
    \/ \E d \in Clients : KickFind(c, d) \/ InviteFind(c, d)
    \/ \E n \in Names :
         \/ JoinNew(c, n) \/ InviteChan(c, n)
         \/ \E goodKey \in BOOLEAN : Join(c, n, goodKey)
         \/ \E next \in {"part", "kick", "mode"} : FindChan(c, n, next)

Spec == Init /\ [][Next]_vars

------------------------------------------------------------------------------
Mapped == {channel[n] : n \in Names} \ {NoChan}
Gone == {c \in Clients : ustate[c] = "GONE"}

(* A channel operator is a member, in every channel object, mapped or not: *)
(* no interleaving of KICK, PART, MODE +o and the removal of a client      *)
(* leaves operator rights with someone who is not in the channel.          *)
OperatorsAreMembers == \A o \in Chans : chan[o].oper \subseteq chan[o].member

(* Nobody is both in a channel and invited to it.                          *)
InvitesAreForOthers == \A o \in Chans : chan[o].invite \cap chan[o].member = {}

(* A client that was removed is in no channel that can be found.  Its      *)
(* client object, and with it its descriptor, would never be given back.   *)
NoDeadMember == \A o \in Mapped : chan[o].member \cap Gone = {}

(* A removed client stays invited, and its client object is then kept as   *)
(* long as the channel, only if it was removed while an INVITE of it was   *)
(* between its lookup and add_invite.                                      *)
DeadInviteRaced == \A o \in Mapped : chan[o].invite \cap Gone \subseteq raced

(* A channel can be found under its name as long as it has members, no     *)
(* longer and no less, and the members are the clients that have the name  *)
(* in their own list: leave_chan, kick_chan and leave_all_channel, which   *)
(* all erase by name, never leave an empty channel in the map or take out  *)
(* one in use, unless through a reference to an earlier one of that name.  *)
FoundWhileAlive ==
  /\ \A o \in Mapped : chan[o].member # {}
  /\ \A o \in Chans :
       chan[o].member # {} /\ chan[o].name \notin dropped =>
         /\ channel[chan[o].name] = o
         /\ \A c \in Clients :
              c \in chan[o].member <=> chan[o].name \in joined[c]
==============================================================================
