---------------------------- MODULE ChannelsProofs ----------------------------
(***************************************************************************)
(* For any sets of clients, names and channel objects: the five invariants *)
(* of Channels, from one inductive invariant.                              *)
(***************************************************************************)
EXTENDS Channels, TLAPS

(* The contents of a channel object.                                       *)
Objects ==
  [name : Names, member : SUBSET Clients, oper : SUBSET Clients,
   invite : SUBSET Clients, mode : SUBSET Modes]

(* The ranges of the variables, and which references a command holds.      *)
TypeOK ==
  /\ up \in BOOLEAN
  /\ ustate \in [Clients -> {"AVAIL", "OPERATOR", "UNAVAIL", "GONE"}]
  /\ channel \in [Names -> Chans \cup {NoChan}]
  /\ chan \in [Chans -> Objects]
  /\ joined \in [Clients -> SUBSET Names]
  /\ pc \in [Clients -> {"idle", "part", "leave", "kick", "kicking", "mode",
                         "invite", "inviting"}]
  /\ ref \in [Clients -> Chans \cup {NoChan}]
  /\ who \in [Clients -> Clients \cup {NoOne}]
  /\ dropped \subseteq Names /\ raced \subseteq Clients
  /\ \A c \in Clients :
       /\ pc[c] \notin {"idle", "invite"} => ref[c] \in Chans
       /\ pc[c] \in {"kicking", "invite", "inviting"} => who[c] \in Clients

(* An object that can be found carries the name it is found under.         *)
FoundUnderItsName == \A n \in Names : channel[n] # NoChan => chan[channel[n]].name = n

(* Whoever has a name in its own list is a member of the channel found     *)
(* under it.                                                               *)
JoinedIsMember ==
  \A c \in Clients : \A n \in joined[c] \ dropped :
    channel[n] # NoChan /\ c \in chan[channel[n]].member

(* The client an INVITE is about to invite is still there, or the history  *)
(* knows.                                                                  *)
InviteKnown ==
  \A c \in Clients :
    pc[c] \in {"invite", "inviting"} /\ who[c] \in Gone => who[c] \in raced

IInv ==
  /\ TypeOK /\ FoundUnderItsName /\ JoinedIsMember /\ InviteKnown
  /\ OperatorsAreMembers /\ InvitesAreForOthers /\ NoDeadMember
  /\ DeadInviteRaced /\ FoundWhileAlive

(* The object nobody uses has no members, and is in range.                 *)
LEMMA BlankObject ==
  /\ Blank \in Objects
  /\ Blank.member = {} /\ Blank.oper = {} /\ Blank.invite = {}
  BY ChannelsAssumption DEF Blank, Objects

(* At the start there are no channels.                                     *)
LEMMA InitIInv == Init => IInv
<1> SUFFICES ASSUME Init PROVE IInv
  OBVIOUS
<1>1. chan = [o \in Chans |-> Blank] /\ \A n \in Names : channel[n] = NoChan
  BY DEF Init
<1>2. TypeOK
  BY BlankObject DEF Init, TypeOK
<1>3. Mapped = {}
  BY <1>1 DEF Mapped
<1>4. \A o \in Chans : chan[o].member = {} /\ chan[o].oper = {} /\ chan[o].invite = {}
  BY <1>1, BlankObject
<1> QED
  BY <1>1, <1>2, <1>3, <1>4
  DEF Init, IInv, FoundUnderItsName, JoinedIsMember, InviteKnown,
      OperatorsAreMembers, InvitesAreForOthers, NoDeadMember, DeadInviteRaced,
      FoundWhileAlive

(* What becomes of the objects at the end of a command: those in the map   *)
(* are as the command left them, the others may be destroyed.              *)
LEMMA Kept ==
  ASSUME NEW objects \in [Chans -> Objects], Keep(objects)
  PROVE  /\ chan' \in [Chans -> Objects]
         /\ \A o \in Chans : chan'[o] = objects[o] \/ chan'[o] = Blank
         /\ \A n \in Names : channel'[n] \in Chans =>
              chan'[channel'[n]] = objects[channel'[n]]
  BY BlankObject DEF Keep, Alive

(* What becomes of one object when a command replaces another, or it.      *)
LEMMA Replaced ==
  ASSUME chan \in [Chans -> Objects], NEW r \in Chans, NEW obj, NEW o \in Chans,
         Keep([chan EXCEPT ![r] = obj])
  PROVE  chan'[o] \in {chan[o], Blank} \/ (o = r /\ chan'[o] = obj)
<1>1. chan'[o] \in {[chan EXCEPT ![r] = obj][o], Blank}
  BY DEF Keep
<1>2. [chan EXCEPT ![r] = obj][o] = IF o = r THEN obj ELSE chan[o]
  OBVIOUS
<1> QED
  BY <1>1, <1>2

(* An object that a client is taken out of, is invited to, joins.          *)
LEMMA ObjectOps ==
  ASSUME TypeOK, NEW o \in Chans, NEW c \in Clients
  PROVE  /\ Without(o, c) \in Objects
         /\ Without(o, c).name = chan[o].name
         /\ Without(o, c).member = chan[o].member \ {c}
         /\ Without(o, c).oper = chan[o].oper \ {c}
         /\ Without(o, c).invite = chan[o].invite \ {c}
         /\ Joining(o, c) \in Objects
         /\ Joining(o, c).name = chan[o].name
         /\ Joining(o, c).member = chan[o].member \cup {c}
         /\ Joining(o, c).oper = chan[o].oper
         /\ Joining(o, c).invite = chan[o].invite \ {c}
  BY DEF Without, Joining, TypeOK, Objects

(* What a MODE command makes of an object.                                 *)
Moded(o, obj) ==
  \/ \E m \in SUBSET Modes : obj = [chan[o] EXCEPT !.mode = m]
  \/ \E d \in chan[o].member : \/ obj = [chan[o] EXCEPT !.oper = @ \cup {d}]
                             \/ obj = [chan[o] EXCEPT !.oper = @ \ {d}]

(* What the INVITE of c makes of it.                                       *)
Invited(o, c, obj) ==
  /\ pc[c] = "inviting" /\ who[c] \in Clients \ chan[o].member
  /\ obj = [chan[o] EXCEPT !.invite = @ \cup {who[c]}]

(* The objects after a step: a client taken out of one, or of all that can *)
(* be found; a new one; one client more; one invitation more; a mode; and  *)
(* those nobody uses any more blank.                                       *)
LEMMA ObjectStep ==
  ASSUME IInv, Next, NEW o \in Chans
  PROVE  \/ chan'[o] \in {chan[o], Blank}
         \/ \E c \in Clients : chan'[o] = Without(o, c)
         \/ \E c \in Registered : chan'[o] = Joining(o, c)
         \/ \E c \in Registered, n \in Names :
              chan'[o] = [Blank EXCEPT !.name = n, !.member = {c}, !.oper = {c}]
         \/ \E c \in Clients : Invited(o, c, chan'[o])
         \/ Moded(o, chan'[o])
<1>0. PICK b \in Clients :
         \/ GiveUp(b) \/ PartLeave(b) \/ Kick(b) \/ Invite(b) \/ ModeSet(b)
         \/ LeaveAllChannel(b)
         \/ \E n \in Names : JoinNew(b, n)
         \/ \E n \in Names : \E k \in BOOLEAN : Join(b, n, k)
         \/ \/ PartCheck(b) \/ Oper(b) \/ UserAgain(b) \/ Remove(b)
            \/ \E d \in Clients : KickFind(b, d) \/ InviteFind(b, d)
            \/ \E n \in Names :
                 \/ InviteChan(b, n)
                 \/ \E next \in {"part", "kick", "mode"} : FindChan(b, n, next)
  BY DEF Next
<1> USE DEF IInv, TypeOK
<1>1. ASSUME NEW c \in Clients, GiveUp(c)
      PROVE  chan'[o] \in {chan[o], Blank}
  BY <1>1 DEF GiveUp, Keep
<1>2. ASSUME NEW c \in Clients, PartLeave(c)
      PROVE  chan'[o] \in {chan[o], Blank, Without(o, c)}
  BY <1>2 DEF PartLeave, At, TakeOut, Keep
<1>3. ASSUME NEW c \in Clients, Kick(c)
      PROVE  chan'[o] \in {chan[o], Blank, Without(o, who[c])}
  BY <1>3 DEF Kick, At, TakeOut, Keep
<1>4. ASSUME NEW c \in Clients, LeaveAllChannel(c)
      PROVE  chan'[o] \in {chan[o], Blank, Without(o, c)}
  BY <1>4 DEF LeaveAllChannel, Keep
<1>5. ASSUME NEW c \in Clients, Invite(c)
      PROVE  \/ chan'[o] \in {chan[o], Blank}
             \/ Invited(o, c, chan'[o])
  <2>1. ref[c] \in Chans /\ who[c] \in Clients \ chan[ref[c]].member
        /\ pc[c] = "inviting"
    BY <1>5 DEF Invite, At, Invitable, IsUser
  <2>2. CASE o = ref[c]
    BY <1>5, <2>1, <2>2 DEF Invite, Invited, Keep
  <2>3. CASE o # ref[c]
    BY <1>5, <2>1, <2>3 DEF Invite, Keep
  <2> QED
    BY <2>2, <2>3
<1>6. ASSUME NEW c \in Clients, ModeSet(c)
      PROVE  chan'[o] \in {chan[o], Blank} \/ Moded(o, chan'[o])
  <2>1. ref[c] \in Chans
    BY <1>6 DEF ModeSet, At
  <2>2. CASE \E m \in Modes : \/ Keep([chan EXCEPT ![ref[c]].mode = @ \cup {m}])
                              \/ Keep([chan EXCEPT ![ref[c]].mode = @ \ {m}])
    <3>1. PICK m \in Modes :
             \/ Keep([chan EXCEPT ![ref[c]] = [chan[ref[c]] EXCEPT !.mode = chan[ref[c]].mode \cup {m}]])
             \/ Keep([chan EXCEPT ![ref[c]] = [chan[ref[c]] EXCEPT !.mode = chan[ref[c]].mode \ {m}]])
      BY <2>2, Zenon
    <3>2. chan[o].mode \cup {m} \in SUBSET Modes /\ chan[o].mode \ {m} \in SUBSET Modes
      BY DEF Objects
    <3>3. \/ chan'[o] \in {chan[o], Blank}
          \/ chan'[o] = [chan[o] EXCEPT !.mode = chan[o].mode \cup {m}]
          \/ chan'[o] = [chan[o] EXCEPT !.mode = chan[o].mode \ {m}]
      <4> DEFINE more == [chan[ref[c]] EXCEPT !.mode = chan[ref[c]].mode \cup {m}]
                 less == [chan[ref[c]] EXCEPT !.mode = chan[ref[c]].mode \ {m}]
      <4>1. Keep([chan EXCEPT ![ref[c]] = more]) \/ Keep([chan EXCEPT ![ref[c]] = less])
        BY <3>1
      <4> HIDE DEF more, less
      <4>2. chan'[o] \in {chan[o], Blank} \/ (o = ref[c] /\ chan'[o] \in {more, less})
        BY <2>1, <4>1, Replaced
      <4> QED
        BY <4>2 DEF more, less
    <3> QED
      BY <3>2, <3>3 DEF Moded
  <2>3. CASE \E d \in Candidates(ref[c]) :
               \/ Keep([chan EXCEPT ![ref[c]].oper = @ \cup {d}])
               \/ Keep([chan EXCEPT ![ref[c]].oper = @ \ {d}])
    <3>1. PICK d \in chan[ref[c]].member :
             \/ Keep([chan EXCEPT ![ref[c]] = [chan[ref[c]] EXCEPT !.oper = chan[ref[c]].oper \cup {d}]])
             \/ Keep([chan EXCEPT ![ref[c]] = [chan[ref[c]] EXCEPT !.oper = chan[ref[c]].oper \ {d}]])
      BY <2>3, Zenon DEF Candidates
    <3>2. \/ chan'[o] \in {chan[o], Blank}
          \/ o = ref[c] /\ chan'[o] = [chan[o] EXCEPT !.oper = @ \cup {d}]
          \/ o = ref[c] /\ chan'[o] = [chan[o] EXCEPT !.oper = @ \ {d}]
      <4> DEFINE more == [chan[ref[c]] EXCEPT !.oper = chan[ref[c]].oper \cup {d}]
                 less == [chan[ref[c]] EXCEPT !.oper = chan[ref[c]].oper \ {d}]
      <4>1. Keep([chan EXCEPT ![ref[c]] = more]) \/ Keep([chan EXCEPT ![ref[c]] = less])
        BY <3>1
      <4> HIDE DEF more, less
      <4>2. chan'[o] \in {chan[o], Blank} \/ (o = ref[c] /\ chan'[o] \in {more, less})
        BY <2>1, <4>1, Replaced
      <4> QED
        BY <4>2 DEF more, less
    <3> QED
      BY <3>2 DEF Moded
  <2> QED
    BY <1>6, <2>2, <2>3 DEF ModeSet
<1>7. ASSUME NEW c \in Clients, NEW n \in Names, JoinNew(c, n)
      PROVE  \/ chan'[o] = chan[o]
             \/ /\ c \in Registered
                /\ chan'[o] = [Blank EXCEPT !.name = n, !.member = {c}, !.oper = {c}]
  BY <1>7 DEF JoinNew, Idle
<1>8. ASSUME NEW c \in Clients, NEW n \in Names, \E k \in BOOLEAN : Join(c, n, k)
      PROVE  chan'[o] = chan[o] \/ (c \in Registered /\ chan'[o] = Joining(o, c))
  <2>1. c \in Registered
    BY <1>8 DEF Join, Idle
  <2>2. chan'[o] \in {chan[o], Joining(o, c)}
    BY <1>8 DEF Join
  <2> QED
    BY <2>1, <2>2
<1>9. ASSUME NEW c \in Clients,
             \/ PartCheck(c) \/ Oper(c) \/ UserAgain(c) \/ Remove(c)
             \/ \E d \in Clients : KickFind(c, d) \/ InviteFind(c, d)
             \/ \E n \in Names :
                  \/ InviteChan(c, n)
                  \/ \E next \in {"part", "kick", "mode"} : FindChan(c, n, next)
      PROVE  chan'[o] = chan[o]
  BY <1>9 DEF PartCheck, Oper, UserAgain, Remove, KickFind, InviteFind, InviteChan, FindChan
<1>11. CASE Kick(b)
  <2>1. who[b] \in Clients
    BY <1>11 DEF Kick, At
  <2> QED
    BY <1>11, <2>1, <1>3
<1>12. CASE \E n \in Names : JoinNew(b, n)
  BY <1>12, <1>7
<1>13. CASE \E n \in Names : \E k \in BOOLEAN : Join(b, n, k)
  <2>1. PICK n \in Names : \E k \in BOOLEAN : Join(b, n, k)
    BY <1>13, Zenon
  <2>2. chan'[o] = chan[o] \/ (b \in Registered /\ chan'[o] = Joining(o, b))
    BY <2>1, <1>8
  <2> QED
    BY <2>2
<1>14. CASE PartLeave(b) \/ LeaveAllChannel(b)
  BY <1>14, <1>2, <1>4
<1>15. CASE GiveUp(b) \/ Invite(b) \/ ModeSet(b)
  BY <1>15, <1>1, <1>5, <1>6
<1> QED
  BY <1>9, <1>0, <1>11, <1>12, <1>13, <1>14, <1>15

(* remove_user and the erasure by name: what stays in the map, and what    *)
(* the objects there and those with members are.                           *)
LEMMA TakeOutFacts ==
  ASSUME IInv, NEW o \in Chans, NEW d \in Clients, TakeOut(o, d)
  PROVE  /\ chan' \in [Chans -> Objects]
         /\ channel' \in [Names -> Chans \cup {NoChan}]
         /\ joined' \in [Clients -> SUBSET Names] /\ dropped' \subseteq Names
         /\ joined' = [joined EXCEPT ![d] = @ \ {chan[o].name}]
         /\ channel' = IF chan[o].member \subseteq {d}
                         THEN [channel EXCEPT ![chan[o].name] = NoChan] ELSE channel
         /\ \A x \in Chans : chan'[x] = Blank \/
              chan'[x] = IF x = o THEN Without(o, d) ELSE chan[x]
         /\ \A n \in Names : channel'[n] # NoChan =>
              chan'[channel'[n]] = IF channel'[n] = o THEN Without(o, d)
                                     ELSE chan[channel'[n]]
<1> DEFINE objects == [chan EXCEPT ![o] = Without(o, d)]
<1>1. /\ TypeOK /\ chan[o].name \in Names
      /\ Without(o, d) \in Objects /\ Without(o, d).name = chan[o].name
      /\ Without(o, d).member = chan[o].member \ {d}
  BY ObjectOps DEF IInv, TypeOK, Objects
<1>2. objects \in [Chans -> Objects] /\ Keep(objects)
  BY <1>1 DEF TakeOut, TypeOK
<1>3. \A x \in Chans : objects[x] = IF x = o THEN Without(o, d) ELSE chan[x]
  BY <1>1 DEF TypeOK
<1> HIDE DEF objects
<1>4. /\ chan' \in [Chans -> Objects]
      /\ \A x \in Chans : chan'[x] = objects[x] \/ chan'[x] = Blank
      /\ \A n \in Names : channel'[n] \in Chans =>
           chan'[channel'[n]] = objects[channel'[n]]
  BY <1>2, Kept
<1>5. channel' = IF chan[o].member \subseteq {d}
                   THEN [channel EXCEPT ![chan[o].name] = NoChan] ELSE channel
  BY <1>1 DEF TakeOut, EraseIfEmpty
<1>6. channel' \in [Names -> Chans \cup {NoChan}]
  BY <1>1, <1>5 DEF TypeOK
<1>7. /\ joined' \in [Clients -> SUBSET Names] /\ dropped' \subseteq Names
      /\ joined' = [joined EXCEPT ![d] = @ \ {chan[o].name}]
  BY <1>1 DEF TakeOut, TypeOK
<1> QED
  BY <1>3, <1>4, <1>5, <1>6, <1>7

(* leave_all_channel, the same way.                                        *)
LEMMA LeaveAllFacts ==
  ASSUME IInv, NEW c \in Clients, LeaveAllChannel(c)
  PROVE  /\ chan' \in [Chans -> Objects]
         /\ channel' \in [Names -> Chans \cup {NoChan}]
         /\ \A n \in Names :
              channel'[n] = IF channel[n] # NoChan /\ chan[channel[n]].member \subseteq {c}
                              THEN NoChan ELSE channel[n]
         /\ \A x \in Chans : chan'[x] \in {chan[x], Blank, Without(x, c)}
         /\ \A n \in Names : channel'[n] # NoChan =>
              chan'[channel'[n]] = Without(channel'[n], c)
         /\ \A x \in Chans : chan'[x].member # {} =>
              chan'[x] = IF x \in Mapped THEN Without(x, c) ELSE chan[x]
<1> DEFINE objects == [o \in Chans |-> IF o \in Mapped THEN Without(o, c) ELSE chan[o]]
<1>1. /\ TypeOK
      /\ \A x \in Chans : /\ Without(x, c) \in Objects /\ chan[x] \in Objects
                          /\ Without(x, c).member = chan[x].member \ {c}
  BY ObjectOps DEF IInv, TypeOK
<1>2. objects \in [Chans -> Objects] /\ Keep(objects)
  BY <1>1 DEF LeaveAllChannel, Leaves, Mapped
<1>3. \A x \in Chans : objects[x] = IF x \in Mapped THEN Without(x, c) ELSE chan[x]
  OBVIOUS
<1> HIDE DEF objects
<1>4. /\ chan' \in [Chans -> Objects]
      /\ \A x \in Chans : chan'[x] = objects[x] \/ chan'[x] = Blank
      /\ \A n \in Names : channel'[n] \in Chans =>
           chan'[channel'[n]] = objects[channel'[n]]
  BY <1>2, Kept
<1>5. \A n \in Names : channel[n] # NoChan => channel[n] \in Chans /\ channel[n] \in Mapped
  BY <1>1 DEF TypeOK, Mapped
<1>6. channel' = [n \in Names |->
         IF channel[n] \in Mapped /\ Without(channel[n], c).member = {}
           THEN NoChan ELSE channel[n]]
  BY DEF LeaveAllChannel, Leaves, Mapped
<1>7. \A n \in Names :
         channel'[n] = IF channel[n] # NoChan /\ chan[channel[n]].member \subseteq {c}
                         THEN NoChan ELSE channel[n]
  <2> SUFFICES ASSUME NEW n \in Names
               PROVE  channel'[n] = IF channel[n] # NoChan /\ chan[channel[n]].member \subseteq {c}
                                      THEN NoChan ELSE channel[n]
    OBVIOUS
  <2>1. CASE channel[n] = NoChan
    BY <1>6, <2>1
  <2>2. CASE channel[n] # NoChan
    BY <1>1, <1>5, <1>6, <2>2
  <2> QED
    BY <2>1, <2>2
<1>8. channel' \in [Names -> Chans \cup {NoChan}]
  BY <1>1, <1>6 DEF TypeOK
<1>9. \A n \in Names : channel'[n] # NoChan =>
         chan'[channel'[n]] = Without(channel'[n], c)
  BY <1>3, <1>4, <1>5, <1>7
<1>10. Blank.member = {}
  BY BlankObject
<1> QED
  BY <1>3, <1>4, <1>7, <1>8, <1>9, <1>10

(* A step keeps every variable in its range.                               *)
LEMMA TypeStep == IInv /\ [Next]_vars => TypeOK'
<1> SUFFICES ASSUME IInv, [Next]_vars PROVE TypeOK'
  OBVIOUS
<1>0. TypeOK
  BY DEF IInv
<1>1. ASSUME NEW c \in Clients, PartLeave(c) \/ Kick(c)
      PROVE  TypeOK'
  <2>1. CASE UNCHANGED <<channel, chan, joined, dropped>>
    BY <1>0, <1>1, <2>1 DEF PartLeave, Kick, Finish, Goto, At, TypeOK
  <2>2. CASE \E o \in Chans, d \in Clients : TakeOut(o, d)
    <3>1. /\ chan' \in [Chans -> Objects]
          /\ channel' \in [Names -> Chans \cup {NoChan}]
          /\ joined' \in [Clients -> SUBSET Names] /\ dropped' \subseteq Names
      BY <2>2, TakeOutFacts
    <3> QED
      BY <1>0, <1>1, <3>1 DEF PartLeave, Kick, Finish, Goto, At, TypeOK
  <2>3. UNCHANGED <<channel, chan, joined, dropped>>
        \/ \E o \in Chans, d \in Clients : TakeOut(o, d)
    BY <1>0, <1>1 DEF PartLeave, Kick, At, TypeOK
  <2> QED
    BY <2>1, <2>2, <2>3
<1>2. ASSUME NEW c \in Clients, LeaveAllChannel(c)
      PROVE  TypeOK'
  <2>1. /\ chan' \in [Chans -> Objects]
        /\ channel' \in [Names -> Chans \cup {NoChan}]
    BY <1>2, LeaveAllFacts
  <2> QED
    BY <1>0, <1>2, <2>1 DEF LeaveAllChannel, TypeOK
<1>3. ASSUME NEW c \in Clients, GiveUp(c) \/ Invite(c) \/ ModeSet(c)
      PROVE  TypeOK'
  <2>1. chan' \in [Chans -> Objects]
    <3>1. CASE GiveUp(c)
      BY <1>0, <3>1, Kept DEF GiveUp, TypeOK
    <3>2. CASE Invite(c)
      <4>1. ref[c] \in Chans /\ who[c] \in Clients
        BY <1>0, <3>2 DEF Invite, At, TypeOK
      <4>2. [chan EXCEPT ![ref[c]].invite = @ \cup {who[c]}] \in [Chans -> Objects]
        <5>1. chan \in [Chans -> Objects] /\ chan[ref[c]] \in Objects
          BY <1>0, <4>1 DEF TypeOK
        <5>2. chan[ref[c]].invite \cup {who[c]} \in SUBSET Clients
          BY <4>1, <5>1 DEF Objects
        <5>3. [chan[ref[c]] EXCEPT !.invite = chan[ref[c]].invite \cup {who[c]}] \in Objects
          BY <5>1, <5>2 DEF Objects
        <5> QED
          BY <4>1, <5>1, <5>3
      <4> QED
        BY <3>2, <4>2, Kept DEF Invite
    <3>3. CASE ModeSet(c)
      <4>1. ref[c] \in Chans
        BY <1>0, <3>3 DEF ModeSet, At, TypeOK
      <4>0. chan \in [Chans -> Objects] /\ chan[ref[c]] \in Objects
        BY <1>0, <4>1 DEF TypeOK
      <4>2. \A m \in Modes :
               /\ [chan EXCEPT ![ref[c]].mode = @ \cup {m}] \in [Chans -> Objects]
               /\ [chan EXCEPT ![ref[c]].mode = @ \ {m}] \in [Chans -> Objects]
        <5> SUFFICES ASSUME NEW m \in Modes
                     PROVE  /\ [chan EXCEPT ![ref[c]].mode = @ \cup {m}] \in [Chans -> Objects]
                            /\ [chan EXCEPT ![ref[c]].mode = @ \ {m}] \in [Chans -> Objects]
          OBVIOUS
        <5>1. /\ [chan[ref[c]] EXCEPT !.mode = chan[ref[c]].mode \cup {m}] \in Objects
              /\ [chan[ref[c]] EXCEPT !.mode = chan[ref[c]].mode \ {m}] \in Objects
          BY <4>0 DEF Objects
        <5> QED
          BY <4>0, <4>1, <5>1
      <4>3. \A d \in Candidates(ref[c]) :
               /\ [chan EXCEPT ![ref[c]].oper = @ \cup {d}] \in [Chans -> Objects]
               /\ [chan EXCEPT ![ref[c]].oper = @ \ {d}] \in [Chans -> Objects]
        <5> SUFFICES ASSUME NEW d \in Clients
                     PROVE  /\ [chan EXCEPT ![ref[c]].oper = @ \cup {d}] \in [Chans -> Objects]
                            /\ [chan EXCEPT ![ref[c]].oper = @ \ {d}] \in [Chans -> Objects]
          BY <4>0 DEF Candidates, Objects
        <5>1. /\ [chan[ref[c]] EXCEPT !.oper = chan[ref[c]].oper \cup {d}] \in Objects
              /\ [chan[ref[c]] EXCEPT !.oper = chan[ref[c]].oper \ {d}] \in Objects
          BY <4>0 DEF Objects
        <5> QED
          BY <4>0, <4>1, <5>1
      <4>4. \E objects \in [Chans -> Objects] : Keep(objects)
        BY <3>3, <4>2, <4>3 DEF ModeSet
      <4> QED
        BY <4>4, Kept
    <3> QED
      BY <1>3, <3>1, <3>2, <3>3
  <2> QED
    BY <1>0, <1>3, <2>1 DEF GiveUp, Invite, ModeSet, Finish, Goto, At, TypeOK
<1>4. ASSUME NEW c \in Clients,
             \/ PartCheck(c) \/ Oper(c) \/ UserAgain(c) \/ Remove(c)
             \/ \E d \in Clients : KickFind(c, d) \/ InviteFind(c, d)
      PROVE  TypeOK'
  <2>1. CASE PartCheck(c)
    BY <1>0, <2>1 DEF PartCheck, Goto, At, TypeOK
  <2>2. CASE Oper(c) \/ UserAgain(c) \/ Remove(c)
    BY <1>0, <2>2 DEF Oper, UserAgain, Remove, TypeOK
  <2>3. ASSUME NEW d \in Clients, KickFind(c, d)
        PROVE  TypeOK'
    BY <1>0, <2>3 DEF KickFind, Goto, At, TypeOK
  <2>4. ASSUME NEW d \in Clients, InviteFind(c, d)
        PROVE  TypeOK'
    BY <1>0, <2>4 DEF InviteFind, Goto, Idle, TypeOK
  <2> QED
    BY <1>4, <2>1, <2>2, <2>3, <2>4
<1>5. ASSUME NEW c \in Clients, NEW n \in Names,
             \/ InviteChan(c, n)
             \/ \E next \in {"part", "kick", "mode"} : FindChan(c, n, next)
      PROVE  TypeOK'
  <2>1. CASE InviteChan(c, n)
    <3>1. CASE Found(n)
      <4>1. /\ channel[n] \in Chans
            /\ ref' = [ref EXCEPT ![c] = channel[n]]
            /\ pc' = [pc EXCEPT ![c] = "inviting"]
            /\ UNCHANGED <<up, ustate, channel, chan, joined, who, dropped, raced>>
        BY <1>0, <2>1, <3>1 DEF InviteChan, Found, Goto, TypeOK
      <4> QED
        BY <1>0, <2>1, <4>1 DEF InviteChan, At, TypeOK
    <3>2. CASE ~ Found(n)
      <4>1. up' = FALSE /\ UNCHANGED <<pc, ref, ustate, channel, chan, joined, who, dropped, raced>>
        BY <2>1, <3>2 DEF InviteChan
      <4> QED
        BY <1>0, <4>1 DEF TypeOK
    <3> QED
      BY <3>1, <3>2
  <2>2. ASSUME NEW next \in {"part", "kick", "mode"}, FindChan(c, n, next)
        PROVE  TypeOK'
    BY <1>0, <2>2 DEF FindChan, Found, Goto, Idle, TypeOK
  <2> QED
    BY <1>5, <2>1, <2>2
<1>6. ASSUME NEW c \in Clients, NEW n \in Names, JoinNew(c, n)
      PROVE  TypeOK'
  <2>1. [Blank EXCEPT !.name = n, !.member = {c}, !.oper = {c}] \in Objects
    BY BlankObject DEF Objects
  <2> QED
    BY <1>0, <1>6, <2>1 DEF JoinNew, Idle, TypeOK
<1>7. ASSUME NEW c \in Clients, NEW n \in Names, NEW k \in BOOLEAN, Join(c, n, k)
      PROVE  TypeOK'
  <2>1. channel[n] \in Chans /\ Joining(channel[n], c) \in Objects
    BY <1>0, <1>7, ObjectOps DEF Join, TypeOK
  <2> QED
    BY <1>0, <1>7, <2>1 DEF Join, Idle, TypeOK
<1>8. CASE UNCHANGED vars
  BY <1>0, <1>8 DEF vars, TypeOK
<1>9. CASE \E c \in Clients : \E n \in Names : \E k \in BOOLEAN : Join(c, n, k)
  BY <1>7, <1>9, Zenon
<1> QED
  BY <1>1, <1>2, <1>3, <1>4, <1>5, <1>6, <1>8, <1>9 DEF Next

(* The rights and the invitations of every object stay with members and    *)
(* with others.                                                            *)
LEMMA RightsStep ==
  IInv /\ [Next]_vars => (OperatorsAreMembers /\ InvitesAreForOthers)'
<1> SUFFICES ASSUME IInv, [Next]_vars, NEW o \in Chans
             PROVE  /\ chan'[o].oper \subseteq chan'[o].member
                    /\ chan'[o].invite \cap chan'[o].member = {}
  BY DEF OperatorsAreMembers, InvitesAreForOthers
<1>1. /\ TypeOK /\ chan[o] \in Objects
      /\ chan[o].oper \subseteq chan[o].member
      /\ chan[o].invite \cap chan[o].member = {}
  BY DEF IInv, TypeOK, OperatorsAreMembers, InvitesAreForOthers
<1>2. CASE chan'[o] \in {chan[o], Blank}
  BY <1>1, <1>2, BlankObject
<1>3. ASSUME NEW c \in Clients, chan'[o] = Without(o, c) \/ chan'[o] = Joining(o, c)
      PROVE  /\ chan'[o].oper \subseteq chan'[o].member
             /\ chan'[o].invite \cap chan'[o].member = {}
  BY <1>1, <1>3, ObjectOps
<1>4. ASSUME NEW c \in Clients, NEW n \in Names,
             chan'[o] = [Blank EXCEPT !.name = n, !.member = {c}, !.oper = {c}]
      PROVE  /\ chan'[o].oper \subseteq chan'[o].member
             /\ chan'[o].invite \cap chan'[o].member = {}
  BY <1>4, BlankObject DEF Objects
<1>5. ASSUME NEW c \in Clients, Invited(o, c, chan'[o])
      PROVE  /\ chan'[o].oper \subseteq chan'[o].member
             /\ chan'[o].invite \cap chan'[o].member = {}
  <2>1. who[c] \in Clients \ chan[o].member
    BY <1>5 DEF Invited
  <2>2. /\ chan'[o].member = chan[o].member /\ chan'[o].oper = chan[o].oper
        /\ chan'[o].invite = chan[o].invite \cup {who[c]}
    BY <1>1, <1>5 DEF Invited, Objects
  <2> QED
    BY <1>1, <2>1, <2>2
<1>6. CASE Moded(o, chan'[o])
  <2>1. ASSUME NEW m \in SUBSET Modes, chan'[o] = [chan[o] EXCEPT !.mode = m]
        PROVE  /\ chan'[o].oper \subseteq chan'[o].member
               /\ chan'[o].invite \cap chan'[o].member = {}
    BY <1>1, <2>1 DEF Objects
  <2>2. ASSUME NEW d \in chan[o].member,
               \/ chan'[o] = [chan[o] EXCEPT !.oper = chan[o].oper \cup {d}]
               \/ chan'[o] = [chan[o] EXCEPT !.oper = chan[o].oper \ {d}]
        PROVE  /\ chan'[o].oper \subseteq chan'[o].member
               /\ chan'[o].invite \cap chan'[o].member = {}
    BY <1>1, <2>2 DEF Objects
  <2> QED
    BY <1>6, <2>1, <2>2 DEF Moded
<1>7. CASE UNCHANGED vars
  BY <1>1, <1>7 DEF vars
<1>8. CASE Next
  BY <1>2, <1>3, <1>4, <1>5, <1>6, <1>8, ObjectStep DEF Registered
<1> QED
  BY <1>7, <1>8

(* The client of a pending invitation.                                     *)
LEMMA InviteStep == IInv /\ [Next]_vars => InviteKnown'
<1> SUFFICES ASSUME IInv, [Next]_vars PROVE InviteKnown'
  OBVIOUS
<1>1. TypeOK /\ InviteKnown /\ Clients \cap {NoOne} = {}
  BY ChannelsAssumption DEF IInv
<1> USE DEF TypeOK, InviteKnown, Gone
<1>2. ASSUME NEW c \in Clients,
             PartLeave(c) \/ Kick(c) \/ GiveUp(c) \/ Invite(c) \/ ModeSet(c)
      PROVE  InviteKnown'
  BY <1>1, <1>2 DEF PartLeave, Kick, GiveUp, Invite, ModeSet, Finish, Goto, At
<1>3. ASSUME NEW c \in Clients, LeaveAllChannel(c)
      PROVE  InviteKnown'
  BY <1>1, <1>3 DEF LeaveAllChannel
<1>4. ASSUME NEW c \in Clients,
             \/ PartCheck(c) \/ Oper(c) \/ UserAgain(c) \/ Remove(c)
             \/ \E d \in Clients : KickFind(c, d) \/ InviteFind(c, d)
      PROVE  InviteKnown'
  BY <1>1, <1>4 DEF PartCheck, Oper, UserAgain, Remove, KickFind, InviteFind, Goto, At, Idle,
                    Registered
<1>5. ASSUME NEW c \in Clients, NEW n \in Names,
             \/ InviteChan(c, n) \/ JoinNew(c, n)
             \/ \E next \in {"part", "kick", "mode"} : FindChan(c, n, next)
      PROVE  InviteKnown'
  BY <1>1, <1>5 DEF InviteChan, JoinNew, FindChan, Goto, At, Idle
<1>6. ASSUME NEW c \in Clients, NEW n \in Names, NEW k \in BOOLEAN, Join(c, n, k)
      PROVE  InviteKnown'
  BY <1>1, <1>6 DEF Join
<1>7. CASE UNCHANGED vars
  BY <1>1, <1>7 DEF vars
<1>8. CASE \E c \in Clients : \E n \in Names : \E k \in BOOLEAN : Join(c, n, k)
  BY <1>6, <1>8, Zenon
<1> QED
  BY <1>2, <1>3, <1>4, <1>5, <1>7, <1>8 DEF Next

(* A step that leaves the map and the members alone, and at most destroys  *)
(* objects that are not in it.                                             *)
LEMMA QuietStep ==
  ASSUME IInv, TypeOK', UNCHANGED <<channel, joined, dropped>>,
         \A o \in Chans : \/ chan'[o] = Blank
                          \/ chan'[o].name = chan[o].name /\ chan'[o].member = chan[o].member,
         \A o \in Mapped : chan'[o].name = chan[o].name /\ chan'[o].member = chan[o].member
  PROVE  FoundUnderItsName' /\ JoinedIsMember' /\ FoundWhileAlive'
<1>1. FoundUnderItsName /\ JoinedIsMember /\ FoundWhileAlive /\ TypeOK
  BY DEF IInv
<1>2. \A n \in Names : channel[n] # NoChan => channel[n] \in Chans /\ channel[n] \in Mapped
  BY <1>1 DEF TypeOK, Mapped
<1>3. Mapped' = Mapped
  BY DEF Mapped
<1>4. FoundUnderItsName'
  BY <1>1, <1>2 DEF FoundUnderItsName
<1>5. JoinedIsMember'
  BY <1>1, <1>2 DEF JoinedIsMember, TypeOK
<1>6. FoundWhileAlive'
  BY <1>1, <1>3, BlankObject DEF FoundWhileAlive
<1> QED
  BY <1>4, <1>5, <1>6

(* The map follows the members when one of them is taken out of a channel, *)
(* whether the object is still in the map or not.                          *)
LEMMA TakeOutStep ==
  ASSUME IInv, TypeOK', NEW o \in Chans, NEW d \in Clients, TakeOut(o, d)
  PROVE  FoundUnderItsName' /\ JoinedIsMember' /\ FoundWhileAlive'
<1> DEFINE name == chan[o].name
<1>1. /\ FoundUnderItsName /\ JoinedIsMember /\ FoundWhileAlive /\ TypeOK
      /\ name \in Names /\ Blank.member = {}
  BY BlankObject DEF IInv, TypeOK, Objects
<1>2. /\ joined' = [joined EXCEPT ![d] = @ \ {name}]
      /\ channel' = IF chan[o].member \subseteq {d}
                      THEN [channel EXCEPT ![name] = NoChan] ELSE channel
      /\ \A x \in Chans : chan'[x] = Blank \/
           chan'[x] = IF x = o THEN Without(o, d) ELSE chan[x]
      /\ \A n \in Names : channel'[n] # NoChan =>
           chan'[channel'[n]] = IF channel'[n] = o THEN Without(o, d)
                                  ELSE chan[channel'[n]]
  BY TakeOutFacts
<1>3. /\ Without(o, d).name = name
      /\ Without(o, d).member = chan[o].member \ {d}
  BY <1>1, ObjectOps
<1>4. \A n \in Names : channel'[n] # NoChan =>
         channel[n] = channel'[n] /\ channel[n] \in Chans
  BY <1>1, <1>2 DEF TypeOK
<1>5. dropped \subseteq dropped'
      /\ (channel[name] # NoChan /\ chan[o].member \subseteq {d} /\ channel[name] # o
            => name \in dropped')
  BY <1>1, <1>2 DEF TakeOut, TypeOK
<1>6. FoundUnderItsName'
  BY <1>1, <1>2, <1>3, <1>4 DEF FoundUnderItsName
<1>7. JoinedIsMember'
  <2> SUFFICES ASSUME NEW c \in Clients, NEW n \in joined'[c] \ dropped'
               PROVE  channel'[n] # NoChan /\ c \in chan'[channel'[n]].member
    BY DEF JoinedIsMember
  <2>1. /\ n \in joined[c] \ dropped /\ n \in Names /\ ~ (c = d /\ n = name)
        /\ channel[n] \in Chans /\ c \in chan[channel[n]].member
        /\ chan[channel[n]].name = n
    BY <1>1, <1>2, <1>5 DEF JoinedIsMember, FoundUnderItsName, TypeOK
  <2>2. channel'[n] = channel[n]
    BY <1>1, <1>2, <1>5, <2>1 DEF TypeOK
  <2> QED
    BY <1>2, <1>3, <2>1, <2>2, ChannelsAssumption
<1>8. \A x \in Mapped' : chan'[x].member # {}
  <2> SUFFICES ASSUME NEW n \in Names, channel'[n] # NoChan
               PROVE  chan'[channel'[n]].member # {}
    BY DEF Mapped
  <2>1. channel[n] = channel'[n] /\ channel[n] \in Mapped /\ channel[n] \in Chans
    BY <1>4 DEF Mapped
  <2>2. chan[channel[n]].member # {} /\ chan[channel[n]].name = n
    BY <1>1, <2>1 DEF FoundWhileAlive, FoundUnderItsName, Mapped
  <2> QED
    BY <1>1, <1>2, <1>3, <2>1, <2>2 DEF TypeOK
<1>9. ASSUME NEW x \in Chans, chan'[x].member # {}, chan'[x].name \notin dropped'
      PROVE  /\ channel'[chan'[x].name] = x
             /\ \A c \in Clients :
                  c \in chan'[x].member <=> chan'[x].name \in joined'[c]
  <2>1. /\ chan'[x].name = chan[x].name /\ chan[x].member # {}
        /\ chan'[x].member = IF x = o THEN chan[o].member \ {d} ELSE chan[x].member
    BY <1>1, <1>2, <1>3, <1>9
  <2>2. /\ channel[chan[x].name] = x
        /\ \A c \in Clients : c \in chan[x].member <=> chan[x].name \in joined[c]
        /\ chan[x].name \in Names
    BY <1>1, <1>5, <1>9, <2>1 DEF FoundWhileAlive, TypeOK, Objects
  <2>3. CASE x = o
    BY <1>1, <1>2, <1>9, <2>1, <2>2, <2>3 DEF TypeOK
  <2>4. CASE x # o
    <3>1. chan[x].name = name => ~ (chan[o].member \subseteq {d})
      BY <1>5, <1>9, <2>1, <2>2, <2>4, ChannelsAssumption
    <3>2. channel'[chan[x].name] = x
      BY <1>1, <1>2, <2>2, <3>1 DEF TypeOK
    <3>3. chan[x].name = name => chan[o].member = {}
      BY <1>1, <1>5, <1>9, <2>1, <2>2, <2>4 DEF FoundWhileAlive
    <3> QED
      BY <1>1, <1>2, <2>1, <2>2, <2>4, <3>1, <3>2, <3>3 DEF TypeOK
  <2> QED
    BY <2>3, <2>4
<1> QED
  BY <1>6, <1>7, <1>8, <1>9 DEF FoundWhileAlive

(* The same for the client that leaves every channel.                      *)
LEMMA LeaveAllStep ==
  ASSUME IInv, TypeOK', NEW d \in Clients, LeaveAllChannel(d)
  PROVE  FoundUnderItsName' /\ JoinedIsMember' /\ FoundWhileAlive'
<1>1. /\ FoundUnderItsName /\ JoinedIsMember /\ FoundWhileAlive /\ TypeOK
      /\ Blank.member = {} /\ NoChan \notin Chans
  BY BlankObject, ChannelsAssumption DEF IInv
<1>2. /\ \A n \in Names :
           channel'[n] = IF channel[n] # NoChan /\ chan[channel[n]].member \subseteq {d}
                           THEN NoChan ELSE channel[n]
      /\ \A n \in Names : channel'[n] # NoChan =>
           chan'[channel'[n]] = Without(channel'[n], d)
      /\ \A x \in Chans : chan'[x].member # {} =>
           chan'[x] = IF x \in Mapped THEN Without(x, d) ELSE chan[x]
  BY LeaveAllFacts
<1>3. \A x \in Chans : /\ Without(x, d).name = chan[x].name
                       /\ Without(x, d).member = chan[x].member \ {d}
  BY <1>1, ObjectOps
<1>4. joined' = [joined EXCEPT ![d] = {}] /\ dropped' = dropped
  BY DEF LeaveAllChannel
<1>5. \A n \in Names : channel[n] # NoChan =>
         channel[n] \in Chans /\ channel[n] \in Mapped
  BY <1>1 DEF TypeOK, Mapped
<1>6. FoundUnderItsName'
  BY <1>1, <1>2, <1>3, <1>5 DEF FoundUnderItsName
<1>7. JoinedIsMember'
  <2> SUFFICES ASSUME NEW c \in Clients, NEW n \in joined'[c] \ dropped'
               PROVE  channel'[n] # NoChan /\ c \in chan'[channel'[n]].member
    BY DEF JoinedIsMember
  <2>1. /\ n \in joined[c] \ dropped /\ n \in Names /\ c # d
        /\ channel[n] \in Chans /\ c \in chan[channel[n]].member
    BY <1>1, <1>4, <1>5 DEF JoinedIsMember, TypeOK
  <2> QED
    BY <1>1, <1>2, <1>3, <2>1
<1>8. \A x \in Mapped' : chan'[x].member # {}
  <2> SUFFICES ASSUME NEW n \in Names, channel'[n] # NoChan
               PROVE  chan'[channel'[n]].member # {}
    BY DEF Mapped
  <2>1. channel[n] = channel'[n] /\ channel[n] \in Chans
        /\ ~ (chan[channel[n]].member \subseteq {d})
    BY <1>2, <1>5
  <2> QED
    BY <1>2, <1>3, <2>1
<1>9. ASSUME NEW x \in Chans, chan'[x].member # {}, chan'[x].name \notin dropped'
      PROVE  /\ channel'[chan'[x].name] = x
             /\ \A c \in Clients :
                  c \in chan'[x].member <=> chan'[x].name \in joined'[c]
  <2>1. /\ chan'[x].name = chan[x].name /\ chan[x].member # {}
        /\ chan'[x].member = IF x \in Mapped THEN chan[x].member \ {d} ELSE chan[x].member
    BY <1>1, <1>2, <1>3, <1>9
  <2>2. /\ channel[chan[x].name] = x
        /\ \A c \in Clients : c \in chan[x].member <=> chan[x].name \in joined[c]
        /\ chan[x].name \in Names
    BY <1>1, <1>4, <1>9, <2>1 DEF FoundWhileAlive, TypeOK, Objects
  <2>3. x \in Mapped
    BY <1>1, <1>5, <2>2
  <2>4. channel'[chan[x].name] = x
    BY <1>1, <1>2, <1>9, <2>1, <2>2, <2>3
  <2> QED
    BY <1>1, <1>4, <2>1, <2>2, <2>3, <2>4 DEF TypeOK
<1> QED
  BY <1>6, <1>7, <1>8, <1>9 DEF FoundWhileAlive

(* And for a client that joins, a new channel or an old one.               *)
LEMMA JoinStep ==
  ASSUME IInv, TypeOK', NEW c \in Clients, NEW n \in Names,
         JoinNew(c, n) \/ \E k \in BOOLEAN : Join(c, n, k)
  PROVE  FoundUnderItsName' /\ JoinedIsMember' /\ FoundWhileAlive'
<1>1. /\ FoundUnderItsName /\ JoinedIsMember /\ FoundWhileAlive /\ TypeOK
      /\ NoChan \notin Chans
  BY ChannelsAssumption DEF IInv
<1>2. CASE JoinNew(c, n)
  <2>1. PICK o \in Chans \ Alive :
          /\ channel' = [channel EXCEPT ![n] = o]
          /\ chan' = [chan EXCEPT ![o] = [Blank EXCEPT !.name = n, !.member = {c},
                                                       !.oper = {c}]]
    BY <1>2 DEF JoinNew
  <2>2. /\ channel[n] = NoChan /\ dropped' = dropped
        /\ joined' = [joined EXCEPT ![c] = @ \cup {n}]
    BY <1>2 DEF JoinNew
  <2>3. /\ chan'[o].name = n /\ chan'[o].member = {c}
        /\ \A x \in Chans \ {o} : chan'[x] = chan[x]
    BY <1>1, <2>1, BlankObject DEF TypeOK, Objects
  <2>4. \A m \in Names : channel[m] # o
    BY <2>1 DEF Alive
  <2>5. \A m \in Names : channel'[m] = IF m = n THEN o ELSE channel[m]
    BY <1>1, <2>1 DEF TypeOK
  <2>6. FoundUnderItsName'
    BY <1>1, <2>3, <2>4, <2>5 DEF FoundUnderItsName, TypeOK
  <2>7. JoinedIsMember'
    BY <1>1, <2>2, <2>3, <2>4, <2>5 DEF JoinedIsMember, TypeOK
  <2>8. \A x \in Mapped' : chan'[x].member # {}
    <3> SUFFICES ASSUME NEW m \in Names, channel'[m] # NoChan
                 PROVE  chan'[channel'[m]].member # {}
      BY DEF Mapped
    <3>1. CASE m = n
      BY <2>3, <2>5, <3>1
    <3>2. CASE m # n
      <4>1. channel'[m] = channel[m] /\ channel[m] \in Mapped /\ channel[m] \in Chans \ {o}
        BY <1>1, <2>4, <2>5, <3>2 DEF Mapped, TypeOK
      <4> QED
        BY <1>1, <2>3, <4>1 DEF FoundWhileAlive
    <3> QED
      BY <3>1, <3>2
  <2>9. ASSUME NEW x \in Chans, chan'[x].member # {}, chan'[x].name \notin dropped'
        PROVE  /\ channel'[chan'[x].name] = x
               /\ \A d \in Clients :
                    d \in chan'[x].member <=> chan'[x].name \in joined'[d]
    <3>1. CASE x = o
      BY <1>1, <2>2, <2>3, <2>5, <2>9, <3>1 DEF JoinedIsMember, TypeOK
    <3>2. CASE x # o
      <4>1. /\ channel[chan[x].name] = x /\ chan[x].name \in Names
            /\ \A d \in Clients : d \in chan[x].member <=> chan[x].name \in joined[d]
        BY <1>1, <2>2, <2>3, <2>9, <3>2 DEF FoundWhileAlive, TypeOK, Objects
      <4>2. chan[x].name # n
        BY <1>1, <2>2, <4>1
      <4> QED
        BY <1>1, <2>2, <2>3, <2>5, <3>2, <4>1, <4>2 DEF TypeOK
    <3> QED
      BY <3>1, <3>2
  <2> QED
    BY <2>6, <2>7, <2>8, <2>9 DEF FoundWhileAlive
<1>3. CASE \E k \in BOOLEAN : Join(c, n, k)
  <2>1. PICK k \in BOOLEAN : Join(c, n, k)
    BY <1>3, Zenon
  <2> DEFINE o == channel[n]
  <2>2. /\ o \in Chans /\ o \in Mapped /\ channel' = channel /\ dropped' = dropped
        /\ joined' = [joined EXCEPT ![c] = @ \cup {n}]
        /\ chan' = [chan EXCEPT ![o] = Joining(o, c)]
    BY <1>1, <2>1 DEF Join, TypeOK, Mapped
  <2>3. /\ chan'[o].name = chan[o].name /\ chan'[o].member = chan[o].member \cup {c}
        /\ \A x \in Chans \ {o} : chan'[x] = chan[x]
    BY <1>1, <2>2, ObjectOps DEF TypeOK
  <2>4. chan[o].name = n
    BY <1>1, <2>2 DEF FoundUnderItsName
  <2> HIDE DEF o
  <2>5. FoundUnderItsName'
    BY <1>1, <2>2, <2>3 DEF FoundUnderItsName, TypeOK
  <2>6. JoinedIsMember'
    BY <1>1, <2>2, <2>3 DEF JoinedIsMember, TypeOK, o
  <2>7. \A x \in Mapped' : chan'[x].member # {}
    BY <1>1, <2>2, <2>3 DEF FoundWhileAlive, Mapped, TypeOK
  <2>8. ASSUME NEW x \in Chans, chan'[x].member # {}, chan'[x].name \notin dropped'
        PROVE  /\ channel'[chan'[x].name] = x
               /\ \A d \in Clients :
                    d \in chan'[x].member <=> chan'[x].name \in joined'[d]
    <3>1. CASE x = o
      <4>1. chan[o].member # {} /\ chan[o].name \notin dropped
        BY <1>1, <2>2, <2>3, <2>8, <3>1 DEF FoundWhileAlive
      <4> QED
        BY <1>1, <2>2, <2>3, <2>4, <3>1, <4>1 DEF FoundWhileAlive, TypeOK
    <3>2. CASE x # o
      <4>1. /\ channel[chan[x].name] = x
            /\ \A d \in Clients : d \in chan[x].member <=> chan[x].name \in joined[d]
        BY <1>1, <2>2, <2>3, <2>8, <3>2 DEF FoundWhileAlive
      <4>2. chan[x].name # n
        BY <3>2, <4>1 DEF o
      <4> QED
        BY <1>1, <2>2, <2>3, <3>2, <4>1, <4>2 DEF TypeOK
    <3> QED
      BY <3>1, <3>2
  <2> QED
    BY <2>5, <2>7, <2>6, <2>8 DEF FoundWhileAlive
<1> QED
  BY <1>2, <1>3

(* The map and the members stay together.                                  *)
LEMMA MapStep ==
  IInv /\ TypeOK' /\ [Next]_vars
    => FoundUnderItsName' /\ JoinedIsMember' /\ FoundWhileAlive'
<1> SUFFICES ASSUME IInv, TypeOK', [Next]_vars
             PROVE  FoundUnderItsName' /\ JoinedIsMember' /\ FoundWhileAlive'
  OBVIOUS
<1>0. TypeOK /\ Mapped \subseteq Chans
  BY DEF IInv, TypeOK, Mapped
<1>1. ASSUME NEW c \in Clients, PartLeave(c) \/ Kick(c)
      PROVE  FoundUnderItsName' /\ JoinedIsMember' /\ FoundWhileAlive'
  <2>1. \/ UNCHANGED <<channel, chan, joined, dropped>>
        \/ \E o \in Chans, d \in Clients : TakeOut(o, d)
    BY <1>0, <1>1 DEF PartLeave, Kick, At, TypeOK
  <2>2. CASE UNCHANGED <<channel, chan, joined, dropped>>
    BY <2>2, QuietStep
  <2> QED
    BY <2>1, <2>2, TakeOutStep
<1>2. ASSUME NEW c \in Clients, LeaveAllChannel(c)
      PROVE  FoundUnderItsName' /\ JoinedIsMember' /\ FoundWhileAlive'
  BY <1>2, LeaveAllStep
<1>3. ASSUME NEW c \in Clients, GiveUp(c) \/ Invite(c) \/ ModeSet(c)
      PROVE  FoundUnderItsName' /\ JoinedIsMember' /\ FoundWhileAlive'
  <2>1. UNCHANGED <<channel, joined, dropped>>
    BY <1>3 DEF GiveUp, Invite, ModeSet
  <2>2. PICK objects : /\ Keep(objects)
                       /\ \A o \in Chans : /\ objects[o].name = chan[o].name
                                           /\ objects[o].member = chan[o].member
    <3>1. CASE GiveUp(c)
      BY <3>1 DEF GiveUp
    <3>2. CASE Invite(c)
      <4>1. PICK x : Keep([chan EXCEPT ![ref[c]].invite = x])
        BY <3>2 DEF Invite
      <4>2. \A o \in Chans :
              /\ [chan EXCEPT ![ref[c]].invite = x][o].name = chan[o].name
              /\ [chan EXCEPT ![ref[c]].invite = x][o].member = chan[o].member
        BY <1>0 DEF TypeOK, Objects
      <4> QED
        BY <4>1, <4>2
    <3>3. CASE ModeSet(c)
      <4>1. PICK x, y : \/ Keep([chan EXCEPT ![ref[c]].mode = x])
                        \/ Keep([chan EXCEPT ![ref[c]].oper = y])
        BY <3>3 DEF ModeSet
      <4>2. \A o \in Chans :
              /\ [chan EXCEPT ![ref[c]].mode = x][o].name = chan[o].name
              /\ [chan EXCEPT ![ref[c]].mode = x][o].member = chan[o].member
              /\ [chan EXCEPT ![ref[c]].oper = y][o].name = chan[o].name
              /\ [chan EXCEPT ![ref[c]].oper = y][o].member = chan[o].member
        BY <1>0 DEF TypeOK, Objects
      <4> QED
        BY <4>1, <4>2
    <3> QED
      BY <1>3, <3>1, <3>2, <3>3
  <2>3. Mapped \subseteq Alive'
    BY <2>1 DEF Mapped, Alive
  <2>4. \A o \in Mapped : chan'[o] = objects[o]
    BY <1>0, <2>2, <2>3 DEF Keep
  <2>5. \A o \in Chans : chan'[o] = objects[o] \/ chan'[o] = Blank
    BY <2>2 DEF Keep
  <2> QED
    BY <1>0, <2>1, <2>2, <2>4, <2>5, QuietStep
<1>4. ASSUME NEW c \in Clients,
             \/ PartCheck(c) \/ Oper(c) \/ UserAgain(c) \/ Remove(c)
             \/ \E d \in Clients : KickFind(c, d) \/ InviteFind(c, d)
             \/ \E n \in Names :
                  \/ InviteChan(c, n)
                  \/ \E next \in {"part", "kick", "mode"} : FindChan(c, n, next)
      PROVE  FoundUnderItsName' /\ JoinedIsMember' /\ FoundWhileAlive'
  <2>1. UNCHANGED <<channel, chan, joined, dropped>>
    BY <1>4 DEF PartCheck, Oper, UserAgain, Remove, KickFind, InviteFind, InviteChan, FindChan
  <2> QED
    BY <2>1, QuietStep
<1>5. ASSUME NEW c \in Clients, NEW n \in Names,
             JoinNew(c, n) \/ \E k \in BOOLEAN : Join(c, n, k)
      PROVE  FoundUnderItsName' /\ JoinedIsMember' /\ FoundWhileAlive'
  BY <1>5, JoinStep
<1>6. CASE UNCHANGED vars
  <2>1. UNCHANGED <<channel, chan, joined, dropped>>
    BY <1>6 DEF vars
  <2> QED
    BY <2>1, QuietStep
<1>7. CASE \E c \in Clients : \E n \in Names : \E k \in BOOLEAN : Join(c, n, k)
  BY <1>5, <1>7, Zenon
<1> QED
  BY <1>1, <1>2, <1>3, <1>4, <1>5, <1>6, <1>7 DEF Next

(* A client that is gone is in no channel, and invited where the history   *)
(* says so.                                                                *)
LEMMA GoneStep ==
  IInv /\ TypeOK' /\ [Next]_vars => NoDeadMember' /\ DeadInviteRaced'
<1> SUFFICES ASSUME IInv, TypeOK', [Next]_vars
             PROVE  NoDeadMember' /\ DeadInviteRaced'
  OBVIOUS
<1>0. /\ TypeOK /\ NoDeadMember /\ DeadInviteRaced /\ InviteKnown
      /\ Blank.member = {} /\ Blank.invite = {} /\ NoChan \notin Chans
      /\ Mapped \subseteq Chans
  BY BlankObject, ChannelsAssumption DEF IInv, TypeOK, Mapped
<1>1. ASSUME NEW d \in Clients, LeaveAllChannel(d)
      PROVE  NoDeadMember' /\ DeadInviteRaced'
  <2>1. \A n \in Names : channel'[n] # NoChan =>
          /\ channel'[n] = channel[n] /\ channel[n] \in Chans /\ channel[n] \in Mapped
          /\ chan'[channel'[n]] = Without(channel'[n], d)
    BY <1>0, <1>1, LeaveAllFacts DEF TypeOK, Mapped
  <2>2. \A o \in Mapped' :
          /\ o \in Mapped /\ o \in Chans
          /\ chan'[o].member = chan[o].member \ {d}
          /\ chan'[o].invite = chan[o].invite \ {d}
    BY <1>0, <1>1, <2>1, ObjectOps DEF Mapped
  <2>3. Gone' = Gone \cup {d} /\ raced \subseteq raced'
    BY <1>0, <1>1 DEF LeaveAllChannel, Gone, TypeOK
  <2> QED
    BY <1>0, <2>2, <2>3 DEF NoDeadMember, DeadInviteRaced
<1>2. CASE Next /\ \A d \in Clients : ~ LeaveAllChannel(d)
  <2>1. Gone' = Gone /\ raced' = raced
    <3>1. PICK c \in Clients :
            \/ UNCHANGED <<ustate, raced>>
            \/ Oper(c) \/ UserAgain(c) \/ Remove(c)
      <4>1. PICK c \in Clients :
              \/ GiveUp(c) \/ PartCheck(c) \/ PartLeave(c) \/ Kick(c) \/ Invite(c)
              \/ ModeSet(c) \/ Oper(c) \/ UserAgain(c) \/ Remove(c)
              \/ \E d \in Clients : KickFind(c, d) \/ InviteFind(c, d)
              \/ \E n \in Names :
                   \/ JoinNew(c, n) \/ InviteChan(c, n)
                   \/ \E goodKey \in BOOLEAN : Join(c, n, goodKey)
                   \/ \E next \in {"part", "kick", "mode"} : FindChan(c, n, next)
        BY <1>2, Zenon DEF Next
      <4>2. CASE GiveUp(c) \/ PartCheck(c) \/ PartLeave(c)
        BY <4>2 DEF GiveUp, PartCheck, PartLeave
      <4>3. CASE Kick(c)
        BY <4>3 DEF Kick
      <4>4. CASE Invite(c) \/ ModeSet(c)
        BY <4>4 DEF Invite, ModeSet
      <4>5. CASE \E d \in Clients : KickFind(c, d) \/ InviteFind(c, d)
        BY <4>5 DEF KickFind, InviteFind
      <4>6. CASE \E n \in Names :
                   \/ JoinNew(c, n) \/ InviteChan(c, n)
                   \/ \E goodKey \in BOOLEAN : Join(c, n, goodKey)
                   \/ \E next \in {"part", "kick", "mode"} : FindChan(c, n, next)
        BY <4>6 DEF JoinNew, InviteChan, Join, FindChan
      <4> QED
        BY <4>1, <4>2, <4>3, <4>4, <4>5, <4>6
    <3> QED
      BY <1>0, <3>1 DEF Oper, UserAgain, Remove, Idle, Registered, Gone, TypeOK
  <2> SUFFICES ASSUME NEW o \in Chans, o \in Mapped'
               PROVE  /\ chan'[o].member \cap Gone = {}
                      /\ chan'[o].invite \cap Gone \subseteq raced
    <3>1. Mapped' \subseteq Chans
      BY DEF Mapped, TypeOK
    <3> QED
      BY <2>1, <3>1 DEF NoDeadMember, DeadInviteRaced
  <2>2. Registered \cap Gone = {} /\ Registered \subseteq Clients
    BY DEF Registered, Gone
  <2>3. o \in Mapped \/ \E c \in Clients, n \in Names : JoinNew(c, n) /\ channel[n] # o /\ channel'[n] = o
    <3>1. PICK c \in Clients : 
            \/ UNCHANGED channel
            \/ PartLeave(c) \/ Kick(c) \/ \E n \in Names : JoinNew(c, n)
      BY <1>2 DEF Next, GiveUp, PartCheck, Invite, ModeSet, KickFind, InviteFind,
                  InviteChan, Join, FindChan, Oper, UserAgain, Remove
    <3>2. CASE UNCHANGED channel
      BY <3>2 DEF Mapped
    <3>3. CASE PartLeave(c) \/ Kick(c)
      <4>1. UNCHANGED channel \/ \E x \in Chans, d \in Clients : TakeOut(x, d)
        BY <1>0, <3>3 DEF PartLeave, Kick, At, TypeOK
      <4>2. \A n \in Names : channel'[n] \in {channel[n], NoChan}
        BY <1>0, <4>1, TakeOutFacts DEF TypeOK
      <4> QED
        BY <4>2 DEF Mapped
    <3>4. CASE \E n \in Names : JoinNew(c, n)
      <4>1. PICK n \in Names : JoinNew(c, n)
        BY <3>4
      <4>2. \A m \in Names \ {n} : channel'[m] = channel[m]
        BY <1>0, <4>1 DEF JoinNew, TypeOK
      <4> QED
        BY <4>1, <4>2 DEF Mapped
    <3> QED
      BY <3>1, <3>2, <3>3, <3>4
  <2>4. CASE \E c \in Clients, n \in Names : JoinNew(c, n) /\ channel[n] # o /\ channel'[n] = o
    <3>1. PICK c \in Clients, n \in Names : JoinNew(c, n) /\ channel[n] # o /\ channel'[n] = o
      BY <2>4
    <3>2. c \in Registered /\ chan'[o] = [Blank EXCEPT !.name = n, !.member = {c}, !.oper = {c}]
      BY <1>0, <3>1 DEF JoinNew, Idle, TypeOK
    <3> QED
      BY <1>0, <2>2, <3>2, BlankObject DEF Objects
  <2>5. CASE o \in Mapped
    <3>1. chan[o].member \cap Gone = {} /\ chan[o].invite \cap Gone \subseteq raced
          /\ chan[o] \in Objects
      BY <1>0, <2>5 DEF NoDeadMember, DeadInviteRaced, TypeOK
    <3>2. CASE chan'[o] \in {chan[o], Blank}
      BY <1>0, <3>1, <3>2
    <3>3. ASSUME NEW c \in Clients, chan'[o] = Without(o, c)
          PROVE  /\ chan'[o].member \cap Gone = {}
                 /\ chan'[o].invite \cap Gone \subseteq raced
      BY <1>0, <3>1, <3>3, ObjectOps
    <3>4. ASSUME NEW c \in Registered, chan'[o] = Joining(o, c)
          PROVE  /\ chan'[o].member \cap Gone = {}
                 /\ chan'[o].invite \cap Gone \subseteq raced
      BY <1>0, <2>2, <3>1, <3>4, ObjectOps
    <3>5. ASSUME NEW c \in Registered, NEW n \in Names,
                 chan'[o] = [Blank EXCEPT !.name = n, !.member = {c}, !.oper = {c}]
          PROVE  /\ chan'[o].member \cap Gone = {}
                 /\ chan'[o].invite \cap Gone \subseteq raced
      BY <1>0, <2>2, <3>5, BlankObject DEF Objects
    <3>6. ASSUME NEW c \in Clients, Invited(o, c, chan'[o])
          PROVE  /\ chan'[o].member \cap Gone = {}
                 /\ chan'[o].invite \cap Gone \subseteq raced
      BY <1>0, <3>1, <3>6 DEF Invited, InviteKnown, Objects
    <3>7. CASE Moded(o, chan'[o])
      BY <3>1, <3>7 DEF Moded, Objects
    <3> QED
      BY <1>2, <3>2, <3>3, <3>4, <3>5, <3>6, <3>7, ObjectStep
  <2> QED
    BY <2>3, <2>4, <2>5
<1>3. CASE UNCHANGED vars
  BY <1>0, <1>3 DEF vars, NoDeadMember, DeadInviteRaced, Mapped, Gone
<1> QED
  BY <1>1, <1>2, <1>3

(* The inductive invariant holds in every state.                           *)
THEOREM Invariance == Spec => []IInv
<1>1. IInv /\ [Next]_vars => IInv'
  BY TypeStep, RightsStep, InviteStep, MapStep, GoneStep DEF IInv
<1> QED
  BY InitIInv, <1>1, PTL DEF Spec

(* In every channel object the operators are members, after any            *)
(* interleaving of KICK, PART, MODE +o and the removal of clients.         *)
THEOREM RightsOfMembers == Spec => []OperatorsAreMembers
<1>1. IInv => OperatorsAreMembers
  BY DEF IInv
<1> QED
  BY Invariance, <1>1, PTL

(* add_user and add_invite keep the members and the invited clients apart. *)
THEOREM InvitedOrMember == Spec => []InvitesAreForOthers
<1>1. IInv => InvitesAreForOthers
  BY DEF IInv
<1> QED
  BY Invariance, <1>1, PTL

(* remove_client leaves no member behind in a channel that can be found,   *)
(* whatever the commands that held a reference to the client do.           *)
THEOREM RemovedIsNoMember == Spec => []NoDeadMember
<1>1. IInv => NoDeadMember
  BY DEF IInv
<1> QED
  BY Invariance, <1>1, PTL

(* The one way a removed client stays invited is an INVITE that had found  *)
(* it before it was removed.                                               *)
THEOREM OnlyARaceInvitesTheRemoved == Spec => []DeadInviteRaced
<1>1. IInv => DeadInviteRaced
  BY DEF IInv
<1> QED
  BY Invariance, <1>1, PTL

(* Map, objects and the clients' own lists agree on every channel of which *)
(* no earlier namesake took the name out of the map.                       *)
THEOREM ChannelsAreFound == Spec => []FoundWhileAlive
<1>1. IInv => FoundWhileAlive
  BY DEF IInv
<1> QED
  BY Invariance, <1>1, PTL
===============================================================================
