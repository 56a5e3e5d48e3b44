----------------------------- MODULE RosterProofs -----------------------------
(***************************************************************************)
(* For any clients, nicknames and topics: what the watcher believes, the   *)
(* four invariants of Roster.                                              *)
(***************************************************************************)
EXTENDS Roster, TLAPS

OwnSteps == {"find", "topic", "echo", "rpl_topic", "names", "rpl_names"}

(* The ranges of the variables, and what a command holds when.             *)
TypeOK ==
  /\ member \subseteq Clients
  /\ nick \in [Clients -> Nicks] /\ nickList \in [Nicks -> Clients \cup {NoClient}]
  /\ pc \in [Clients -> OwnSteps \cup
       {"idle", "join_tell", "part", "part_tell", "part_out", "quit", "quit_out",
        "gone", "nick", "nick_echo", "nick_tell"}]
  /\ held \in [Clients -> SUBSET (Nicks \cup Topics)]
  /\ topic \in Topics /\ told \in Topics
  /\ view \subseteq Nicks /\ left \subseteq Nicks /\ renamed \subseteq Nicks
  /\ mixed \subseteq Nicks /\ shaken \subseteq {"kick", "topic"}

HoldsOne(c, set) == held[c] = {The(held[c])} /\ The(held[c]) \in set

Locals ==
  /\ \A c \in Clients :
       /\ pc[c] \in OwnSteps => c = Watcher
       /\ pc[c] = "gone" => c \notin member
       /\ pc[c] \in {"nick", "nick_echo", "nick_tell"} => HoldsOne(c, Nicks)
  /\ pc[Watcher] \in {"echo", "rpl_topic"} => HoldsOne(Watcher, Topics)
  /\ pc[Watcher] = "rpl_names" => held[Watcher] \subseteq Nicks

(* Two clients are called the same, or one is still known by the nickname  *)
(* another one has, only if that nickname is mixed up.                     *)
NamesakesMixed ==
  \A c, d \in Clients : c # d =>
    /\ pc[c] # "gone" /\ pc[d] # "gone" /\ nick[c] = nick[d] => nick[d] \in mixed
    /\ c \in Renaming /\ pc[d] # "gone" /\ nick[d] \in held[c] => nick[d] \in mixed
    /\ c \in Renaming /\ d \in Renaming /\ held[c] = held[d] => held[d] \subseteq mixed

(* No nickname of the watcher itself is mixed up.                          *)
OwnKnown ==
  /\ nick[Watcher] \notin mixed
  /\ Watcher \in Renaming => held[Watcher] \cap mixed = {}

(* The watcher has its JOIN and no PART of its own.                        *)
Inside ==
  /\ Watcher \in member
  /\ pc[Watcher] \notin {"find", "topic", "echo", "part_tell", "part_out"}

(* It shows itself when it is a member, and only then.                     *)
ShowsItself ==
  OwnKnown =>
    /\ Inside => Me \in view
    /\ view # {} /\ pc[Watcher] # "gone" /\ "kick" \notin shaken => Watcher \in member
    /\ Joining /\ "kick" \notin shaken => Watcher \in member
    /\ pc[Watcher] \in {"part_tell", "part_out"} => view = {}

(* The topic on its way through the JOIN.                                  *)
TopicOnItsWay ==
  "topic" \notin shaken =>
    /\ pc[Watcher] \in {"echo", "rpl_topic"} => held[Watcher] = {topic}
    /\ pc[Watcher] \in {"names", "rpl_names"} => told = topic
    /\ Watcher \in member /\ ~ Joining => told = topic

(* The names somebody in the channel has, or is still known by to the      *)
(* watcher, and those of which nothing is claimed.                         *)
StillKnown == {d \in member \cap Renaming : d = Watcher => pc[d] = "nick_echo"}

Accounted ==
  {nick[d] : d \in member} \cup renamed \cup mixed \cup UNION {held[d] : d \in StillKnown}

Names == IF pc[Watcher] = "rpl_names" THEN held[Watcher] ELSE {}

(* Whoever the members were told of, and is about to be taken out.         *)
GoingOut == {c \in member \ {Watcher} : pc[c] \in {"part_out", "quit_out"}}

(* What the watcher shows is accounted for, before the NAMES list and with *)
(* it; and those that go out are known to have left.                       *)
ShownAccounted ==
  Watcher \in member =>
    /\ Inside => view \subseteq IF Joining THEN Accounted ELSE Accounted \cup left
    /\ Names \subseteq Accounted \cup left
    /\ \A c \in GoingOut :
         /\ Joining => nick[c] \in left
         /\ Inside /\ nick[c] \in view => nick[c] \in IF Joining THEN mixed ELSE left \cup mixed

(* The names by which a member may be known are shown, listed, or such     *)
(* that nothing is claimed of them, unless it is on its way in or out.     *)
KnownBy(d) == IF d \in Renaming THEN {nick[d]} \cup held[d] ELSE {nick[d]}

Claimed == view \cup Names \cup renamed \cup mixed

Staying == {"idle", "part", "quit", "nick", "nick_echo", "nick_tell"}

MembersShown ==
  Inside /\ OwnKnown /\ pc[Watcher] \notin {"rpl_topic", "names"} =>
    \A d \in member \ {Watcher} : pc[d] \in Staying => KnownBy(d) \cap Claimed # {}

IInv ==
  /\ TypeOK /\ Locals /\ NamesakesMixed /\ ShowsItself /\ TopicOnItsWay
  /\ ShownAccounted /\ MembersShown

(* The one element of a local that holds one.                              *)
LEMMA TheOnly == \A x : The({x}) = x
  BY DEF The

(* At the start everybody is outside, under its own nickname.              *)
LEMMA InitIInv == Init => IInv
<1> SUFFICES ASSUME Init PROVE IInv
  OBVIOUS
<1> USE RosterAssumption DEF Init
<1>1. TypeOK /\ Locals
  BY DEF TypeOK, Locals, OwnSteps
<1>2. NamesakesMixed
  BY DEF NamesakesMixed, Renaming
<1>3. ShowsItself
  BY DEF ShowsItself, Inside, Joining
<1>4. TopicOnItsWay
  BY DEF TopicOnItsWay
<1>5. ShownAccounted /\ MembersShown
  BY DEF ShownAccounted, MembersShown, Inside
<1> QED
  BY <1>1, <1>2, <1>3, <1>4, <1>5 DEF IInv

(* What the watcher makes of a message is a set of nicknames.              *)
LEMMA ViewType ==
  ASSUME TypeOK
  PROVE  /\ \A n \in Nicks : AfterJoin(n) \subseteq Nicks /\ AfterLeave(n) \subseteq Nicks
         /\ \A n, m \in Nicks : AfterNick(n, m) \subseteq Nicks
         /\ \A names \in SUBSET Nicks : AfterNames(names) \subseteq Nicks
  BY DEF TypeOK, AfterJoin, AfterLeave, AfterNick, AfterNames

(* The steps of the watcher's own JOIN, and TOPIC, keep the ranges.        *)
LEMMA TypeStepOwn ==
  ASSUME TypeOK, Locals,
         \/ FindChan \/ GetTopic \/ JoinEcho \/ RplTopic \/ GetNamelist \/ RplNames
         \/ \E t \in Topics : SetTopic(t)
  PROVE  TypeOK'
<1> USE RosterAssumption DEF TypeOK, OwnSteps, Goto, history, beliefs
<1>1. CASE FindChan
  BY <1>1 DEF FindChan
<1>2. CASE GetTopic
  BY <1>2 DEF GetTopic
<1>3. CASE JoinEcho
  <2>1. HoldsOne(Watcher, Topics) /\ view' \subseteq Nicks
    BY <1>3, ViewType DEF Locals, JoinEcho
  <2> QED
    BY <1>3, <2>1 DEF JoinEcho, AfterEcho, HoldsOne
<1>4. CASE RplTopic
  <2>1. HoldsOne(Watcher, Topics)
    BY <1>4 DEF Locals, RplTopic
  <2> QED
    BY <1>4, <2>1 DEF RplTopic, HoldsOne
<1>5. CASE GetNamelist
  BY <1>5 DEF GetNamelist
<1>6. CASE RplNames
  <2>1. view' \subseteq Nicks
    BY <1>6, ViewType DEF Locals, RplNames
  <2> QED
    BY <1>6, <2>1 DEF RplNames
<1>7. CASE \E t \in Topics : SetTopic(t)
  BY <1>7 DEF SetTopic, TopicTold
<1> QED
  BY <1>1, <1>2, <1>3, <1>4, <1>5, <1>6, <1>7

(* The other commands keep the ranges.                                     *)
LEMMA TypeStepOthers ==
  ASSUME TypeOK, Locals, NEW c \in Clients,
         \/ JoinChan(c) \/ JoinTell(c)
         \/ PartCheck(c) \/ PartEcho(c) \/ PartTell(c) \/ PartOut(c)
         \/ Remove(c) \/ QuitTell(c) \/ QuitOut(c) \/ Kick(c)
         \/ \E n \in Nicks : NickCheck(c, n)
         \/ NickSet(c) \/ NickEcho(c) \/ NickTell(c)
  PROVE  TypeOK'
<1> USE RosterAssumption DEF TypeOK, OwnSteps, Goto, history, beliefs
<1>1. CASE JoinChan(c)
  BY <1>1 DEF JoinChan
<1>2. CASE JoinTell(c) \/ PartEcho(c)
  <2>1. view' \subseteq Nicks
    <3>1. nick[c] \in Nicks /\ nick[Watcher] \in Nicks /\ view \subseteq Nicks
      OBVIOUS
    <3>2. view' \in {view, AfterJoin(nick[c]), AfterLeave(nick[c])}
      BY <1>2 DEF JoinTell, PartEcho
    <3> QED
      BY <3>1, <3>2, ViewType
  <2>2. CASE JoinTell(c)
    BY <2>1, <2>2 DEF JoinTell
  <2>3. CASE PartEcho(c)
    BY <2>1, <2>3 DEF PartEcho
  <2> QED
    BY <1>2, <2>2, <2>3
<1>3. CASE PartTell(c) \/ QuitTell(c) \/ Kick(c)
  <2>1. view' \subseteq Nicks /\ left' \subseteq Nicks
    <3>1. nick[c] \in Nicks /\ view \subseteq Nicks /\ left \subseteq Nicks
      OBVIOUS
    <3>2. /\ view' \in {view, AfterLeave(nick[c])}
          /\ left' \in {left, left \cup {nick[c]}, left \ {nick[c]}}
      BY <1>3 DEF PartTell, QuitTell, Kick, TellLeave
    <3> QED
      BY <3>1, <3>2, ViewType
  <2>2. CASE PartTell(c)
    BY <2>1, <2>2 DEF PartTell
  <2>3. CASE QuitTell(c)
    BY <2>1, <2>3 DEF QuitTell
  <2>4. CASE Kick(c)
    <3>1. c \in Renaming => held[c] \subseteq Nicks
      BY DEF Renaming, Locals, HoldsOne
    <3> QED
      BY <2>1, <2>4, <3>1 DEF Kick
  <2> QED
    BY <1>3, <2>2, <2>3, <2>4
<1>4. CASE PartCheck(c)
  BY <1>4 DEF PartCheck
<1>5. CASE PartOut(c)
  BY <1>5 DEF PartOut
<1>6. CASE QuitOut(c)
  BY <1>6 DEF QuitOut
<1>7. CASE Remove(c)
  BY <1>7 DEF Remove
<1>8. CASE \E n \in Nicks : NickCheck(c, n)
  BY <1>8 DEF NickCheck
<1>9. CASE NickSet(c) \/ NickEcho(c) \/ NickTell(c)
  <2>1. HoldsOne(c, Nicks)
    BY <1>9 DEF Locals, NickSet, NickEcho, NickTell
  <2>2. CASE NickSet(c)
    BY <2>1, <2>2 DEF NickSet, HoldsOne
  <2>3. view' \subseteq Nicks
    <3>1. nick[c] \in Nicks /\ view \subseteq Nicks /\ The(held[c]) \in Nicks
      BY <2>1 DEF HoldsOne
    <3>2. view' \in {view, AfterNick(The(held[c]), nick[c])}
      BY <1>9 DEF NickSet, NickEcho, NickTell
    <3> QED
      BY <3>1, <3>2, ViewType
  <2>4. CASE NickEcho(c)
    BY <2>3, <2>4 DEF NickEcho
  <2>5. CASE NickTell(c)
    <3>1. renamed' \subseteq Nicks /\ mixed' \subseteq Nicks
      BY <2>1, <2>5 DEF NickTell, HoldsOne
    <3> QED
      BY <2>3, <2>5, <3>1 DEF NickTell
  <2> QED
    BY <1>9, <2>2, <2>4, <2>5
<1> QED
  BY <1>1, <1>2, <1>3, <1>4, <1>5, <1>6, <1>7, <1>8, <1>9

(* A step keeps every variable in its range.                               *)
LEMMA TypeStep == IInv /\ [Next]_vars => TypeOK'
<1>1. TypeOK /\ Locals /\ Next => TypeOK'
  BY TypeStepOwn, TypeStepOthers DEF Next
<1>2. TypeOK /\ UNCHANGED vars => TypeOK'
  BY DEF TypeOK, vars
<1> QED
  BY <1>1, <1>2 DEF IInv

(* And the locals hold what the next step expects.                         *)
LEMMA LocalsStep == IInv /\ [Next]_vars => Locals'
<1> SUFFICES ASSUME IInv, [Next]_vars PROVE Locals'
  OBVIOUS
<1>0. TypeOK /\ Locals
  BY DEF IInv
<1> USE RosterAssumption DEF OwnSteps, Goto, history, HoldsOne
<1>1. ASSUME NEW c \in Clients,
             \/ JoinTell(c) \/ PartCheck(c) \/ PartEcho(c) \/ PartTell(c) \/ Remove(c)
             \/ QuitTell(c)
      PROVE  Locals'
  BY <1>0, <1>1 DEF JoinTell, PartCheck, PartEcho, PartTell, Remove, QuitTell,
                    Locals, TypeOK
<1>2. ASSUME NEW c \in Clients, PartOut(c) \/ QuitOut(c) \/ JoinChan(c) \/ Kick(c)
      PROVE  Locals'
  BY <1>0, <1>2 DEF PartOut, QuitOut, JoinChan, Kick, Locals, TypeOK
<1>3. ASSUME NEW c \in Clients, NEW n \in Nicks, NickCheck(c, n)
      PROVE  Locals'
  BY <1>0, <1>3, TheOnly DEF NickCheck, Locals, TypeOK
<1>4. ASSUME NEW c \in Clients, NickSet(c) \/ NickEcho(c) \/ NickTell(c)
      PROVE  Locals'
  <2>1. CASE NickSet(c)
    <3>1. /\ pc'[c] = "nick_echo" /\ held'[c] = {nick[c]} /\ nick[c] \in Nicks
          /\ \A d \in Clients \ {c} : pc'[d] = pc[d] /\ held'[d] = held[d]
          /\ member' = member /\ pc[c] = "nick"
      BY <1>0, <2>1 DEF NickSet, TypeOK
    <3>2. HoldsOne(c, Nicks)'
      BY <3>1, TheOnly
    <3>3. CASE c = Watcher
      BY <1>0, <3>1, <3>2, <3>3 DEF Locals
    <3>4. CASE c # Watcher
      BY <1>0, <3>1, <3>2, <3>4 DEF Locals
    <3> QED
      BY <3>3, <3>4
  <2>2. CASE NickEcho(c)
    BY <1>0, <2>2 DEF NickEcho, Locals, TypeOK
  <2>3. CASE NickTell(c)
    BY <1>0, <2>3 DEF NickTell, Locals, TypeOK
  <2> QED
    BY <1>4, <2>1, <2>2, <2>3
<1>5. CASE FindChan \/ GetTopic \/ JoinEcho
  <2>1. CASE FindChan
    BY <1>0, <2>1 DEF FindChan, Locals, TypeOK
  <2>2. CASE GetTopic
    BY <1>0, <2>2, TheOnly DEF GetTopic, Locals, TypeOK
  <2>3. CASE JoinEcho
    BY <1>0, <2>3, TheOnly DEF JoinEcho, AfterEcho, Locals, TypeOK
  <2> QED
    BY <1>5, <2>1, <2>2, <2>3
<1>6. CASE RplTopic \/ RplNames
  BY <1>0, <1>6 DEF RplTopic, RplNames, Locals, TypeOK
<1>7. CASE GetNamelist
  BY <1>0, <1>7 DEF GetNamelist, Locals, TypeOK
<1>8. CASE \E t \in Topics : SetTopic(t)
  BY <1>8, <1>0 DEF SetTopic, Locals
<1>9. CASE UNCHANGED vars
  BY <1>9, <1>0 DEF vars, Locals
<1> QED
  BY <1>1, <1>2, <1>3, <1>4, <1>5, <1>6, <1>7, <1>8, <1>9 DEF Next

(* What other steps than the change of a nickname do to what the clients   *)
(* are called.                                                             *)
LEMMA NamesFrame ==
  ASSUME IInv, [Next]_vars, \A c \in Clients : ~ NickSet(c)
  PROVE  /\ nick' = nick /\ mixed \subseteq mixed'
         /\ \A c \in Clients :
              /\ c \in Renaming' => c \in Renaming /\ held'[c] = held[c]
              /\ pc[c] = "gone" => pc'[c] = "gone"
<1> USE DEF IInv, TypeOK, Goto, Renaming, history
<1>1. ASSUME NEW d \in Clients,
             \/ JoinChan(d) \/ JoinTell(d)
             \/ PartCheck(d) \/ PartEcho(d) \/ PartTell(d) \/ PartOut(d)
             \/ Remove(d) \/ QuitTell(d) \/ QuitOut(d)
             \/ \E n \in Nicks : NickCheck(d, n)
      PROVE  /\ nick' = nick /\ mixed \subseteq mixed'
             /\ \A c \in Clients :
                  /\ c \in Renaming' => c \in Renaming /\ held'[c] = held[c]
                  /\ pc[c] = "gone" => pc'[c] = "gone"
  BY <1>1 DEF JoinChan, JoinTell, PartCheck, PartEcho, PartTell, PartOut, Remove,
              QuitTell, QuitOut, NickCheck
<1>2. ASSUME NEW d \in Clients, Kick(d) \/ NickEcho(d) \/ NickTell(d)
      PROVE  /\ nick' = nick /\ mixed \subseteq mixed'
             /\ \A c \in Clients :
                  /\ c \in Renaming' => c \in Renaming /\ held'[c] = held[c]
                  /\ pc[c] = "gone" => pc'[c] = "gone"
  BY <1>2 DEF Kick, NickEcho, NickTell
<1>3. ASSUME \/ FindChan \/ GetTopic \/ JoinEcho \/ RplTopic \/ GetNamelist \/ RplNames
             \/ \E t \in Topics : SetTopic(t)
      PROVE  /\ nick' = nick /\ mixed \subseteq mixed'
             /\ \A c \in Clients :
                  /\ c \in Renaming' => c \in Renaming /\ held'[c] = held[c]
                  /\ pc[c] = "gone" => pc'[c] = "gone"
  BY <1>3, RosterAssumption
  DEF FindChan, GetTopic, JoinEcho, AfterEcho, RplTopic, GetNamelist, RplNames, SetTopic
<1>4. CASE UNCHANGED vars
  BY <1>4 DEF vars
<1> QED
  BY <1>1, <1>2, <1>3, <1>4 DEF Next

(* The locals of a change of nickname.                                     *)
LEMMA NickSetFacts ==
  ASSUME IInv, NEW c \in Clients, NickSet(c)
  PROVE  \E n \in Nicks :
           /\ nick' = [nick EXCEPT ![c] = n] /\ pc[c] = "nick" /\ held[c] = {n}
           /\ pc' = [pc EXCEPT ![c] = "nick_echo"]
           /\ held' = [held EXCEPT ![c] = {nick[c]}]
           /\ mixed \subseteq mixed'
           /\ n \in {nick[d] : d \in {e \in Clients : pc[e] # "gone"}}
                      \cup UNION {held[d] : d \in Renaming} => n \in mixed'
<1>1. HoldsOne(c, Nicks)
  BY DEF IInv, Locals, NickSet
<1> QED
  BY <1>1 DEF NickSet, Goto, HoldsOne

(* Namesakes stay mixed up.                                                *)
LEMMA NamesakesStep == IInv /\ [Next]_vars => NamesakesMixed'
<1> SUFFICES ASSUME IInv, [Next]_vars PROVE NamesakesMixed'
  OBVIOUS
<1>1. NamesakesMixed /\ TypeOK
  BY DEF IInv
<1>2. CASE \A c \in Clients : ~ NickSet(c)
  BY <1>1, <1>2, NamesFrame DEF NamesakesMixed
<1>3. ASSUME NEW b \in Clients, NickSet(b) PROVE NamesakesMixed'
  <2>1. PICK n \in Nicks :
           /\ nick' = [nick EXCEPT ![b] = n] /\ pc[b] = "nick"
           /\ pc' = [pc EXCEPT ![b] = "nick_echo"]
           /\ held' = [held EXCEPT ![b] = {nick[b]}]
           /\ mixed \subseteq mixed'
           /\ n \in {nick[d] : d \in {e \in Clients : pc[e] # "gone"}}
                      \cup UNION {held[d] : d \in Renaming} => n \in mixed'
    BY <1>3, NickSetFacts
  <2>2. /\ nick'[b] = n /\ held'[b] = {nick[b]} /\ pc'[b] = "nick_echo"
        /\ \A c \in Clients \ {b} : nick'[c] = nick[c] /\ held'[c] = held[c] /\ pc'[c] = pc[c]
        /\ Renaming' = Renaming \cup {b} /\ b \notin Renaming
    BY <1>1, <2>1 DEF TypeOK, Renaming
  <2>3. \A c \in Clients \ {b} : pc[c] # "gone" /\ nick[c] = n => n \in mixed'
    BY <2>1
  <2>4. \A c \in Renaming : n \in held[c] => n \in mixed'
    BY <2>1
  <2> SUFFICES ASSUME NEW c \in Clients, NEW d \in Clients, c # d
               PROVE  /\ pc'[c] # "gone" /\ pc'[d] # "gone" /\ nick'[c] = nick'[d]
                           => nick'[d] \in mixed'
                      /\ c \in Renaming' /\ pc'[d] # "gone" /\ nick'[d] \in held'[c]
                           => nick'[d] \in mixed'
                      /\ c \in Renaming' /\ d \in Renaming' /\ held'[c] = held'[d]
                           => held'[d] \subseteq mixed'
    BY DEF NamesakesMixed
  <2>5. CASE c = b
    BY <1>1, <2>1, <2>2, <2>3, <2>4, <2>5 DEF NamesakesMixed
  <2>6. CASE d = b
    BY <1>1, <2>1, <2>2, <2>3, <2>4, <2>6 DEF NamesakesMixed
  <2>7. CASE c # b /\ d # b
    BY <1>1, <2>1, <2>2, <2>7 DEF NamesakesMixed
  <2> QED
    BY <2>5, <2>6, <2>7
<1> QED
  BY <1>2, <1>3

(* The topic of the channel stays on its way to the watcher.               *)
LEMMA TopicStep == IInv /\ [Next]_vars => TopicOnItsWay'
<1> SUFFICES ASSUME IInv, [Next]_vars PROVE TopicOnItsWay'
  OBVIOUS
<1>0. TypeOK /\ TopicOnItsWay
  BY DEF IInv
<1> USE RosterAssumption DEF Goto, history, beliefs
<1>1. ASSUME NEW c \in Clients,
             \/ JoinTell(c)
             \/ PartCheck(c) \/ PartEcho(c) \/ PartTell(c) \/ PartOut(c)
             \/ Remove(c) \/ QuitTell(c) \/ QuitOut(c)
      PROVE  TopicOnItsWay'
  BY <1>0, <1>1 DEF JoinTell, PartCheck, PartEcho, PartTell, PartOut, Remove, QuitTell,
                    QuitOut, TopicOnItsWay, TypeOK, Joining
<1>2. ASSUME NEW c \in Clients, JoinChan(c) \/ Kick(c) PROVE TopicOnItsWay'
  BY <1>0, <1>2 DEF JoinChan, Kick, TopicOnItsWay, TypeOK, Joining
<1>3. ASSUME NEW c \in Clients,
             (\E n \in Nicks : NickCheck(c, n)) \/ NickSet(c) \/ NickEcho(c) \/ NickTell(c)
      PROVE  TopicOnItsWay'
  BY <1>0, <1>3 DEF NickCheck, NickSet, NickEcho, NickTell, TopicOnItsWay, TypeOK, Joining
<1>4. CASE FindChan \/ GetTopic \/ GetNamelist \/ RplNames
  BY <1>0, <1>4 DEF FindChan, GetTopic, GetNamelist, RplNames, TopicOnItsWay, TypeOK, Joining
<1>5. CASE JoinEcho \/ RplTopic
  <2>1. "topic" \notin shaken => The(held[Watcher]) = topic
    BY <1>0, <1>5, TheOnly DEF JoinEcho, RplTopic, TopicOnItsWay
  <2> QED
    BY <1>0, <1>5, <2>1
    DEF JoinEcho, AfterEcho, RplTopic, TopicOnItsWay, TypeOK, Joining
<1>6. CASE \E t \in Topics : SetTopic(t)
  BY <1>0, <1>6 DEF SetTopic, TopicTold, TopicOnItsWay, Joining
<1>7. CASE UNCHANGED vars
  BY <1>0, <1>7 DEF vars, TopicOnItsWay, Joining
<1> QED
  BY <1>1, <1>2, <1>3, <1>4, <1>5, <1>6, <1>7 DEF Next

(* What was known of the watcher's own nickname stays known: a nickname    *)
(* once mixed up is so for good, and hands it on.                          *)
LEMMA OwnBack == IInv /\ [Next]_vars /\ OwnKnown' => OwnKnown
<1> SUFFICES ASSUME IInv, [Next]_vars, OwnKnown' PROVE OwnKnown
  OBVIOUS
<1> USE RosterAssumption
<1>1. CASE \E c \in Clients : NickSet(c)
  <2>1. PICK c \in Clients : NickSet(c)
    BY <1>1
  <2>2. /\ nick \in [Clients -> Nicks] /\ held \in [Clients -> SUBSET (Nicks \cup Topics)]
        /\ DOMAIN pc = Clients
    BY DEF IInv, TypeOK
  <2>3. PICK n \in Nicks :
           /\ nick' = [nick EXCEPT ![c] = n] /\ pc[c] = "nick"
           /\ pc' = [pc EXCEPT ![c] = "nick_echo"]
           /\ held' = [held EXCEPT ![c] = {nick[c]}]
           /\ mixed \subseteq mixed'
    BY <2>1, NickSetFacts
  <2> QED
    BY <2>2, <2>3 DEF OwnKnown, Renaming
<1>2. CASE \A c \in Clients : ~ NickSet(c)
  <2>1. /\ nick' = nick /\ mixed \subseteq mixed'
        /\ Watcher \in Renaming' => held'[Watcher] = held[Watcher]
    BY <1>2, NamesFrame
  <2>2. CASE Watcher \in Renaming /\ Watcher \notin Renaming'
    <3>1. NickTell(Watcher)
      <4>1. DOMAIN pc = Clients
        BY DEF IInv, TypeOK
      <4>2. ASSUME NEW c \in Clients,
                   \/ JoinChan(c) \/ JoinTell(c)
                   \/ PartCheck(c) \/ PartEcho(c) \/ PartTell(c) \/ PartOut(c)
                   \/ Remove(c) \/ QuitTell(c) \/ QuitOut(c)
                   \/ \E n \in Nicks : NickCheck(c, n)
            PROVE  FALSE
        BY <2>2, <4>1, <4>2
        DEF JoinChan, JoinTell, PartCheck, PartEcho, PartTell, PartOut, Remove,
            QuitTell, QuitOut, NickCheck, Renaming, Goto
      <4>3. ASSUME NEW c \in Clients, Kick(c) \/ NickEcho(c) \/ (NickTell(c) /\ c # Watcher)
            PROVE  FALSE
        BY <2>2, <4>1, <4>3 DEF Kick, NickEcho, NickTell, Renaming, Goto
      <4>4. ASSUME \/ FindChan \/ GetTopic \/ JoinEcho \/ RplTopic \/ GetNamelist
                   \/ RplNames \/ \E t \in Topics : SetTopic(t)
            PROVE  FALSE
        BY <2>2, <4>4 DEF FindChan, GetTopic, JoinEcho, RplTopic, GetNamelist, RplNames,
                          SetTopic, Renaming
      <4>5. CASE UNCHANGED vars
        BY <2>2, <4>5 DEF vars, Renaming
      <4> QED
        BY <1>2, <4>2, <4>3, <4>4, <4>5 DEF Next
    <3>2. HoldsOne(Watcher, Nicks)
      BY <3>1 DEF IInv, Locals, NickTell
    <3> QED
      BY <2>1, <3>1, <3>2 DEF OwnKnown, NickTell, HoldsOne
  <2>3. CASE ~ (Watcher \in Renaming /\ Watcher \notin Renaming')
    BY <2>1, <2>3 DEF OwnKnown
  <2> QED
    BY <2>2, <2>3
<1> QED
  BY <1>1, <1>2

(* No other client is told of by the nickname that the watcher takes for   *)
(* its own.                                                                *)
LEMMA NotMe ==
  ASSUME IInv, OwnKnown, pc[Watcher] # "gone"
  PROVE  \A c \in Clients \ {Watcher} : pc[c] # "gone" =>
           /\ nick[c] # Me
           /\ c \in Renaming => The(held[c]) # Me
<1> USE RosterAssumption
<1>1. NamesakesMixed /\ Locals
  BY DEF IInv
<1> SUFFICES ASSUME NEW c \in Clients, c # Watcher, pc[c] # "gone"
             PROVE  /\ nick[c] # Me
                    /\ c \in Renaming => The(held[c]) # Me
  OBVIOUS
<1>2. c \in Renaming => held[c] = {The(held[c])}
  BY <1>1 DEF Locals, Renaming, HoldsOne
<1>3. CASE pc[Watcher] = "nick_echo"
  <2>1. held[Watcher] = {Me} /\ Watcher \in Renaming
    BY <1>1, <1>3 DEF Locals, HoldsOne, Me, Renaming
  <2> QED
    BY <1>1, <1>2, <2>1 DEF NamesakesMixed, OwnKnown
<1>4. CASE pc[Watcher] # "nick_echo"
  <2>1. Me = nick[Watcher]
    BY <1>4 DEF Me
  <2> QED
    BY <1>1, <1>2, <2>1 DEF NamesakesMixed, OwnKnown
<1> QED
  BY <1>3, <1>4

(* The commands of a client, KICK of it among them.                        *)
Command(c) ==
  \/ JoinChan(c) \/ JoinTell(c)
  \/ PartCheck(c) \/ PartEcho(c) \/ PartTell(c) \/ PartOut(c)
  \/ Remove(c) \/ QuitTell(c) \/ QuitOut(c) \/ Kick(c)
  \/ \E n \in Nicks : NickCheck(c, n)
  \/ NickSet(c) \/ NickEcho(c) \/ NickTell(c)

OwnJoin == FindChan \/ GetTopic \/ JoinEcho \/ RplTopic \/ GetNamelist \/ RplNames

(* The commands of others leave the watcher where it is.                   *)
LEMMA OthersFrame ==
  ASSUME IInv, NEW c \in Clients \ {Watcher}, Command(c)
  PROVE  /\ pc'[Watcher] = pc[Watcher] /\ held'[Watcher] = held[Watcher]
         /\ nick'[Watcher] = nick[Watcher] /\ (Watcher \in member') = (Watcher \in member)
         /\ shaken' = shaken /\ (Watcher \notin member => view' = view)
         /\ Me' = Me /\ Joining' = Joining /\ Inside' = Inside
<1> USE RosterAssumption DEF Goto, history, beliefs
<1>0. TypeOK
  BY DEF IInv
<1>1. /\ pc'[Watcher] = pc[Watcher] /\ held'[Watcher] = held[Watcher]
      /\ nick'[Watcher] = nick[Watcher] /\ shaken' = shaken
  <2>1. CASE \/ JoinChan(c) \/ JoinTell(c)
             \/ PartCheck(c) \/ PartEcho(c) \/ PartTell(c) \/ PartOut(c)
             \/ Remove(c) \/ QuitTell(c) \/ QuitOut(c)
    BY <1>0, <2>1 DEF JoinChan, JoinTell, PartCheck, PartEcho, PartTell, PartOut, Remove,
                      QuitTell, QuitOut, TypeOK
  <2>2. CASE \/ Kick(c) \/ \E n \in Nicks : NickCheck(c, n)
             \/ NickSet(c) \/ NickEcho(c) \/ NickTell(c)
    BY <1>0, <2>2 DEF Kick, NickCheck, NickSet, NickEcho, NickTell, TypeOK
  <2> QED
    BY <2>1, <2>2 DEF Command
<1>2. \/ member' = member
      \/ member' = member \cup {c}
      \/ member' = member \ {c}
  <2>1. CASE \/ JoinChan(c) \/ JoinTell(c)
             \/ PartCheck(c) \/ PartEcho(c) \/ PartTell(c) \/ PartOut(c)
             \/ Remove(c) \/ QuitTell(c) \/ QuitOut(c)
    BY <2>1 DEF JoinChan, JoinTell, PartCheck, PartEcho, PartTell, PartOut, Remove,
                QuitTell, QuitOut
  <2>2. CASE \/ Kick(c) \/ \E n \in Nicks : NickCheck(c, n)
             \/ NickSet(c) \/ NickEcho(c) \/ NickTell(c)
    BY <2>2 DEF Kick, NickCheck, NickSet, NickEcho, NickTell
  <2> QED
    BY <2>1, <2>2 DEF Command
<1>3. Watcher \notin member => view' = view
  <2>1. CASE \/ JoinChan(c) \/ JoinTell(c)
             \/ PartCheck(c) \/ PartEcho(c) \/ PartTell(c) \/ PartOut(c)
             \/ Remove(c) \/ QuitTell(c) \/ QuitOut(c)
    BY <2>1 DEF JoinChan, JoinTell, PartCheck, PartEcho, PartTell, PartOut, Remove,
                QuitTell, QuitOut, Others, TellLeave
  <2>2. CASE \/ Kick(c) \/ \E n \in Nicks : NickCheck(c, n)
             \/ NickSet(c) \/ NickEcho(c) \/ NickTell(c)
    BY <2>2 DEF Kick, Kicked, NickCheck, NickSet, NickEcho, NickTell, Others, TellLeave
  <2> QED
    BY <2>1, <2>2 DEF Command
<1>4. (Watcher \in member') = (Watcher \in member)
  BY <1>2
<1> QED
  BY <1>1, <1>3, <1>4 DEF Me, Joining, Inside

(* And hide nobody from it but by the nicknames they give up.              *)
LEMMA OthersView ==
  ASSUME IInv, NEW c \in Clients \ {Watcher}, Command(c), OwnKnown, Watcher \in member
  PROVE  /\ Me \in view => Me \in view'
         /\ view = {} => view' = {}
<1> USE RosterAssumption DEF Goto, history, beliefs
<1>0. pc[Watcher] # "gone" /\ \A d \in Clients : d \in member => pc[d] # "gone"
  BY DEF IInv, Locals
<1>1. CASE \/ JoinChan(c) \/ PartCheck(c) \/ PartEcho(c) \/ PartOut(c)
           \/ Remove(c) \/ QuitOut(c)
           \/ (\E n \in Nicks : NickCheck(c, n)) \/ NickSet(c) \/ NickEcho(c)
  <2>1. view' = view
    BY <1>1 DEF JoinChan, PartCheck, PartEcho, PartOut, Remove, QuitOut, NickCheck, NickSet,
                NickEcho
  <2> QED
    BY <2>1
<1>2. CASE JoinTell(c)
  <2>1. nick[c] # Me
    BY <1>0, <1>2, NotMe DEF JoinTell
  <2> QED
    BY <1>2, <2>1 DEF JoinTell, AfterJoin
<1>3. CASE PartTell(c) \/ QuitTell(c) \/ Kick(c)
  <2>1. nick[c] # Me
    <3>1. pc[c] # "gone"
      BY <1>0, <1>3 DEF PartTell, QuitTell, Kick
    <3> QED
      BY <1>0, <3>1, NotMe
  <2>2. view' \in {view, view \ {nick[c]}}
    BY <1>3, <2>1 DEF PartTell, QuitTell, Kick, TellLeave, AfterLeave
  <2> QED
    BY <2>1, <2>2
<1>4. CASE NickTell(c)
  <2>1. The(held[c]) # Me
    <3>1. pc[c] # "gone" /\ c \in Renaming
      BY <1>4 DEF NickTell, Renaming
    <3> QED
      BY <1>0, <3>1, NotMe
  <2>2. view' \in {view, AfterNick(The(held[c]), nick[c])}
    BY <1>4 DEF NickTell
  <2> QED
    BY <2>1, <2>2 DEF AfterNick
<1> QED
  BY <1>1, <1>2, <1>3, <1>4 DEF Command

(* The watcher shows itself while it is in.                                *)
LEMMA ShowsItselfStep == IInv /\ [Next]_vars => ShowsItself'
<1> SUFFICES ASSUME IInv, [Next]_vars, OwnKnown'
             PROVE  /\ Inside' => Me' \in view'
                    /\ (view' # {} /\ pc'[Watcher] # "gone" /\ "kick" \notin shaken'
                          => Watcher \in member')
                    /\ Joining' /\ "kick" \notin shaken' => Watcher \in member'
                    /\ pc'[Watcher] \in {"part_tell", "part_out"} => view' = {}
  BY DEF ShowsItself
<1>0. TypeOK /\ Locals
  BY DEF IInv
<1>1. OwnKnown
  BY OwnBack
<1>2. /\ Inside => Me \in view
      /\ (view # {} /\ pc[Watcher] # "gone" /\ "kick" \notin shaken => Watcher \in member)
      /\ Joining /\ "kick" \notin shaken => Watcher \in member
      /\ pc[Watcher] \in {"part_tell", "part_out"} => view = {}
  BY <1>1 DEF IInv, ShowsItself
<1> USE RosterAssumption DEF Goto, history, beliefs
<1>3. ASSUME NEW c \in Clients \ {Watcher}, Command(c)
      PROVE  /\ Inside' => Me' \in view'
             /\ (view' # {} /\ pc'[Watcher] # "gone" /\ "kick" \notin shaken'
                   => Watcher \in member')
             /\ Joining' /\ "kick" \notin shaken' => Watcher \in member'
             /\ pc'[Watcher] \in {"part_tell", "part_out"} => view' = {}
  <2>1. /\ pc'[Watcher] = pc[Watcher] /\ Me' = Me /\ Joining' = Joining
        /\ shaken' = shaken /\ (Watcher \in member') = (Watcher \in member)
        /\ Inside' = Inside /\ (Watcher \notin member => view' = view)
    BY <1>3, OthersFrame
  <2>2. CASE Watcher \notin member
    BY <1>2, <2>1, <2>2
  <2>3. CASE Watcher \in member
    <3>1. /\ Me \in view => Me \in view'
          /\ view = {} => view' = {}
      BY <1>1, <1>3, <2>3, OthersView
    <3> QED
      BY <1>2, <2>1, <2>3, <3>1
  <2> QED
    BY <2>2, <2>3
<1>4. ASSUME Command(Watcher)
      PROVE  /\ Inside' => Me' \in view'
             /\ (view' # {} /\ pc'[Watcher] # "gone" /\ "kick" \notin shaken'
                   => Watcher \in member')
             /\ Joining' /\ "kick" \notin shaken' => Watcher \in member'
             /\ pc'[Watcher] \in {"part_tell", "part_out"} => view' = {}
  <2>1. CASE JoinChan(Watcher) \/ JoinTell(Watcher)
    BY <1>0, <1>2, <2>1 DEF JoinChan, JoinTell, TypeOK, Others, Me, Joining, Inside
  <2>2. CASE PartCheck(Watcher) \/ PartTell(Watcher)
    BY <1>0, <1>2, <2>2
    DEF PartCheck, PartTell, TellLeave, TypeOK, Others, Me, Joining, Inside
  <2>3. CASE PartEcho(Watcher)
    BY <1>0, <1>2, <2>3 DEF PartEcho, AfterLeave, TypeOK, Me, Joining, Inside
  <2>4. CASE PartOut(Watcher)
    BY <1>0, <1>2, <2>4 DEF PartOut, TypeOK, Joining, Inside
  <2>5. CASE Remove(Watcher) \/ QuitTell(Watcher)
    BY <1>0, <1>2, <2>5
    DEF Remove, QuitTell, TellLeave, Others, TypeOK, Me, Joining, Inside
  <2>6. CASE QuitOut(Watcher)
    BY <1>0, <2>6 DEF QuitOut, TypeOK, Joining, Inside
  <2>7. CASE Kick(Watcher)
    <3>1. CASE Watcher \in Renaming
      BY <2>7, <3>1 DEF Kick, OwnKnown
    <3>2. CASE Watcher \notin Renaming
      <4>1. Me = nick[Watcher] /\ Watcher \in Kicked(Watcher)
        BY <2>7, <3>2 DEF Kick, Kicked, Me, Renaming
      <4>2. view' = {} /\ Watcher \notin member' /\ pc' = pc
        BY <2>7, <4>1 DEF Kick, TellLeave, AfterLeave
      <4>3. Joining => "kick" \in shaken'
        BY <2>7 DEF Kick
      <4> QED
        BY <4>2, <4>3 DEF Inside, Joining
    <3> QED
      BY <3>1, <3>2
  <2>8. CASE \E n \in Nicks : NickCheck(Watcher, n)
    BY <1>0, <1>2, <2>8 DEF NickCheck, TypeOK, Me, Joining, Inside
  <2>9. CASE NickSet(Watcher)
    <3>1. /\ pc'[Watcher] = "nick_echo" /\ held'[Watcher] = {nick[Watcher]}
          /\ pc[Watcher] = "nick"
      BY <1>0, <2>9 DEF NickSet, TypeOK
    <3>2. Me' = nick[Watcher] /\ Me = nick[Watcher]
      BY <3>1, TheOnly DEF Me
    <3> QED
      BY <1>2, <2>9, <3>1, <3>2 DEF NickSet, Joining, Inside
  <2>10. CASE NickEcho(Watcher)
    <3>1. /\ pc'[Watcher] = "nick_tell" /\ pc[Watcher] = "nick_echo" /\ nick' = nick
          /\ member' = member /\ shaken' = shaken
          /\ view' = AfterNick(The(held[Watcher]), nick[Watcher])
      BY <1>0, <2>10 DEF NickEcho, TypeOK
    <3>2. Me' = nick[Watcher] /\ Me = The(held[Watcher])
      BY <3>1 DEF Me
    <3> QED
      BY <1>2, <3>1, <3>2 DEF AfterNick, Joining, Inside
  <2>11. CASE NickTell(Watcher)
    BY <1>0, <1>2, <2>11 DEF NickTell, Others, TypeOK, Me, Joining, Inside
  <2> QED
    BY <1>4, <2>1, <2>2, <2>3, <2>4, <2>5, <2>6, <2>7, <2>8, <2>9, <2>10, <2>11 DEF Command
<1>5. CASE FindChan \/ GetTopic \/ RplTopic \/ GetNamelist
  BY <1>0, <1>2, <1>5
  DEF FindChan, GetTopic, RplTopic, GetNamelist, TypeOK, Me, Joining, Inside
<1>6. CASE JoinEcho
  BY <1>0, <1>2, <1>6 DEF JoinEcho, AfterEcho, AfterJoin, TypeOK, Me, Joining, Inside
<1>7. CASE RplNames
  BY <1>0, <1>2, <1>7 DEF RplNames, AfterNames, TypeOK, Me, Joining, Inside
<1>8. CASE \E t \in Topics : SetTopic(t)
  BY <1>2, <1>8 DEF SetTopic, Me, Joining, Inside
<1>9. CASE UNCHANGED vars
  BY <1>2, <1>9 DEF vars, Me, Joining, Inside
<1> QED
  BY <1>3, <1>4, <1>5, <1>6, <1>7, <1>8, <1>9 DEF Next, Command

(* A step that tells the watcher nothing of nicknames, and takes none back *)
(* that is accounted for.                                                  *)
LEMMA UntoldStep ==
  ASSUME ShownAccounted, view' = view, left' = left, Names' = Names,
         Watcher \in member' => Watcher \in member, Inside' => Inside,
         Joining' = Joining, Accounted \subseteq Accounted', mixed \subseteq mixed',
         \A c \in GoingOut' : c \in GoingOut /\ nick'[c] = nick[c]
  PROVE  ShownAccounted'
<1> SUFFICES ASSUME Watcher \in member'
             PROVE  /\ Inside' => view' \subseteq IF Joining' THEN Accounted'
                                                  ELSE Accounted' \cup left'
                    /\ Names' \subseteq Accounted' \cup left'
                    /\ \A c \in GoingOut' :
                         /\ Joining' => nick'[c] \in left'
                         /\ Inside' /\ nick'[c] \in view'
                              => nick'[c] \in IF Joining' THEN mixed' ELSE left' \cup mixed'
  BY DEF ShownAccounted
<1>1. /\ Inside => view \subseteq IF Joining THEN Accounted ELSE Accounted \cup left
      /\ Names \subseteq Accounted \cup left
      /\ \A c \in GoingOut :
           /\ Joining => nick[c] \in left
           /\ Inside /\ nick[c] \in view => nick[c] \in IF Joining THEN mixed ELSE left \cup mixed
  BY DEF ShownAccounted
<1>2. /\ Inside' => view' \subseteq IF Joining' THEN Accounted' ELSE Accounted' \cup left'
      /\ Names' \subseteq Accounted' \cup left'
  BY <1>1
<1>3. ASSUME NEW c \in GoingOut'
      PROVE  /\ Joining' => nick'[c] \in left'
             /\ Inside' /\ nick'[c] \in view'
                  => nick'[c] \in IF Joining' THEN mixed' ELSE left' \cup mixed'
  BY <1>1
<1> QED
  BY <1>2, <1>3

(* What is accounted for stays so while nobody leaves the channel and      *)
(* nobody is told of a new nickname.                                       *)
LEMMA AccountedKept ==
  ASSUME member \subseteq member', nick' = nick, renamed \subseteq renamed',
         mixed \subseteq mixed', \A d \in StillKnown : d \in StillKnown' /\ held'[d] = held[d]
  PROVE  Accounted \subseteq Accounted'
<1> SUFFICES ASSUME NEW n \in Accounted PROVE n \in Accounted'
  OBVIOUS
<1>1. CASE n \in {nick[d] : d \in member}
  BY <1>1 DEF Accounted
<1>2. CASE \E d \in StillKnown : n \in held[d]
  BY <1>2 DEF Accounted
<1>3. CASE n \in renamed \/ n \in mixed
  BY <1>3 DEF Accounted
<1> QED
  BY <1>1, <1>2, <1>3 DEF Accounted

(* The steps of which the watcher is not told.                             *)
LEMMA ShownUntold ==
  ASSUME IInv, NEW c \in Clients,
         \/ PartCheck(c) \/ Remove(c) \/ \E n \in Nicks : NickCheck(c, n)
         \/ (JoinChan(c) \/ PartEcho(c) \/ NickEcho(c)) /\ c # Watcher
         \/ (JoinTell(c) \/ PartTell(c) \/ QuitTell(c)) /\ Watcher \notin Others(c)
  PROVE  ShownAccounted'
<1> USE RosterAssumption DEF Goto, history, beliefs
<1>0. TypeOK /\ Locals /\ ShownAccounted
  BY DEF IInv
<1>1. /\ view' = view /\ left' = left /\ renamed' = renamed /\ mixed' = mixed /\ nick' = nick
      /\ member \subseteq member' /\ (Watcher \in member' => Watcher \in member)
      /\ member' \subseteq member \cup {c}
      /\ \A d \in Clients \ {c} : pc'[d] = pc[d] /\ held'[d] = held[d]
  BY <1>0 DEF PartCheck, Remove, NickCheck, JoinChan, PartEcho, NickEcho, JoinTell, PartTell,
              QuitTell, TellLeave, TypeOK
<1>2. /\ pc[c] \in {"idle", "part", "part_tell", "join_tell", "quit", "nick_echo"}
      /\ pc'[c] \in {"idle", "part", "part_tell", "part_out", "join_tell", "quit",
                     "quit_out", "nick", "nick_tell"}
      /\ c = Watcher /\ pc[c] = "part_tell" => pc'[c] = "part_out"
      /\ pc[c] = "nick_echo" => c # Watcher /\ pc'[c] = "nick_tell" /\ held'[c] = held[c]
      /\ pc'[c] \in {"part_out", "quit_out"} => Watcher \notin Others(c) /\ member' = member
  BY <1>0 DEF PartCheck, Remove, NickCheck, JoinChan, PartEcho, NickEcho, JoinTell, PartTell,
              QuitTell, TypeOK
<1>3. Joining' = Joining /\ (Inside' => Inside) /\ Names' = Names
  <2>1. CASE c # Watcher
    BY <1>1, <2>1 DEF Joining, Inside, Names
  <2>2. CASE c = Watcher
    BY <1>1, <1>2, <2>2 DEF Joining, Inside, Names
  <2> QED
    BY <2>1, <2>2
<1>4. \A d \in StillKnown : d \in StillKnown' /\ held'[d] = held[d]
  BY <1>0, <1>1, <1>2 DEF StillKnown, Renaming, TypeOK
<1>5. Accounted \subseteq Accounted'
  BY <1>1, <1>4, AccountedKept
<1>6. Watcher \in member' => \A d \in GoingOut' : d \in GoingOut /\ nick'[d] = nick[d]
  <2> SUFFICES ASSUME Watcher \in member', NEW d \in GoingOut'
               PROVE  d \in GoingOut /\ nick'[d] = nick[d]
    OBVIOUS
  <2>1. d \in Clients /\ d \in member' /\ d # Watcher /\ pc'[d] \in {"part_out", "quit_out"}
    BY <1>0, <1>1 DEF GoingOut, TypeOK
  <2>2. CASE d = c
    BY <1>1, <1>2, <2>1, <2>2 DEF Others
  <2>3. CASE d # c
    <3>1. d \in member /\ pc[d] \in {"part_out", "quit_out"}
      BY <1>1, <2>1, <2>3
    <3> QED
      BY <1>1, <2>1, <3>1 DEF GoingOut
  <2> QED
    BY <2>2, <2>3
<1>7. CASE Watcher \in member'
  BY <1>0, <1>1, <1>3, <1>5, <1>6, <1>7, UntoldStep
<1>8. CASE Watcher \notin member'
  BY <1>8 DEF ShownAccounted
<1> QED
  BY <1>7, <1>8

(* A PART, KICK or QUIT of another member takes its nickname out of the    *)
(* view, and during a JOIN into what is known to have left.                *)
LEMMA LeaveTold ==
  ASSUME ShownAccounted, Watcher \in member, NEW c, nick' = nick,
         view' \subseteq view \ {nick[c]},
         left' = IF Joining THEN left \cup {nick[c]} ELSE left \ {nick[c]},
         Joining' = Joining, Inside' = Inside, Names' = Names,
         Accounted \subseteq Accounted' \cup {nick[c]}, mixed \subseteq mixed',
         \A d \in GoingOut' : d = c \/ d \in GoingOut
  PROVE  ShownAccounted'
<1>1. /\ Inside => view \subseteq IF Joining THEN Accounted ELSE Accounted \cup left
      /\ Names \subseteq Accounted \cup left
      /\ \A d \in GoingOut :
           /\ Joining => nick[d] \in left
           /\ Inside /\ nick[d] \in view => nick[d] \in IF Joining THEN mixed ELSE left \cup mixed
  BY DEF ShownAccounted
<1>2. ~ Joining => Names = {}
  BY DEF Joining, Names
<1>3. Inside' => view' \subseteq IF Joining' THEN Accounted' ELSE Accounted' \cup left'
  BY <1>1
<1>4. Names' \subseteq Accounted' \cup left'
  BY <1>1, <1>2
<1>5. ASSUME NEW d \in GoingOut'
      PROVE  /\ Joining' => nick'[d] \in left'
             /\ Inside' /\ nick'[d] \in view'
                  => nick'[d] \in IF Joining' THEN mixed' ELSE left' \cup mixed'
  <2>1. CASE d = c
    BY <2>1
  <2>2. CASE d \in GoingOut
    BY <1>1, <2>2
  <2> QED
    BY <2>1, <2>2
<1> QED
  BY <1>3, <1>4, <1>5 DEF ShownAccounted

(* A nickname that a client has and is accounted for may come into the     *)
(* view.                                                                   *)
LEMMA EnterTold ==
  ASSUME IInv, NEW c \in Clients, pc[c] # "gone", c \notin GoingOut,
         nick' = nick, left' = left, mixed' = mixed, Watcher \in member,
         Joining' = Joining, nick[c] \in Accounted',
         \A n \in view' : \/ n = nick[c]
                          \/ Inside /\ n \in view /\ (n \in Accounted => n \in Accounted'),
         Names' \subseteq Accounted' \cup left', GoingOut' \subseteq GoingOut
  PROVE  ShownAccounted'
<1>1. /\ Inside => view \subseteq IF Joining THEN Accounted ELSE Accounted \cup left
      /\ \A d \in GoingOut :
           /\ Joining => nick[d] \in left
           /\ Inside /\ nick[d] \in view => nick[d] \in IF Joining THEN mixed ELSE left \cup mixed
  BY DEF IInv, ShownAccounted
<1>2. Inside' => view' \subseteq IF Joining' THEN Accounted' ELSE Accounted' \cup left'
  BY <1>1
<1>3. ASSUME NEW d \in GoingOut'
      PROVE  /\ Joining' => nick'[d] \in left'
             /\ Inside' /\ nick'[d] \in view'
                  => nick'[d] \in IF Joining' THEN mixed' ELSE left' \cup mixed'
  <2>1. d \in GoingOut
    OBVIOUS
  <2>2. d \in Clients /\ d # c /\ pc[d] # "gone"
    BY <2>1 DEF IInv, TypeOK, GoingOut
  <2>3. nick[d] = nick[c] => nick[d] \in mixed
    BY <2>2 DEF IInv, NamesakesMixed
  <2> QED
    BY <1>1, <2>1, <2>3
<1> QED
  BY <1>2, <1>3 DEF ShownAccounted

(* The PART, QUIT or KICK of another member.                               *)
LEMMA ShownLeave ==
  ASSUME IInv, NEW c \in Clients \ {Watcher}, Watcher \in member, c \in member,
         PartTell(c) \/ QuitTell(c) \/ Kick(c)
  PROVE  ShownAccounted'
<1> USE RosterAssumption DEF Goto, history, beliefs
<1>0. TypeOK /\ Locals /\ ShownAccounted
  BY DEF IInv
<1>1. /\ nick' = nick /\ renamed' = renamed /\ mixed \subseteq mixed'
      /\ view' = AfterLeave(nick[c])
      /\ left' = IF Joining THEN left \cup {nick[c]} ELSE left \ {nick[c]}
      /\ \A d \in Clients \ {c} : pc'[d] = pc[d] /\ held'[d] = held[d]
      /\ c \in Renaming => held[c] \subseteq mixed'
      /\ member \ {c} \subseteq member' /\ member' \subseteq member
  <2>1. CASE PartTell(c) \/ QuitTell(c)
    BY <1>0, <2>1 DEF PartTell, QuitTell, TellLeave, Others, Renaming, TypeOK
  <2>2. CASE Kick(c)
    BY <1>0, <2>2 DEF Kick, Kicked, TellLeave
  <2> QED
    BY <2>1, <2>2
<1>2. view' \subseteq view \ {nick[c]}
  BY <1>1 DEF AfterLeave
<1>3. /\ Joining' = Joining /\ Names' = Names /\ Inside' = Inside
  BY <1>1 DEF Joining, Names, Inside
<1>4. \A d \in member \ {c} : d \in member' /\ (d \in StillKnown => d \in StillKnown')
  BY <1>0, <1>1 DEF StillKnown, Renaming, TypeOK
<1>5. Accounted \subseteq Accounted' \cup {nick[c]}
  <2> SUFFICES ASSUME NEW n \in Accounted, n # nick[c] PROVE n \in Accounted'
    OBVIOUS
  <2>1. CASE n \in {nick[d] : d \in member}
    BY <1>1, <1>4, <2>1 DEF Accounted
  <2>2. CASE \E d \in StillKnown : n \in held[d]
    <3>1. PICK d \in StillKnown : n \in held[d]
      BY <2>2
    <3>2. d \in Clients /\ d \in member /\ d \in Renaming
      BY <1>0, <3>1 DEF StillKnown, TypeOK
    <3>3. CASE d = c
      BY <1>1, <3>1, <3>2, <3>3 DEF Accounted
    <3>4. CASE d # c
      BY <1>1, <1>4, <3>1, <3>2, <3>4 DEF Accounted
    <3> QED
      BY <3>3, <3>4
  <2>3. CASE n \in renamed \/ n \in mixed
    BY <1>1, <2>3 DEF Accounted
  <2> QED
    BY <2>1, <2>2, <2>3 DEF Accounted
<1>6. \A d \in GoingOut' : d = c \/ d \in GoingOut
  BY <1>0, <1>1 DEF GoingOut, TypeOK
<1> QED
  BY <1>0, <1>1, <1>2, <1>3, <1>5, <1>6, LeaveTold

(* A member goes out of the channel: its nickname was told before.         *)
LEMMA ShownOut ==
  ASSUME IInv, NEW c \in Clients, PartOut(c) \/ QuitOut(c)
  PROVE  ShownAccounted'
<1> USE RosterAssumption DEF Goto, history, beliefs
<1>0. TypeOK /\ Locals /\ ShownAccounted
  BY DEF IInv
<1>1. /\ nick' = nick /\ renamed' = renamed /\ mixed' = mixed /\ view' = view /\ left' = left
      /\ \A d \in Clients \ {c} : pc'[d] = pc[d] /\ held'[d] = held[d]
      /\ pc[c] \in {"part_out", "quit_out"} /\ pc'[c] \in {"idle", "gone"}
      /\ member' = member \ {c}
  BY <1>0 DEF PartOut, QuitOut, TypeOK
<1>2. CASE Watcher \notin member'
  BY <1>2 DEF ShownAccounted
<1>3. CASE Watcher \in member'
  <2>1. c # Watcher /\ Watcher \in member
    BY <1>1, <1>3
  <2>2. Joining' = Joining /\ Names' = Names /\ Inside' = Inside
    BY <1>1, <2>1 DEF Joining, Names, Inside
  <2>3. StillKnown \subseteq StillKnown' /\ c \notin StillKnown /\ StillKnown \subseteq Clients
    BY <1>0, <1>1 DEF StillKnown, Renaming, TypeOK
  <2>4. \A n \in Accounted : n \in Accounted' \/ (c \in member /\ n = nick[c])
    <3> SUFFICES ASSUME NEW n \in Accounted, c \in member => n # nick[c] PROVE n \in Accounted'
      OBVIOUS
    <3>1. CASE n \in {nick[d] : d \in member}
      BY <1>1, <3>1 DEF Accounted
    <3>2. CASE \E d \in StillKnown : n \in held[d]
      BY <1>1, <2>3, <3>2 DEF Accounted
    <3>3. CASE n \in renamed \/ n \in mixed
      BY <1>1, <3>3 DEF Accounted
    <3> QED
      BY <3>1, <3>2, <3>3 DEF Accounted
  <2>5. GoingOut' \subseteq GoingOut /\ (c \in member => c \in GoingOut)
    BY <1>0, <1>1, <2>1 DEF GoingOut, TypeOK
  <2>6. mixed' \subseteq Accounted'
    BY DEF Accounted
  <2>7. /\ Inside => view \subseteq IF Joining THEN Accounted ELSE Accounted \cup left
        /\ Names \subseteq Accounted \cup left
        /\ \A d \in GoingOut :
             /\ Joining => nick[d] \in left
             /\ Inside /\ nick[d] \in view
                  => nick[d] \in IF Joining THEN mixed ELSE left \cup mixed
    BY <1>0, <2>1 DEF ShownAccounted
  <2>8. Inside' => view' \subseteq IF Joining' THEN Accounted' ELSE Accounted' \cup left'
    BY <1>1, <2>2, <2>4, <2>5, <2>6, <2>7
  <2>9. Names' \subseteq Accounted' \cup left'
    <3>1. ~ Joining => Names = {}
      BY DEF Joining, Names
    <3> QED
      BY <1>1, <2>2, <2>4, <2>5, <2>7, <3>1
  <2> QED
    BY <1>1, <2>2, <2>5, <2>7, <2>8, <2>9 DEF ShownAccounted
<1> QED
  BY <1>2, <1>3

(* A change of nickname, until the watcher is told.                        *)
LEMMA ShownRename ==
  ASSUME IInv, NEW c \in Clients, NickSet(c) \/ (NickTell(c) /\ Watcher \notin Others(c))
  PROVE  ShownAccounted'
<1> USE RosterAssumption DEF Goto, history, beliefs
<1>0. TypeOK /\ Locals /\ ShownAccounted
  BY DEF IInv
<1>1. /\ view' = view /\ left' = left /\ renamed' = renamed /\ mixed \subseteq mixed'
      /\ member' = member
      /\ \A d \in Clients \ {c} : pc'[d] = pc[d] /\ held'[d] = held[d] /\ nick'[d] = nick[d]
      /\ pc[c] \in {"nick", "nick_tell"} /\ pc'[c] \in {"nick_echo", "idle"}
  BY <1>0 DEF NickSet, NickTell, TypeOK
<1>2. Joining' = Joining /\ Inside' = Inside /\ Names' = Names
  <2>1. CASE c # Watcher
    BY <1>1, <2>1 DEF Joining, Inside, Names
  <2>2. CASE c = Watcher
    BY <1>1, <2>2 DEF Joining, Inside, Names
  <2> QED
    BY <2>1, <2>2
<1>3. \A d \in StillKnown \ {c} : d \in StillKnown' /\ held'[d] = held[d]
  BY <1>0, <1>1 DEF StillKnown, Renaming, TypeOK
<1>4. CASE NickSet(c)
  <2>1. c \notin StillKnown /\ pc'[c] = "nick_echo" /\ held'[c] = {nick[c]}
    BY <1>0, <1>4 DEF NickSet, StillKnown, Renaming, TypeOK
  <2>2. Accounted \subseteq Accounted'
    <3> SUFFICES ASSUME NEW n \in Accounted PROVE n \in Accounted'
      OBVIOUS
    <3>1. CASE n \in {nick[d] : d \in member}
      <4>1. PICK d \in member : n = nick[d]
        BY <3>1
      <4>2. CASE d = c
        <5>1. c \in StillKnown' /\ n \in held'[c]
          BY <1>1, <2>1, <4>1, <4>2 DEF StillKnown, Renaming
        <5> QED
          BY <5>1 DEF Accounted
      <4>3. CASE d # c
        BY <1>0, <1>1, <4>1, <4>3 DEF Accounted, TypeOK
      <4> QED
        BY <4>2, <4>3
    <3>2. CASE \E d \in StillKnown : n \in held[d]
      BY <1>3, <2>1, <3>2 DEF Accounted
    <3>3. CASE n \in renamed \/ n \in mixed
      BY <1>1, <3>3 DEF Accounted
    <3> QED
      BY <3>1, <3>2, <3>3 DEF Accounted
  <2>3. \A d \in GoingOut' : d \in GoingOut /\ nick'[d] = nick[d]
    BY <1>0, <1>1, <2>1 DEF GoingOut, TypeOK
  <2> QED
    BY <1>0, <1>1, <1>2, <2>2, <2>3, UntoldStep
<1>5. CASE NickTell(c) /\ Watcher \notin Others(c)
  <2>1. CASE Watcher \notin member
    BY <1>1, <2>1 DEF ShownAccounted
  <2>2. CASE Watcher \in member
    <3>1. c \notin StillKnown /\ nick' = nick /\ GoingOut' = {}
      BY <1>0, <1>5, <2>2 DEF NickTell, Others, StillKnown, Renaming, MapFree, GoingOut, TypeOK
    <3>2. Accounted \subseteq Accounted'
      BY <1>1, <1>3, <3>1, AccountedKept
    <3> QED
      BY <1>0, <1>1, <1>2, <3>1, <3>2, UntoldStep
  <2> QED
    BY <2>1, <2>2
<1> QED
  BY <1>4, <1>5

(* The watcher is told of the new nickname of another member.              *)
LEMMA ShownNick ==
  ASSUME IInv, NEW c \in Clients, NickTell(c), Watcher \in Others(c)
  PROVE  ShownAccounted'
<1> USE RosterAssumption DEF Goto, history, beliefs
<1>0. TypeOK /\ Locals /\ ShownAccounted
  BY DEF IInv
<1> DEFINE old == The(held[c])
<1>1. /\ c # Watcher /\ c \in member /\ Watcher \in member /\ member' = member /\ nick' = nick
      /\ \A d \in Clients \ {c} : pc'[d] = pc[d] /\ held'[d] = held[d]
      /\ pc[c] = "nick_tell" /\ pc'[c] = "idle"
      /\ left' = left /\ mixed \subseteq mixed' /\ renamed \subseteq renamed'
      /\ view' = AfterNick(old, nick[c])
      /\ Joining => old \in renamed'
  BY <1>0 DEF NickTell, Others, TypeOK
<1>2. held[c] = {old}
  BY <1>0, <1>1 DEF Locals, HoldsOne
<1>3. Joining' = Joining /\ Inside' = Inside /\ Names' = Names
  BY <1>1 DEF Joining, Inside, Names
<1>4. GoingOut' = {}
  BY <1>0, <1>1 DEF NickTell, MapFree, GoingOut, TypeOK
<1>5. \A n \in Accounted : n \in Accounted' \/ n = old
  <2> SUFFICES ASSUME NEW n \in Accounted, n # old PROVE n \in Accounted'
    OBVIOUS
  <2>1. CASE n \in {nick[d] : d \in member}
    BY <1>1, <2>1 DEF Accounted
  <2>2. CASE \E d \in StillKnown : n \in held[d]
    <3>1. PICK d \in StillKnown : n \in held[d]
      BY <2>2
    <3>2. d # c
      BY <1>2, <3>1
    <3>3. d \in StillKnown' /\ held'[d] = held[d]
      BY <1>0, <1>1, <3>1, <3>2 DEF StillKnown, Renaming, TypeOK
    <3> QED
      BY <3>1, <3>3 DEF Accounted
  <2>3. CASE n \in renamed \/ n \in mixed
    BY <1>1, <2>3 DEF Accounted
  <2> QED
    BY <2>1, <2>2, <2>3 DEF Accounted
<1>6. nick[c] \in Accounted' /\ renamed' \subseteq Accounted'
  BY <1>1 DEF Accounted
<1>7. \A n \in view' : n = nick[c] \/ (n \in view /\ n # old)
  BY <1>1 DEF AfterNick
<1>8. /\ Inside => view \subseteq IF Joining THEN Accounted ELSE Accounted \cup left
      /\ Names \subseteq Accounted \cup left
  BY <1>0, <1>1 DEF ShownAccounted
<1>9. ~ Joining => Names = {}
  BY DEF Joining, Names
<1>10. Inside' => view' \subseteq IF Joining' THEN Accounted' ELSE Accounted' \cup left'
  BY <1>1, <1>3, <1>5, <1>6, <1>7, <1>8
<1>11. Names' \subseteq Accounted' \cup left'
  BY <1>1, <1>3, <1>5, <1>6, <1>8, <1>9
<1> QED
  BY <1>4, <1>10, <1>11 DEF ShownAccounted

(* A nickname comes into the view: with the JOIN of another member, with   *)
(* the watcher's own JOIN, and with its own NICK.                          *)
LEMMA ShownEnter ==
  ASSUME IInv,
         \/ \E c \in Clients : JoinTell(c) /\ Watcher \in Others(c)
         \/ JoinEcho \/ NickEcho(Watcher)
  PROVE  ShownAccounted'
<1> USE RosterAssumption DEF Goto, history, beliefs
<1>0. TypeOK /\ Locals /\ ShownAccounted
  BY DEF IInv
<1>1. ASSUME NEW c \in Clients, JoinTell(c), Watcher \in Others(c) PROVE ShownAccounted'
  <2>1. /\ c # Watcher /\ c \in member /\ Watcher \in member /\ member' = member
        /\ nick' = nick /\ left' = left /\ mixed' = mixed /\ renamed' = renamed
        /\ \A d \in Clients \ {c} : pc'[d] = pc[d] /\ held'[d] = held[d]
        /\ pc[c] = "join_tell" /\ pc'[c] = "idle" /\ view' = AfterJoin(nick[c])
    BY <1>0, <1>1 DEF JoinTell, Others, TypeOK
  <2>2. Joining' = Joining /\ Inside' = Inside /\ Names' = Names
    BY <2>1 DEF Joining, Inside, Names
  <2>3. \A d \in StillKnown : d \in StillKnown' /\ held'[d] = held[d]
    BY <1>0, <2>1 DEF StillKnown, Renaming, TypeOK
  <2>4. Accounted \subseteq Accounted' /\ nick[c] \in Accounted'
    <3>1. nick[c] \in Accounted'
      BY <2>1 DEF Accounted
    <3> QED
      BY <2>1, <2>3, <3>1, AccountedKept
  <2>5. GoingOut' \subseteq GoingOut /\ c \notin GoingOut
    BY <1>0, <2>1 DEF GoingOut, TypeOK
  <2>6. CASE Inside
    <3>1. \A n \in view' : n = nick[c] \/ n \in view
      BY <2>1 DEF AfterJoin
    <3>2. Names' \subseteq Accounted' \cup left'
      BY <1>0, <2>1, <2>2, <2>4 DEF ShownAccounted
    <3> QED
      BY <2>1, <2>2, <2>4, <2>5, <2>6, <3>1, <3>2, EnterTold
  <2>7. CASE ~ Inside
    <3>1. pc[Watcher] \notin {"rpl_names"}
      BY <2>1, <2>7 DEF Inside
    <3>2. Names' = {}
      BY <2>2, <3>1 DEF Names
    <3> QED
      BY <1>0, <2>1, <2>2, <2>5, <2>7, <3>2 DEF ShownAccounted
  <2> QED
    BY <2>6, <2>7
<1>2. CASE JoinEcho
  <2>1. /\ member' = member /\ nick' = nick /\ left' = left /\ mixed' = mixed
        /\ renamed' = renamed /\ pc[Watcher] = "echo"
        /\ \A d \in Clients \ {Watcher} : pc'[d] = pc[d] /\ held'[d] = held[d]
        /\ pc'[Watcher] \in {"names", "rpl_topic"} /\ view' = AfterJoin(nick[Watcher])
    BY <1>0, <1>2 DEF JoinEcho, AfterEcho, TypeOK
  <2>2. view' = {nick[Watcher]}
    BY <2>1 DEF AfterJoin, Me
  <2>3. Joining' = Joining /\ Names' = {}
    BY <2>1 DEF Joining, Names
  <2>4. GoingOut' \subseteq GoingOut /\ Watcher \notin GoingOut
    BY <1>0, <2>1 DEF GoingOut, TypeOK
  <2>5. CASE Watcher \in member
    <3>1. nick[Watcher] \in Accounted'
      BY <2>1, <2>5 DEF Accounted
    <3> QED
      BY <2>1, <2>2, <2>3, <2>4, <2>5, <3>1, EnterTold
  <2>6. CASE Watcher \notin member
    BY <2>1, <2>6 DEF ShownAccounted
  <2> QED
    BY <2>5, <2>6
<1>3. CASE NickEcho(Watcher)
  <2> DEFINE old == The(held[Watcher])
  <2>1. /\ member' = member /\ nick' = nick /\ left' = left /\ mixed' = mixed
        /\ renamed' = renamed /\ pc[Watcher] = "nick_echo"
        /\ \A d \in Clients \ {Watcher} : pc'[d] = pc[d] /\ held'[d] = held[d]
        /\ pc'[Watcher] = "nick_tell" /\ view' = AfterNick(old, nick[Watcher])
    BY <1>0, <1>3 DEF NickEcho, TypeOK
  <2>2. held[Watcher] = {old}
    BY <1>0, <2>1 DEF Locals, HoldsOne
  <2>3. Joining' = Joining /\ Names' = {} /\ (Watcher \in member => Inside)
    BY <2>1 DEF Joining, Names, Inside
  <2>4. GoingOut' \subseteq GoingOut /\ Watcher \notin GoingOut
    BY <1>0, <2>1 DEF GoingOut, TypeOK
  <2>5. CASE Watcher \in member
    <3>1. nick[Watcher] \in Accounted'
      BY <2>1, <2>5 DEF Accounted
    <3>2. \A n \in Accounted : n \in Accounted' \/ n = old
      <4> SUFFICES ASSUME NEW n \in Accounted, n # old PROVE n \in Accounted'
        OBVIOUS
      <4>1. CASE n \in {nick[d] : d \in member} \/ n \in renamed \/ n \in mixed
        BY <2>1, <4>1 DEF Accounted
      <4>2. CASE \E d \in StillKnown : n \in held[d]
        <5>1. PICK d \in StillKnown : n \in held[d]
          BY <4>2
        <5>2. d # Watcher
          BY <2>2, <5>1
        <5>3. d \in StillKnown' /\ held'[d] = held[d]
          BY <1>0, <2>1, <5>1, <5>2 DEF StillKnown, Renaming, TypeOK
        <5> QED
          BY <5>1, <5>3 DEF Accounted
      <4> QED
        BY <4>1, <4>2 DEF Accounted
    <3>3. \A n \in view' : n = nick[Watcher] \/ (n \in view /\ n # old)
      BY <2>1 DEF AfterNick
    <3> QED
      BY <2>1, <2>3, <2>4, <2>5, <3>1, <3>2, <3>3, EnterTold
  <2>6. CASE Watcher \notin member
    BY <2>1, <2>6 DEF ShownAccounted
  <2> QED
    BY <2>5, <2>6
<1> QED
  BY <1>1, <1>2, <1>3

(* The beginning of a JOIN or of a PART of the watcher.                    *)
LEMMA ShownBegin ==
  ASSUME IInv, JoinChan(Watcher) \/ PartEcho(Watcher)
  PROVE  ShownAccounted'
<1> USE RosterAssumption DEF Goto, history, beliefs
<1>1. TypeOK
  BY DEF IInv
<1>2. /\ pc'[Watcher] \in {"find", "part_tell"} /\ MapFree
      /\ \A d \in Clients \ {Watcher} : pc'[d] = pc[d]
      /\ member' \subseteq Clients
  BY <1>1 DEF JoinChan, PartEcho, TypeOK
<1>3. ~ Inside' /\ Names' = {} /\ GoingOut' = {}
  BY <1>2 DEF Inside, Names, GoingOut, MapFree
<1> QED
  BY <1>3 DEF ShownAccounted

(* The other steps of the watcher's JOIN, and TOPIC.                       *)
LEMMA ShownOwnJoin ==
  ASSUME IInv,
         \/ FindChan \/ GetTopic \/ RplTopic \/ GetNamelist \/ RplNames
         \/ \E t \in Topics : SetTopic(t)
  PROVE  ShownAccounted'
<1> USE RosterAssumption DEF Goto, history, beliefs
<1>0. TypeOK /\ Locals /\ ShownAccounted
  BY DEF IInv
<1>1. /\ member' = member /\ nick' = nick /\ renamed' = renamed /\ mixed' = mixed
      /\ \A d \in Clients \ {Watcher} : pc'[d] = pc[d] /\ held'[d] = held[d]
  BY <1>0 DEF FindChan, GetTopic, RplTopic, GetNamelist, RplNames, SetTopic, TypeOK
<1>2. (pc' = pc /\ held' = held) \/ Joining
  BY DEF FindChan, GetTopic, RplTopic, GetNamelist, RplNames, SetTopic, Joining
<1>3. (pc' = pc /\ held' = held) \/ pc'[Watcher] \notin {"nick_echo", "nick_tell"}
  BY <1>0 DEF FindChan, GetTopic, RplTopic, GetNamelist, RplNames, SetTopic, TypeOK
<1>4. \A d \in StillKnown : d \in StillKnown' /\ held'[d] = held[d]
  <2>1. StillKnown \subseteq Clients /\ (Joining => Watcher \notin StillKnown)
    BY <1>0 DEF StillKnown, Renaming, Joining, TypeOK
  <2> QED
    BY <1>1, <1>2, <2>1 DEF StillKnown, Renaming
<1>5. Accounted \subseteq Accounted'
  BY <1>1, <1>4, AccountedKept
<1>6. GoingOut' = GoingOut
  BY <1>0, <1>1 DEF GoingOut, TypeOK
<1>7. CASE FindChan \/ GetTopic \/ RplTopic \/ \E t \in Topics : SetTopic(t)
  <2>1. /\ view' = view /\ left' = left
        /\ \/ pc' = pc /\ held' = held
           \/ pc[Watcher] = "find" /\ pc'[Watcher] = "topic"
           \/ pc[Watcher] = "topic" /\ pc'[Watcher] = "echo"
           \/ pc[Watcher] = "rpl_topic" /\ pc'[Watcher] = "names"
    BY <1>0, <1>7 DEF FindChan, GetTopic, RplTopic, SetTopic, TypeOK
  <2>2. Joining' = Joining /\ (Inside' => Inside) /\ Names' = Names
    BY <1>1, <2>1 DEF Joining, Inside, Names
  <2> QED
    BY <1>0, <1>1, <1>5, <1>6, <2>1, <2>2, UntoldStep
<1>8. CASE GetNamelist
  <2>1. /\ view' = view /\ left' = left /\ pc[Watcher] = "names" /\ pc'[Watcher] = "rpl_names"
        /\ held'[Watcher] = {nick[d] : d \in member}
    BY <1>0, <1>8 DEF GetNamelist, TypeOK
  <2>2. Joining' = Joining /\ Inside' = Inside
    BY <1>1, <2>1 DEF Joining, Inside
  <2>3. Names' \subseteq Accounted'
    BY <1>1, <2>1 DEF Names, Accounted
  <2> QED
    BY <1>0, <1>1, <1>5, <1>6, <2>1, <2>2, <2>3 DEF ShownAccounted
<1>9. CASE RplNames
  <2>1. /\ pc[Watcher] = "rpl_names" /\ pc'[Watcher] = "join_tell"
        /\ view' = AfterNames(held[Watcher]) /\ left' = left \cap held[Watcher]
    BY <1>0, <1>9 DEF RplNames, TypeOK
  <2>2. Joining /\ ~ Joining' /\ Names = held[Watcher] /\ Names' = {}
        /\ Inside' = Inside
    BY <1>1, <2>1 DEF Joining, Names, Inside
  <2>3. \A n \in view' : n \in view \/ n \in Names
    BY <2>1, <2>2 DEF AfterNames
  <2> SUFFICES ASSUME Watcher \in member
               PROVE  /\ Inside' => view' \subseteq Accounted' \cup left'
                      /\ \A d \in GoingOut' :
                           Inside' /\ nick'[d] \in view' => nick'[d] \in left' \cup mixed'
    BY <1>1, <2>2 DEF ShownAccounted
  <2>4. /\ Inside => view \subseteq Accounted
        /\ Names \subseteq Accounted \cup left
        /\ \A d \in GoingOut :
             /\ nick[d] \in left
             /\ Inside /\ nick[d] \in view => nick[d] \in mixed
    BY <1>0, <2>2 DEF ShownAccounted
  <2>5. \A n \in Names : n \in left => n \in left'
    BY <2>1, <2>2
  <2>6. Inside' => view' \subseteq Accounted' \cup left'
    BY <1>5, <2>2, <2>3, <2>4, <2>5
  <2>7. \A d \in GoingOut' :
          Inside' /\ nick'[d] \in view' => nick'[d] \in left' \cup mixed'
    BY <1>1, <1>6, <2>2, <2>3, <2>4, <2>5
  <2> QED
    BY <2>6, <2>7
<1> QED
  BY <1>7, <1>8, <1>9

(* What the watcher shows stays accounted for.                             *)
LEMMA ShownAccountedStep == IInv /\ [Next]_vars => ShownAccounted'
<1> SUFFICES ASSUME IInv, [Next]_vars PROVE ShownAccounted'
  OBVIOUS
<1>0. TypeOK /\ ShownAccounted
  BY DEF IInv
<1>1. ASSUME NEW c \in Clients, Command(c) PROVE ShownAccounted'
  <2>1. CASE \/ PartCheck(c) \/ Remove(c) \/ (\E n \in Nicks : NickCheck(c, n))
             \/ ((JoinTell(c) \/ PartTell(c) \/ QuitTell(c)) /\ Watcher \notin Others(c))
    BY <2>1, ShownUntold
  <2>2. CASE JoinChan(c) \/ PartEcho(c) \/ NickEcho(c)
    <3>1. CASE c # Watcher
      BY <2>2, <3>1, ShownUntold
    <3>2. CASE c = Watcher
      BY <2>2, <3>2, ShownBegin, ShownEnter
    <3> QED
      BY <3>1, <3>2
  <2>3. CASE (PartTell(c) \/ QuitTell(c)) /\ Watcher \in Others(c)
    <3>1. c # Watcher /\ Watcher \in member /\ c \in member
      BY <2>3 DEF Others
    <3> QED
      BY <2>3, <3>1, ShownLeave
  <2>4. CASE Kick(c)
    <3>1. CASE c # Watcher /\ Watcher \in member
      <4>1. c \in member
        BY <2>4 DEF Kick
      <4> QED
        BY <2>4, <3>1, <4>1, ShownLeave
    <3>2. CASE c = Watcher \/ Watcher \notin member
      <4>1. Watcher \notin member'
        BY <2>4, <3>2 DEF Kick
      <4> QED
        BY <4>1 DEF ShownAccounted
    <3> QED
      BY <3>1, <3>2
  <2>5. CASE PartOut(c) \/ QuitOut(c)
    BY <2>5, ShownOut
  <2>6. CASE JoinTell(c) /\ Watcher \in Others(c)
    BY <2>6, ShownEnter
  <2>7. CASE NickSet(c) \/ NickTell(c)
    BY <2>7, ShownRename, ShownNick
  <2> QED
    BY <1>1, <2>1, <2>2, <2>3, <2>4, <2>5, <2>6, <2>7 DEF Command
<1>2. CASE FindChan \/ GetTopic \/ RplTopic \/ GetNamelist \/ RplNames
           \/ \E t \in Topics : SetTopic(t)
  BY <1>2, ShownOwnJoin
<1>3. CASE JoinEcho
  BY <1>3, ShownEnter
<1>4. CASE UNCHANGED vars
  BY <1>0, <1>4
  DEF vars, ShownAccounted, Inside, Joining, Accounted, StillKnown, Renaming, Names, GoingOut
<1> QED
  BY <1>1, <1>2, <1>3, <1>4 DEF Next, Command

(* The commands of which the watcher is not told hide nobody.              *)
LEMMA MembersUntold ==
  ASSUME IInv, OwnKnown, NEW c \in Clients,
         \/ PartCheck(c) \/ Remove(c) \/ (\E n \in Nicks : NickCheck(c, n)) \/ NickSet(c)
         \/ ((JoinChan(c) \/ PartEcho(c) \/ NickEcho(c)) /\ c # Watcher)
         \/ ((PartOut(c) \/ QuitOut(c)) /\ c # Watcher)
         \/ ((JoinTell(c) \/ PartTell(c) \/ QuitTell(c) \/ NickTell(c)) /\ Watcher \notin Others(c))
  PROVE  MembersShown'
<1> USE RosterAssumption DEF Goto, history, beliefs
<1>0. TypeOK /\ Locals /\ MembersShown
  BY DEF IInv
<1> SUFFICES ASSUME Inside', pc'[Watcher] \notin {"rpl_topic", "names"},
                    NEW d \in member' \ {Watcher}, pc'[d] \in Staying
             PROVE  KnownBy(d)' \cap Claimed' # {}
  BY DEF MembersShown
<1>1. /\ view' = view /\ renamed' = renamed /\ mixed \subseteq mixed'
      /\ \A e \in Clients \ {c} : pc'[e] = pc[e] /\ held'[e] = held[e] /\ nick'[e] = nick[e]
      /\ member' \subseteq member \cup {c}
  <2>1. CASE \/ PartCheck(c) \/ Remove(c) \/ (\E n \in Nicks : NickCheck(c, n))
             \/ ((JoinChan(c) \/ PartEcho(c) \/ NickEcho(c)) /\ c # Watcher)
    BY <1>0, <2>1 DEF PartCheck, Remove, NickCheck, JoinChan, PartEcho, NickEcho, TypeOK
  <2>2. CASE PartOut(c) \/ QuitOut(c)
    BY <1>0, <2>2 DEF PartOut, QuitOut, TypeOK
  <2>4. CASE NickSet(c)
    BY <1>0, <2>4 DEF NickSet, TypeOK
  <2>3. CASE \/ JoinTell(c) /\ Watcher \notin Others(c)
             \/ PartTell(c) /\ Watcher \notin Others(c)
             \/ QuitTell(c) /\ Watcher \notin Others(c)
             \/ NickTell(c) /\ Watcher \notin Others(c)
    BY <1>0, <2>3 DEF JoinTell, PartTell, QuitTell, NickTell, TellLeave, TypeOK
  <2> QED
    BY <2>1, <2>2, <2>3, <2>4
<1>2. \/ pc[c] = "idle" /\ pc'[c] \in {"part", "quit", "nick"} /\ member' = member /\ nick' = nick
      \/ pc[c] = "part_tell" /\ pc'[c] = "part_out"
      \/ pc[c] = "quit" /\ pc'[c] = "quit_out" /\ member' = member
      \/ pc[c] \in {"join_tell", "nick_tell"} /\ pc'[c] = "idle" /\ Watcher \notin Others(c)
           /\ member' = member
      \/ pc[c] = "nick" /\ pc'[c] = "nick_echo" /\ held'[c] = {nick[c]} /\ member' = member
      \/ pc[c] = "nick_echo" /\ pc'[c] = "nick_tell" /\ held'[c] = held[c] /\ nick' = nick
           /\ member' = member /\ c # Watcher
      \/ pc'[c] \in {"join_tell", "part_tell"} /\ c # Watcher
      \/ member' = member \ {c} /\ c # Watcher
  <2>1. CASE PartCheck(c) \/ Remove(c) \/ \E n \in Nicks : NickCheck(c, n)
    BY <1>0, <2>1 DEF PartCheck, Remove, NickCheck, TypeOK
  <2>2. CASE PartTell(c) \/ QuitTell(c) \/ NickSet(c)
    BY <1>0, <2>2 DEF PartTell, QuitTell, NickSet, TypeOK
  <2>3. CASE (JoinTell(c) \/ NickTell(c)) /\ Watcher \notin Others(c)
    BY <1>0, <2>3 DEF JoinTell, NickTell, TypeOK
  <2>4. CASE (NickEcho(c) \/ JoinChan(c) \/ PartEcho(c)) /\ c # Watcher
    BY <1>0, <2>4 DEF NickEcho, JoinChan, PartEcho, TypeOK
  <2>5. CASE (PartOut(c) \/ QuitOut(c)) /\ c # Watcher
    BY <1>0, <2>5 DEF PartOut, QuitOut
  <2> QED
    BY <2>1, <2>2, <2>3, <2>4, <2>5
<1>3. Inside /\ pc[Watcher] \notin {"rpl_topic", "names"} /\ Names' = Names
  <2>1. CASE c # Watcher
    BY <1>1, <2>1 DEF Inside, Names
  <2>2. CASE c = Watcher
    BY <1>2, <2>2 DEF Inside, Names
  <2> QED
    BY <2>1, <2>2
<1>4. Claimed \subseteq Claimed'
  BY <1>1, <1>3 DEF Claimed
<1>5. d \in member /\ pc[d] \in Staying /\ KnownBy(d) \subseteq KnownBy(d)'
  <2>1. CASE d # c
    <3>1. d \in member /\ d \in Clients
      BY <1>0, <1>1, <2>1 DEF TypeOK
    <3> QED
      BY <1>1, <2>1, <3>1 DEF KnownBy, Renaming
  <2>2. CASE d = c
    <3>1. Watcher \in member
      BY <1>3 DEF Inside
    <3>2. Watcher \notin Others(c) => c \notin member
      BY <2>2, <3>1 DEF Others
    <3>3. CASE pc[c] = "idle" /\ pc'[c] \in {"part", "quit", "nick"} /\ member' = member
                 /\ nick' = nick
      BY <2>2, <3>3 DEF KnownBy, Renaming, Staying
    <3>4. CASE pc[c] = "nick" /\ pc'[c] = "nick_echo" /\ held'[c] = {nick[c]}
                 /\ member' = member
      <4>1. KnownBy(c) = {nick[c]} /\ nick[c] \in KnownBy(c)'
        BY <3>4 DEF KnownBy, Renaming
      <4> QED
        BY <2>2, <3>4, <4>1 DEF Staying
    <3>5. CASE pc[c] = "nick_echo" /\ pc'[c] = "nick_tell" /\ held'[c] = held[c]
                 /\ nick' = nick /\ member' = member
      BY <2>2, <3>5 DEF KnownBy, Renaming, Staying
    <3> QED
      BY <1>2, <2>2, <3>2, <3>3, <3>4, <3>5 DEF Staying
  <2> QED
    BY <2>1, <2>2
<1>6. KnownBy(d) \cap Claimed # {}
  BY <1>0, <1>3, <1>5 DEF MembersShown
<1> QED
  BY <1>4, <1>5, <1>6

(* The JOIN of another member is told: it is shown.                        *)
LEMMA MembersEnter ==
  ASSUME IInv, OwnKnown, NEW c \in Clients, JoinTell(c), Watcher \in Others(c)
  PROVE  MembersShown'
<1> USE RosterAssumption DEF Goto, history, beliefs
<1>0. TypeOK /\ Locals /\ MembersShown /\ ShowsItself
  BY DEF IInv
<1> SUFFICES ASSUME Inside', pc'[Watcher] \notin {"rpl_topic", "names"},
                    NEW d \in member' \ {Watcher}, pc'[d] \in Staying
             PROVE  KnownBy(d)' \cap Claimed' # {}
  BY DEF MembersShown
<1>1. /\ c # Watcher /\ member' = member /\ nick' = nick /\ renamed' = renamed
      /\ mixed' = mixed /\ pc[c] = "join_tell" /\ pc'[c] = "idle"
      /\ \A e \in Clients \ {c} : pc'[e] = pc[e] /\ held'[e] = held[e]
      /\ view' = AfterJoin(nick[c])
  BY <1>0 DEF JoinTell, Others, TypeOK
<1>2. Inside /\ pc[Watcher] \notin {"rpl_topic", "names"} /\ Names' = Names
  BY <1>1 DEF Inside, Names
<1>3. nick[c] # Me /\ Me \in view
  <2>1. pc[Watcher] # "gone" /\ pc[c] # "gone"
    BY <1>0, <1>1, <1>2 DEF Locals, Inside
  <2> QED
    BY <1>0, <1>1, <1>2, <2>1, NotMe DEF ShowsItself
<1>4. view' = view \cup {nick[c]}
  BY <1>1, <1>3 DEF AfterJoin
<1>5. CASE d = c
  BY <1>1, <1>4, <1>5 DEF KnownBy, Claimed, Renaming
<1>6. CASE d # c
  <2>1. d \in Clients /\ d \in member /\ pc[d] \in Staying /\ KnownBy(d)' = KnownBy(d)
    BY <1>0, <1>1, <1>6 DEF TypeOK, KnownBy, Renaming
  <2>2. KnownBy(d) \cap Claimed # {}
    BY <1>0, <1>2, <2>1 DEF MembersShown
  <2>3. Claimed \subseteq Claimed'
    BY <1>1, <1>2, <1>4 DEF Claimed
  <2> QED
    BY <2>1, <2>2, <2>3
<1> QED
  BY <1>5, <1>6

(* The PART, QUIT or KICK of another member hides nobody else, but by a    *)
(* nickname mixed up.                                                      *)
LEMMA MembersLeave ==
  ASSUME IInv, OwnKnown, NEW c \in Clients \ {Watcher}, c \in member,
         PartTell(c) \/ QuitTell(c) \/ Kick(c)
  PROVE  MembersShown'
<1> USE RosterAssumption DEF Goto, history, beliefs
<1>0. TypeOK /\ Locals /\ MembersShown /\ NamesakesMixed
  BY DEF IInv
<1> SUFFICES ASSUME Inside', pc'[Watcher] \notin {"rpl_topic", "names"},
                    NEW d \in member' \ {Watcher}, pc'[d] \in Staying
             PROVE  KnownBy(d)' \cap Claimed' # {}
  BY DEF MembersShown
<1>1. /\ nick' = nick /\ renamed' = renamed /\ mixed \subseteq mixed'
      /\ \A e \in Clients \ {c} : pc'[e] = pc[e] /\ held'[e] = held[e]
      /\ member' \subseteq member /\ d # c
      /\ view' = AfterLeave(nick[c]) \/ view' = view
  <2>1. CASE PartTell(c)
    BY <1>0, <2>1 DEF PartTell, TellLeave, Staying, TypeOK
  <2>2. CASE QuitTell(c)
    BY <1>0, <2>2 DEF QuitTell, TellLeave, Staying, TypeOK
  <2>3. CASE Kick(c)
    BY <1>0, <2>3 DEF Kick, TellLeave
  <2> QED
    BY <2>1, <2>2, <2>3
<1>2. Inside /\ pc[Watcher] \notin {"rpl_topic", "names"} /\ Names' = Names
  BY <1>1 DEF Inside, Names
<1>3. nick[c] # Me /\ pc[c] # "gone"
  <2>1. pc[Watcher] # "gone" /\ pc[c] # "gone"
    BY <1>0, <1>2 DEF Locals, Inside
  <2> QED
    BY <2>1, NotMe
<1>4. \A n \in view : n \in view' \/ n = nick[c]
  BY <1>1, <1>3 DEF AfterLeave
<1>5. d \in Clients /\ d \in member /\ pc[d] \in Staying /\ KnownBy(d)' = KnownBy(d)
  BY <1>0, <1>1 DEF TypeOK, KnownBy, Renaming
<1>6. PICK n \in KnownBy(d) : n \in Claimed
  BY <1>0, <1>2, <1>5 DEF MembersShown
<1>7. n = nick[c] => n \in mixed
  <2>1. pc[d] # "gone"
    BY <1>5 DEF Staying
  <2>2. n = nick[d] \/ (d \in Renaming /\ n \in held[d])
    BY DEF KnownBy
  <2> QED
    BY <1>0, <1>1, <1>3, <1>5, <2>1, <2>2 DEF NamesakesMixed
<1>8. n \in Claimed'
  BY <1>1, <1>2, <1>4, <1>6, <1>7 DEF Claimed
<1> QED
  BY <1>5, <1>8

(* The new nickname of another member takes the place of the old one.      *)
LEMMA MembersNick ==
  ASSUME IInv, OwnKnown, NEW c \in Clients, NickTell(c), Watcher \in Others(c)
  PROVE  MembersShown'
<1> USE RosterAssumption DEF Goto, history, beliefs
<1>0. TypeOK /\ Locals /\ MembersShown /\ NamesakesMixed
  BY DEF IInv
<1> SUFFICES ASSUME Inside', pc'[Watcher] \notin {"rpl_topic", "names"},
                    NEW d \in member' \ {Watcher}, pc'[d] \in Staying
             PROVE  KnownBy(d)' \cap Claimed' # {}
  BY DEF MembersShown
<1> DEFINE old == The(held[c])
<1>1. /\ c # Watcher /\ c \in member /\ member' = member /\ nick' = nick
      /\ \A e \in Clients \ {c} : pc'[e] = pc[e] /\ held'[e] = held[e]
      /\ pc[c] = "nick_tell" /\ pc'[c] = "idle" /\ view' = AfterNick(old, nick[c])
  BY <1>0 DEF NickTell, Others, TypeOK
<1>2. /\ renamed' = IF Joining \/ old \in renamed THEN renamed \cup {old, nick[c]} ELSE renamed
      /\ mixed' = IF old \in mixed THEN mixed \cup {nick[c]} ELSE mixed
  BY DEF NickTell
<1>3. held[c] = {old} /\ c \in Renaming
  BY <1>0, <1>1 DEF Locals, HoldsOne, Renaming
<1>4. Inside /\ pc[Watcher] \notin {"rpl_topic", "names"} /\ Names' = Names
  BY <1>1 DEF Inside, Names
<1>5. ~ Joining => Names = {}
  BY DEF Joining, Names
<1>6. CASE d = c
  <2>1. KnownBy(c) = {nick[c], old} /\ KnownBy(c)' = {nick[c]} /\ pc[c] \in Staying
    BY <1>1, <1>3 DEF KnownBy, Renaming, Staying
  <2>2. nick[c] \in Claimed \/ old \in Claimed
    BY <1>0, <1>1, <1>4, <2>1 DEF MembersShown
  <2>3. nick[c] \in view => nick[c] \in view'
    BY <1>1 DEF AfterNick
  <2>4. old \in view => nick[c] \in view'
    BY <1>1 DEF AfterNick
  <2>5. nick[c] \in Claimed => nick[c] \in Claimed'
    BY <1>2, <1>4, <2>3 DEF Claimed
  <2>6. old \in Claimed => nick[c] \in Claimed'
    BY <1>2, <1>4, <1>5, <2>4 DEF Claimed
  <2> QED
    BY <1>6, <2>1, <2>2, <2>5, <2>6
<1>7. CASE d # c
  <2>1. d \in Clients /\ d \in member /\ pc[d] \in Staying /\ KnownBy(d)' = KnownBy(d)
    BY <1>0, <1>1, <1>7 DEF TypeOK, KnownBy, Renaming
  <2>2. PICK n \in KnownBy(d) : n \in Claimed
    BY <1>0, <1>4, <2>1 DEF MembersShown
  <2>3. n = old => n \in mixed
    <3>1. pc[d] # "gone"
      BY <2>1 DEF Staying
    <3>2. n = nick[d] \/ (d \in Renaming /\ held[d] = {The(held[d])} /\ n \in held[d])
      BY <1>0, <2>1 DEF KnownBy, Locals, HoldsOne, Renaming
    <3>3. CASE n = nick[d]
      BY <1>0, <1>3, <1>7, <2>1, <3>1, <3>3 DEF NamesakesMixed
    <3>4. CASE d \in Renaming /\ held[d] = {The(held[d])} /\ n \in held[d]
      <4>1. n = old => held[d] = held[c]
        BY <1>3, <3>4
      <4> QED
        BY <1>0, <1>3, <1>7, <2>1, <3>4, <4>1 DEF NamesakesMixed
    <3> QED
      BY <3>2, <3>3, <3>4
  <2>4. n \in view => n \in view' \/ n = old
    BY <1>1 DEF AfterNick
  <2>5. n \in Claimed'
    BY <1>2, <1>4, <2>2, <2>3, <2>4 DEF Claimed
  <2> QED
    BY <2>1, <2>5
<1> QED
  BY <1>6, <1>7

(* The watcher's own new nickname takes the place of nobody else.          *)
LEMMA MembersOwnNick ==
  ASSUME IInv, OwnKnown, NickEcho(Watcher)
  PROVE  MembersShown'
<1> USE RosterAssumption DEF Goto, history, beliefs
<1>0. TypeOK /\ Locals /\ MembersShown /\ NamesakesMixed
  BY DEF IInv
<1> SUFFICES ASSUME Inside', NEW d \in member' \ {Watcher}, pc'[d] \in Staying
             PROVE  KnownBy(d)' \cap Claimed' # {}
  BY DEF MembersShown
<1> DEFINE old == The(held[Watcher])
<1>1. /\ member' = member /\ nick' = nick /\ renamed' = renamed /\ mixed' = mixed
      /\ \A e \in Clients \ {Watcher} : pc'[e] = pc[e] /\ held'[e] = held[e]
      /\ pc[Watcher] = "nick_echo" /\ pc'[Watcher] = "nick_tell"
      /\ view' = AfterNick(old, nick[Watcher])
  BY <1>0 DEF NickEcho, TypeOK
<1>2. held[Watcher] = {old} /\ Watcher \in Renaming
  BY <1>0, <1>1 DEF Locals, HoldsOne, Renaming
<1>3. Inside /\ Names' = {} /\ Names = {}
  BY <1>1 DEF Inside, Names
<1>4. d \in Clients /\ d \in member /\ pc[d] \in Staying /\ KnownBy(d)' = KnownBy(d)
  BY <1>0, <1>1 DEF TypeOK, KnownBy, Renaming
<1>5. PICK n \in KnownBy(d) : n \in Claimed
  BY <1>0, <1>1, <1>3, <1>4 DEF MembersShown
<1>6. n = old => n \in mixed
  <2>1. pc[d] # "gone"
    BY <1>4 DEF Staying
  <2>2. n = nick[d] \/ (d \in Renaming /\ held[d] = {The(held[d])} /\ n \in held[d])
    BY <1>0, <1>4 DEF KnownBy, Locals, HoldsOne, Renaming
  <2>3. CASE n = nick[d]
    BY <1>0, <1>2, <1>4, <2>1, <2>3 DEF NamesakesMixed
  <2>4. CASE d \in Renaming /\ held[d] = {The(held[d])} /\ n \in held[d]
    <3>1. n = old => held[d] = held[Watcher]
      BY <1>2, <2>4
    <3> QED
      BY <1>0, <1>2, <1>4, <2>4, <3>1 DEF NamesakesMixed
  <2> QED
    BY <2>2, <2>3, <2>4
<1>7. n \in view => n \in view' \/ n = old
  BY <1>1 DEF AfterNick
<1>8. n \in Claimed'
  BY <1>1, <1>3, <1>5, <1>6, <1>7 DEF Claimed
<1> QED
  BY <1>4, <1>8

(* The steps of the watcher's own JOIN and PART: the NAMES list shows all  *)
(* of the members.                                                         *)
LEMMA MembersOwnJoin ==
  ASSUME IInv, OwnKnown,
         \/ OwnJoin \/ JoinChan(Watcher) \/ PartEcho(Watcher)
         \/ \E t \in Topics : SetTopic(t)
  PROVE  MembersShown'
<1> USE RosterAssumption DEF Goto, history, beliefs
<1>0. TypeOK /\ Locals /\ MembersShown /\ ShowsItself
  BY DEF IInv
<1>1. CASE FindChan \/ GetTopic \/ JoinChan(Watcher) \/ PartEcho(Watcher)
  <2>1. pc'[Watcher] \in {"find", "topic", "echo", "part_tell"}
    BY <1>0, <1>1 DEF FindChan, GetTopic, JoinChan, PartEcho, TypeOK
  <2> QED
    BY <2>1 DEF MembersShown, Inside
<1>2. CASE JoinEcho \/ RplTopic
  <2>1. pc'[Watcher] \in {"rpl_topic", "names"}
    BY <1>0, <1>2 DEF JoinEcho, AfterEcho, RplTopic, TypeOK
  <2> QED
    BY <2>1 DEF MembersShown
<1>3. CASE GetNamelist
  <2>1. /\ nick' = nick /\ member' = member /\ pc'[Watcher] = "rpl_names"
        /\ held'[Watcher] = {nick[d] : d \in member}
    BY <1>0, <1>3 DEF GetNamelist, TypeOK
  <2>2. \A d \in member' : nick'[d] \in Claimed'
    BY <2>1 DEF Claimed, Names
  <2>3. \A d \in member' : nick'[d] \in KnownBy(d)'
    BY DEF KnownBy
  <2> QED
    BY <2>2, <2>3 DEF MembersShown
<1>4. CASE RplNames
  <2>1. /\ nick' = nick /\ member' = member /\ renamed' = renamed /\ mixed' = mixed
        /\ \A e \in Clients \ {Watcher} : pc'[e] = pc[e] /\ held'[e] = held[e]
        /\ pc[Watcher] = "rpl_names" /\ view' = AfterNames(held[Watcher])
    BY <1>0, <1>4 DEF RplNames, TypeOK
  <2> SUFFICES ASSUME Inside', NEW d \in member' \ {Watcher}, pc'[d] \in Staying
               PROVE  KnownBy(d)' \cap Claimed' # {}
    BY DEF MembersShown
  <2>2. Inside
    BY <2>1 DEF Inside
  <2>3. Me \in view
    BY <1>0, <2>2 DEF ShowsItself
  <2>4. view' = view \cup Names
    BY <2>1, <2>3 DEF AfterNames, Names
  <2>5. Claimed \subseteq Claimed'
    BY <2>1, <2>4 DEF Claimed
  <2>6. d \in Clients /\ d \in member /\ pc[d] \in Staying /\ KnownBy(d)' = KnownBy(d)
    BY <1>0, <2>1 DEF TypeOK, KnownBy, Renaming
  <2>7. KnownBy(d) \cap Claimed # {}
    BY <1>0, <2>1, <2>2, <2>6 DEF MembersShown
  <2> QED
    BY <2>5, <2>6, <2>7
<1>5. CASE \E t \in Topics : SetTopic(t)
  <2>1. UNCHANGED <<member, nick, pc, held, view, renamed, mixed>>
    BY <1>5 DEF SetTopic
  <2> QED
    BY <1>0, <2>1 DEF MembersShown, Inside, OwnKnown, KnownBy, Claimed, Names, Renaming
<1> QED
  BY <1>1, <1>2, <1>3, <1>4, <1>5 DEF OwnJoin

(* No member is lost from the view.                                        *)
LEMMA MembersStep == IInv /\ [Next]_vars => MembersShown'
<1> SUFFICES ASSUME IInv, [Next]_vars, OwnKnown' PROVE MembersShown'
  BY DEF MembersShown
<1>0. TypeOK /\ MembersShown /\ OwnKnown
  BY OwnBack DEF IInv
<1>1. ASSUME NEW c \in Clients, Command(c) PROVE MembersShown'
  <2>1. CASE \/ PartCheck(c) \/ Remove(c) \/ (\E n \in Nicks : NickCheck(c, n)) \/ NickSet(c)
             \/ ((JoinTell(c) \/ PartTell(c) \/ QuitTell(c) \/ NickTell(c))
                   /\ Watcher \notin Others(c))
    BY <1>0, <2>1, MembersUntold
  <2>2. CASE JoinChan(c) \/ PartEcho(c) \/ NickEcho(c)
    <3>1. CASE c # Watcher
      BY <1>0, <2>2, <3>1, MembersUntold
    <3>2. CASE c = Watcher
      BY <1>0, <2>2, <3>2, MembersOwnJoin, MembersOwnNick
    <3> QED
      BY <3>1, <3>2
  <2>3. CASE (PartTell(c) \/ QuitTell(c)) /\ Watcher \in Others(c)
    <3>1. c # Watcher /\ c \in member
      BY <2>3 DEF Others
    <3> QED
      BY <1>0, <2>3, <3>1, MembersLeave
  <2>4. CASE Kick(c)
    <3>1. c \in member
      BY <2>4 DEF Kick
    <3>2. CASE c # Watcher
      BY <1>0, <2>4, <3>1, <3>2, MembersLeave
    <3>3. CASE c = Watcher
      <4>1. Watcher \notin member'
        BY <2>4, <3>3 DEF Kick
      <4> QED
        BY <4>1 DEF MembersShown, Inside
    <3> QED
      BY <3>2, <3>3
  <2>5. CASE PartOut(c) \/ QuitOut(c)
    <3>1. CASE c # Watcher
      BY <1>0, <2>5, <3>1, MembersUntold
    <3>2. CASE c = Watcher
      <4>1. Watcher \notin member'
        BY <2>5, <3>2 DEF PartOut, QuitOut
      <4> QED
        BY <4>1 DEF MembersShown, Inside
    <3> QED
      BY <3>1, <3>2
  <2>6. CASE JoinTell(c) /\ Watcher \in Others(c)
    BY <1>0, <2>6, MembersEnter
  <2>7. CASE NickTell(c) /\ Watcher \in Others(c)
    BY <1>0, <2>7, MembersNick
  <2> QED
    BY <1>1, <2>1, <2>2, <2>3, <2>4, <2>5, <2>6, <2>7 DEF Command
<1>2. CASE OwnJoin \/ \E t \in Topics : SetTopic(t)
  BY <1>0, <1>2, MembersOwnJoin
<1>3. CASE UNCHANGED vars
  BY <1>0, <1>3
  DEF vars, MembersShown, Inside, OwnKnown, KnownBy, Claimed, Names, Renaming
<1> QED
  BY <1>1, <1>2, <1>3 DEF Next, Command, OwnJoin

------------------------------------------------------------------------------
(* The invariant of all reachable states.                                  *)
THEOREM Invariance == Spec => []IInv
<1>1. IInv /\ [Next]_vars => IInv'
  BY TypeStep, LocalsStep, NamesakesStep, ShowsItselfStep, TopicStep, ShownAccountedStep,
     MembersStep DEF IInv
<1> QED
  BY <1>1, InitIInv, PTL DEF Spec

(* A settled watcher whose nickname is not mixed up is known by it alone.  *)
LEMMA SettledFacts ==
  ASSUME IInv, Watcher \in Settled
  PROVE  /\ nick[Watcher] \notin mixed => OwnKnown
         /\ Inside /\ ~ Joining /\ Names = {} /\ Me = nick[Watcher]
  BY DEF Settled, OwnKnown, Renaming, Inside, Joining, Names, Me

(* NobodyMissing: a member shows every other whose command is over.        *)
THEOREM MembersAreShown == Spec => []NobodyMissing
<1>1. IInv => NobodyMissing
  <2> SUFFICES ASSUME IInv, Watcher \in Settled, nick[Watcher] \notin mixed, NEW d \in Settled
               PROVE  nick[d] \in view \cup renamed \cup mixed
    BY DEF NobodyMissing
  <2>1. CASE d = Watcher
    BY <2>1, SettledFacts DEF IInv, ShowsItself
  <2>2. CASE d # Watcher
    <3>1. d \in member /\ KnownBy(d) = {nick[d]} /\ pc[d] \in Staying
      BY DEF Settled, KnownBy, Renaming, Staying
    <3>2. KnownBy(d) \cap Claimed # {}
      <4>1. pc[Watcher] \notin {"rpl_topic", "names"}
        BY DEF Settled
      <4> QED
        BY <2>2, <3>1, <4>1, SettledFacts DEF IInv, MembersShown
    <3> QED
      BY <3>1, <3>2, SettledFacts DEF Claimed
  <2> QED
    BY <2>1, <2>2
<1> QED
  BY <1>1, Invariance, PTL

(* NoGhosts: a member shows nobody who is not there, but for those that    *)
(* left or changed their nickname while its NAMES list was under way.      *)
THEOREM WhoIsShownIsThere == Spec => []NoGhosts
<1>1. IInv => NoGhosts
  <2> SUFFICES ASSUME IInv, Watcher \in Settled, NEW n \in view
               PROVE  n \in {nick[d] : d \in member} \cup left \cup renamed \cup mixed
                              \cup UNION {held[d] : d \in Renaming}
    BY DEF NoGhosts
  <2>1. n \in Accounted \cup left
    BY SettledFacts DEF IInv, ShownAccounted, Settled
  <2>2. StillKnown \subseteq Renaming
    BY DEF StillKnown
  <2> QED
    BY <2>1, <2>2 DEF Accounted
<1> QED
  BY <1>1, Invariance, PTL

(* KnowsWhetherItIsIn: a client shows a channel when it is a member, and   *)
(* when it shows one it is, unless it was kicked during its JOIN or NICK.  *)
THEOREM BelievesItsMembership == Spec => []KnowsWhetherItIsIn
<1>1. IInv => KnowsWhetherItIsIn
  <2> SUFFICES ASSUME IInv, nick[Watcher] \notin mixed
               PROVE  /\ Watcher \in Settled => view # {}
                      /\ (pc[Watcher] = "idle" /\ view # {} /\ "kick" \notin shaken
                            => Watcher \in member)
    BY DEF KnowsWhetherItIsIn
  <2>1. Watcher \in Settled => view # {}
    BY SettledFacts DEF IInv, ShowsItself
  <2>2. ASSUME pc[Watcher] = "idle" PROVE OwnKnown
    BY <2>2 DEF OwnKnown, Renaming
  <2> QED
    BY <2>1, <2>2 DEF IInv, ShowsItself
<1> QED
  BY <1>1, Invariance, PTL

(* ShowsTheTopic: a member shows the topic of the channel, unless one was  *)
(* set during its JOIN.                                                    *)
THEOREM TopicIsShown == Spec => []ShowsTheTopic
<1>1. IInv => ShowsTheTopic
  BY DEF IInv, TopicOnItsWay, ShowsTheTopic, Settled, Joining
<1> QED
  BY <1>1, Invariance, PTL
===============================================================================
