------------------------- MODULE RegistrationProofs -------------------------
(***************************************************************************)
(* For any sets of clients and nicknames: the invariant of Registration,   *)
(* the property of a lost entry, and the refinement of NickDirectory.      *)
(*                                                                         *)
(* Then, for any list of tries, of Bot, which extends Registration: the    *)
(* bot with the server it talks to is a run of Registration, and the two   *)
(* agree on the nickname of the bot.                                       *)
(***************************************************************************)
EXTENDS Bot, TLAPS


(* No client is connected at the start and the list is empty.              *)
LEMMA InitIInv == Init => IInv
  BY NamesAssumption
  DEF Init, IInv, TypeOK, ListedUnderOwnNick, RegistrationComplete, UnderWay,
      ClashKnown, FoundUnlessClash, Registered, Connected

(* A step keeps every variable in its range.                               *)
LEMMA TypeStep == IInv /\ [Next]_vars => TypeOK'
<1> SUFFICES ASSUME IInv, [Next]_vars PROVE TypeOK'
  OBVIOUS
<1> USE DEF IInv, TypeOK, SetState, SetNick, Idle, Admitted, Connected, Registered
<1>1. ASSUME NEW c \in Clients,
             \/ Connect(c) \/ Pass(c) \/ Oper(c) \/ CloseClient(c)
      PROVE  TypeOK'
  BY <1>1 DEF Connect, Pass, Oper, CloseClient
<1>2. ASSUME NEW c \in Clients,
             \/ PassWrong(c) \/ Refuse(c) \/ NickFirstBad(c) \/ Quit(c)
             \/ Disconnect(c)
      PROVE  TypeOK'
  BY <1>2 DEF PassWrong, Refuse, NickFirstBad, Quit, Disconnect, Remove, Erased
<1>3. ASSUME NEW c \in Clients, NEW named \in BOOLEAN, User(c, named)
      PROVE  TypeOK'
  BY <1>3 DEF User, NickGiven
<1>4. ASSUME NEW c \in Clients, RegClient(c)
      PROVE  TypeOK'
  BY <1>4 DEF RegClient, Inserted
<1>5. ASSUME NEW c \in Clients, ClientNickChange(c)
      PROVE  TypeOK'
  <2>1. arg[c] \in Nicks
    BY <1>5 DEF ClientNickChange, UnderWay
  <2>2. nickList' \in [Nicks -> Clients \cup {NoClient}]
    BY <1>5, <2>1 DEF ClientNickChange, Renamed, Inserted, Erased
  <2> QED
    BY <1>5, <2>1, <2>2 DEF ClientNickChange
<1>6. ASSUME NEW c \in Clients, NEW n \in Nicks,
             NickFirst(c, n) \/ NickAgain(c, n) \/ NickCheck(c, n)
      PROVE  TypeOK'
  BY <1>6, NamesAssumption DEF NickFirst, NickAgain, NickCheck
<1>7. CASE UNCHANGED vars
  BY <1>7 DEF vars
<1> QED
  BY <1>1, <1>2, <1>3, <1>4, <1>5, <1>6, <1>7 DEF Next, ClientNext


(* A command finishes what it began, and registers nobody too early.       *)
LEMMA RegistrationStep == IInv /\ [Next]_vars => (RegistrationComplete /\ UnderWay)'
<1> SUFFICES ASSUME IInv, [Next]_vars PROVE (RegistrationComplete /\ UnderWay)'
  OBVIOUS
<1> USE DEF IInv, TypeOK, SetState, SetNick, Idle, Admitted, Connected, Registered,
            RegistrationComplete, UnderWay
<1>1. ASSUME NEW c \in Clients,
             \/ Connect(c) \/ Pass(c) \/ Oper(c) \/ CloseClient(c)
      PROVE  (RegistrationComplete /\ UnderWay)'
  BY <1>1 DEF Connect, Pass, Oper, CloseClient
<1>2. ASSUME NEW c \in Clients,
             \/ PassWrong(c) \/ Refuse(c) \/ NickFirstBad(c) \/ Quit(c)
             \/ Disconnect(c)
      PROVE  (RegistrationComplete /\ UnderWay)'
  <2>1. Remove(c) /\ c \in Connected /\ pc[c] = "idle"
    BY <1>2 DEF PassWrong, Refuse, NickFirstBad, Quit, Disconnect
  <2> QED
    BY <2>1 DEF Remove, Erased
<1>3. ASSUME NEW c \in Clients, NEW named \in BOOLEAN, User(c, named)
      PROVE  (RegistrationComplete /\ UnderWay)'
  BY <1>3 DEF User, NickGiven
<1>4. ASSUME NEW c \in Clients, RegClient(c)
      PROVE  (RegistrationComplete /\ UnderWay)'
  BY <1>4 DEF RegClient, Inserted
<1>5. ASSUME NEW c \in Clients, ClientNickChange(c)
      PROVE  (RegistrationComplete /\ UnderWay)'
  BY <1>5 DEF ClientNickChange, Renamed, Inserted, Erased
<1>6. ASSUME NEW c \in Clients, NEW n \in Nicks,
             NickFirst(c, n) \/ NickAgain(c, n) \/ NickCheck(c, n)
      PROVE  (RegistrationComplete /\ UnderWay)'
  BY <1>6, NamesAssumption DEF NickFirst, NickAgain, NickCheck
<1>7. CASE UNCHANGED vars
  BY <1>7 DEF vars
<1> QED
  BY <1>1, <1>2, <1>3, <1>4, <1>5, <1>6, <1>7 DEF Next, ClientNext

(* An entry keeps leading to a registered client of that nickname.         *)
LEMMA ListedStep == IInv /\ [Next]_vars => ListedUnderOwnNick'
<1> SUFFICES ASSUME IInv, [Next]_vars PROVE ListedUnderOwnNick'
  OBVIOUS
<1> USE DEF IInv, TypeOK, SetState, SetNick, Idle, Admitted, Connected, Registered,
            RegistrationComplete, UnderWay, ListedUnderOwnNick
<1>1. ASSUME NEW c \in Clients,
             \/ Connect(c) \/ Pass(c) \/ Oper(c) \/ CloseClient(c)
      PROVE  ListedUnderOwnNick'
  BY <1>1 DEF Connect, Pass, Oper, CloseClient
<1>2. ASSUME NEW c \in Clients,
             \/ PassWrong(c) \/ Refuse(c) \/ NickFirstBad(c) \/ Quit(c)
             \/ Disconnect(c)
      PROVE  ListedUnderOwnNick'
  <2>1. Remove(c) /\ c \in Connected /\ pc[c] = "idle"
    BY <1>2 DEF PassWrong, Refuse, NickFirstBad, Quit, Disconnect
  <2> QED
    BY <2>1 DEF Remove, Erased
<1>3. ASSUME NEW c \in Clients, NEW named \in BOOLEAN, User(c, named)
      PROVE  ListedUnderOwnNick'
  BY <1>3 DEF User, NickGiven
<1>4. ASSUME NEW c \in Clients, RegClient(c)
      PROVE  ListedUnderOwnNick'
  BY <1>4 DEF RegClient, Inserted
<1>5. ASSUME NEW c \in Clients, ClientNickChange(c)
      PROVE  ListedUnderOwnNick'
  BY <1>5 DEF ClientNickChange, Renamed, Inserted, Erased
<1>6. ASSUME NEW c \in Clients, NEW n \in Nicks,
             NickFirst(c, n) \/ NickAgain(c, n) \/ NickCheck(c, n)
      PROVE  ListedUnderOwnNick'
  BY <1>6, NamesAssumption DEF NickFirst, NickAgain, NickCheck
<1>7. CASE UNCHANGED vars
  BY <1>7 DEF vars
<1> QED
  BY <1>1, <1>2, <1>3, <1>4, <1>5, <1>6, <1>7 DEF Next, ClientNext

(* A nickname that comes to be shared enters the history.                  *)
LEMMA ClashStep == IInv /\ [Next]_vars => ClashKnown'
<1> SUFFICES ASSUME IInv, [Next]_vars PROVE ClashKnown'
  OBVIOUS
<1> USE DEF IInv, TypeOK, SetState, SetNick, Idle, Admitted, Connected, Registered,
            RegistrationComplete, UnderWay, ClashKnown
<1>1. ASSUME NEW c \in Clients,
             \/ Connect(c) \/ Pass(c) \/ Oper(c) \/ CloseClient(c)
      PROVE  ClashKnown'
  BY <1>1 DEF Connect, Pass, Oper, CloseClient
<1>2. ASSUME NEW c \in Clients,
             \/ PassWrong(c) \/ Refuse(c) \/ NickFirstBad(c) \/ Quit(c)
             \/ Disconnect(c)
      PROVE  ClashKnown'
  <2>1. Remove(c) /\ c \in Connected /\ pc[c] = "idle"
    BY <1>2 DEF PassWrong, Refuse, NickFirstBad, Quit, Disconnect
  <2> QED
    BY <2>1 DEF Remove, Erased
<1>3. ASSUME NEW c \in Clients, NEW named \in BOOLEAN, User(c, named)
      PROVE  ClashKnown'
  BY <1>3 DEF User, NickGiven
<1>4. ASSUME NEW c \in Clients, RegClient(c)
      PROVE  ClashKnown'
  BY <1>4 DEF RegClient, Inserted
<1>5. ASSUME NEW c \in Clients, ClientNickChange(c)
      PROVE  ClashKnown'
  BY <1>5 DEF ClientNickChange, Renamed, Inserted, Erased
<1>6. ASSUME NEW c \in Clients, NEW n \in Nicks,
             NickFirst(c, n) \/ NickAgain(c, n) \/ NickCheck(c, n)
      PROVE  ClashKnown'
  BY <1>6, NamesAssumption DEF NickFirst, NickAgain, NickCheck
<1>7. CASE UNCHANGED vars
  BY <1>7 DEF vars
<1> QED
  BY <1>1, <1>2, <1>3, <1>4, <1>5, <1>6, <1>7 DEF Next, ClientNext

(* Whoever loses an entry shares the nickname with whoever took it away.   *)
LEMMA FoundStep == IInv /\ [Next]_vars => FoundUnlessClash'
<1> SUFFICES ASSUME IInv, [Next]_vars PROVE FoundUnlessClash'
  OBVIOUS
<1> USE DEF IInv, TypeOK, SetState, SetNick, Idle, Admitted, Connected, Registered,
            RegistrationComplete, UnderWay, ListedUnderOwnNick, ClashKnown, FoundUnlessClash
<1>1. ASSUME NEW c \in Clients,
             \/ Connect(c) \/ Pass(c) \/ Oper(c) \/ CloseClient(c)
      PROVE  FoundUnlessClash'
  BY <1>1 DEF Connect, Pass, Oper, CloseClient
<1>2. ASSUME NEW c \in Clients,
             \/ PassWrong(c) \/ Refuse(c) \/ NickFirstBad(c) \/ Quit(c)
             \/ Disconnect(c)
      PROVE  FoundUnlessClash'
  <2>1. Remove(c) /\ c \in Connected /\ pc[c] = "idle"
    BY <1>2 DEF PassWrong, Refuse, NickFirstBad, Quit, Disconnect
  <2> QED
    BY <2>1 DEF Remove, Erased
<1>3. ASSUME NEW c \in Clients, NEW named \in BOOLEAN, User(c, named)
      PROVE  FoundUnlessClash'
  BY <1>3 DEF User, NickGiven
<1>4. ASSUME NEW c \in Clients, RegClient(c)
      PROVE  FoundUnlessClash'
  BY <1>4 DEF RegClient, Inserted
<1>5. ASSUME NEW c \in Clients, ClientNickChange(c)
      PROVE  FoundUnlessClash'
  BY <1>5 DEF ClientNickChange, Renamed, Inserted, Erased
<1>6. ASSUME NEW c \in Clients, NEW n \in Nicks,
             NickFirst(c, n) \/ NickAgain(c, n) \/ NickCheck(c, n)
      PROVE  FoundUnlessClash'
  BY <1>6, NamesAssumption DEF NickFirst, NickAgain, NickCheck
<1>7. CASE UNCHANGED vars
  BY <1>7 DEF vars
<1> QED
  BY <1>1, <1>2, <1>3, <1>4, <1>5, <1>6, <1>7 DEF Next, ClientNext

(* Every reachable state satisfies the invariant: the list is sound, and   *)
(* it is complete for nicknames that never clashed.                        *)
THEOREM Invariance == Spec => []IInv
<1>1. IInv /\ [Next]_vars => IInv'
  BY TypeStep, RegistrationStep, ListedStep, ClashStep, FoundStep DEF IInv
<1> QED
  BY InitIInv, <1>1, PTL DEF Spec

(* No client is registered without password, nickname and USER.            *)
THEOREM Complete == Spec => []RegistrationComplete
<1>1. IInv => RegistrationComplete
  BY DEF IInv
<1> QED
  BY Invariance, <1>1, PTL

(* A registered client whose nickname never clashed is found under it.     *)
THEOREM Found == Spec => []FoundUnlessClash
<1>1. IInv => FoundUnlessClash
  BY DEF IInv
<1> QED
  BY Invariance, <1>1, PTL

------------------------------------------------------------------------------
(* The nickname list implements NickDirectory.                             *)

(* The empty list is the empty directory.                                  *)
LEMMA InitDirectory == Init => Dir!DirInit
  BY DEF Init, Dir!DirInit

(* The only three ways an access changes the list.                         *)
LEMMA StepDirectory == IInv /\ [Next]_vars => [Dir!DirNext]_nickList
<1> SUFFICES ASSUME IInv, [Next]_vars, nickList' # nickList
             PROVE  Dir!DirNext
  OBVIOUS
<1> USE DEF IInv, TypeOK
<1>1. ASSUME NEW c \in Clients, Remove(c)
      PROVE  Dir!DirNext
  <2>1. nick[c] \in Nicks
    BY <1>1 DEF Remove, Erased
  <2>2. Dir!Drop(nick[c])
    BY <1>1, <2>1 DEF Remove, Erased, Dir!Drop
  <2> QED
    BY <2>1, <2>2 DEF Dir!DirNext
<1>2. ASSUME NEW c \in Clients, RegClient(c)
      PROVE  Dir!DirNext
  <2>1. /\ nickList[nick[c]] = NoClient
        /\ nickList' = [nickList EXCEPT ![nick[c]] = c]
    BY <1>2 DEF RegClient, Inserted
  <2>2. nick[c] \in Nicks
    BY <1>2, <2>1
  <2>3. ~ Dir!Entered(c)
    BY <2>1, NamesAssumption DEF Dir!Entered, ListedUnderOwnNick
  <2>4. Dir!Claim(c, nick[c])
    BY <2>1, <2>3 DEF Dir!Claim
  <2> QED
    BY <2>2, <2>4 DEF Dir!DirNext
<1>3. ASSUME NEW c \in Clients, ClientNickChange(c)
      PROVE  Dir!DirNext
  <2>1. /\ c \in Registered
        /\ arg[c] \in Nicks
        /\ nick[c] \in Nicks
    BY <1>3 DEF ClientNickChange, UnderWay, RegistrationComplete
  <2>2. Erased(nickList, nick[c]) = [nickList EXCEPT ![nick[c]] = NoClient]
    BY DEF Erased
  <2>3. \A m \in Nicks : nickList[m] = c => m = nick[c]
    BY NamesAssumption DEF ListedUnderOwnNick
  <2>4. CASE arg[c] # nick[c] /\ nickList[arg[c]] # NoClient
    <3>1. Dir!Drop(nick[c])
      BY <1>3, <2>1, <2>2, <2>4 DEF ClientNickChange, Renamed, Inserted, Dir!Drop
    <3> QED
      BY <2>1, <3>1 DEF Dir!DirNext
  <2>5. CASE arg[c] = nick[c] \/ nickList[arg[c]] = NoClient
    <3>1. Erased(nickList, nick[c])[arg[c]] = NoClient
      BY <2>1, <2>5 DEF Erased
    <3>2. nickList' = [nickList EXCEPT ![nick[c]] = NoClient, ![arg[c]] = c]
      BY <1>3, <2>2, <3>1 DEF ClientNickChange, Renamed, Inserted
    <3>3. Dir!Swap(c, nick[c], arg[c])
      BY <2>3, <2>5, <3>2 DEF Dir!Swap
    <3> QED
      BY <2>1, <3>3 DEF Dir!DirNext
  <2> QED
    BY <2>4, <2>5
<1> QED
  BY <1>1, <1>2, <1>3
  DEF Next, ClientNext, vars, Connect, Pass, PassWrong, Refuse, NickFirstBad, User, Oper,
      Quit, Disconnect, CloseClient, NickFirst, NickAgain, NickCheck

(* Whatever the interleaving, the list behaves as the directory promises.  *)
THEOREM ListImplementsDirectory == Spec => ImplementsDirectory
<1> QED
  BY InitDirectory, StepDirectory, Invariance, PTL
  DEF Spec, ImplementsDirectory, Dir!DirSpec

------------------------------------------------------------------------------
(* A step that changes an entry is a command of a client of that nickname  *)
(* by which this client leaves or renames itself.                          *)
LEMMA LossStep ==
  ASSUME IInv, [Next]_vars,
         NEW n \in Nicks, nickList[n] # NoClient, nickList'[n] # nickList[n]
  PROVE  \E c \in Connected : nick[c] = n /\ GivesUp(c)
<1> USE DEF IInv, TypeOK, Registered, Connected
<1>1. ASSUME NEW c \in Clients, Remove(c), c \in Connected
      PROVE  nick[c] = n /\ GivesUp(c)
  BY <1>1 DEF Remove, Erased, SetState, GivesUp
<1>2. ASSUME NEW c \in Clients, RegClient(c)
      PROVE  FALSE
  BY <1>2 DEF RegClient, Inserted
<1>3. ASSUME NEW c \in Clients, ClientNickChange(c)
      PROVE  c \in Connected /\ nick[c] = n /\ GivesUp(c)
  <2>1. c \in Connected
    BY <1>3 DEF ClientNickChange, UnderWay
  <2>2. nick[c] = n
    BY <1>3 DEF ClientNickChange, Renamed, Inserted, Erased
  <2> QED
    BY <1>3, <2>1, <2>2 DEF ClientNickChange, GivesUp
<1>4. nickList' # nickList
  OBVIOUS
<1>5. CASE \E c \in Clients : Remove(c) /\ c \in Connected
  BY <1>1, <1>5
<1>6. CASE \E c \in Clients : ClientNickChange(c)
  BY <1>3, <1>6
<1> QED
  BY <1>2, <1>4, <1>5, <1>6
  DEF Next, ClientNext, vars, Connect, Pass, PassWrong, Refuse, NickFirstBad, User, Oper,
      Quit, Disconnect, CloseClient, NickFirst, NickAgain, NickCheck, Idle,
      Admitted

(* An entry is given up by the client it leads to or by a namesake of it,  *)
(* after a clash too, and by nobody else.                                  *)
THEOREM LostOnlyToNamesakes == Spec => LostToNamesakeOnly
<1>1. IInv /\ [Next]_vars =>
      [\A n \in Nicks : nickList[n] # NoClient /\ nickList'[n] # nickList[n]
         => \E c \in Connected : nick[c] = n /\ GivesUp(c)]_vars
  BY LossStep
<1> QED
  BY <1>1, Invariance, PTL DEF Spec, LostToNamesakeOnly

------------------------------------------------------------------------------
(* What the lines on the way are.                                          *)
Commands ==
  {"PASS", "NICK", "USER", "JOIN", "NOTICE", "INVITE", "PRIVMSG", "KICK",
   "001", "401", "404", "433", "464", "473"}

Lines ==
  [cmd : Commands, arg : Nicks \cup {Star},
   from : Clients \cup Nicks \cup {Star, NoClient}]

BotTypeOK ==
  /\ try \in 1 .. Len(Tries) /\ asked \in Nat /\ inside \in BOOLEAN
  /\ toServer \in Seq(Lines) /\ toBot \in Seq(Lines)

(* Of the NICKs of the bot and the refusals of them there is one under way *)
(* at most, it is about the nickname the bot goes by, and there is none    *)
(* once the server has taken that.                                         *)
AtMostOne(queue, cmd) ==
  \A i, j \in DOMAIN queue : queue[i].cmd = cmd /\ queue[j].cmd = cmd => i = j

Settling == Pending(toServer, "NICK") \/ Pending(toBot, "433")

OneAttempt ==
  /\ AtMostOne(toServer, "NICK") /\ AtMostOne(toBot, "433")
  /\ ~ (Pending(toServer, "NICK") /\ Pending(toBot, "433"))
  /\ \A i \in DOMAIN toServer :
       toServer[i].cmd = "NICK" => toServer[i].arg = BotNick
  /\ nick[Bot] # Star => nick[Bot] = BotNick /\ ~ Settling

(* Nothing is on the way before the bot is connected.                      *)
SilentBefore == ustate[Bot] = "OFF" => toServer = <<>> /\ toBot = <<>> /\ ~ inside

BotIInv == IInv /\ BotTypeOK /\ OneAttempt /\ SilentBefore

(* The one line a command adds, or none.                                   *)
LEMMA Added ==
  ASSUME NEW q \in Seq(Lines), NEW l \in Lines
  PROVE  q \o <<l>> = Append(q, l) /\ q \o <<>> = q
  OBVIOUS

(* What is left of a queue when its first line is taken.                   *)
LEMMA Taken ==
  ASSUME NEW q \in Seq(Lines), q # <<>>
  PROVE  /\ Tail(q) \in Seq(Lines) /\ Head(q) = q[1] /\ 1 \in DOMAIN q
         /\ \A i \in DOMAIN Tail(q) : i + 1 \in DOMAIN q /\ i + 1 # 1 /\ Tail(q)[i] = q[i + 1]
         /\ \A i, j \in DOMAIN Tail(q) : i + 1 = j + 1 => i = j
  OBVIOUS

(* A taken line leaves at most one of a kind, and none of its own kind.    *)
LEMMA TakenOnce ==
  ASSUME NEW q \in Seq(Lines), q # <<>>, NEW cmd
  PROVE  /\ Pending(Tail(q), cmd) => Pending(q, cmd)
         /\ AtMostOne(q, cmd) => AtMostOne(Tail(q), cmd)
         /\ AtMostOne(q, cmd) /\ Head(q).cmd = cmd =>
              Pending(q, cmd) /\ ~ Pending(Tail(q), cmd)
  BY Taken DEF Pending, AtMostOne

(* An added line.                                                          *)
LEMMA AddedOnce ==
  ASSUME NEW q \in Seq(Lines), NEW l \in Lines, NEW cmd
  PROVE  /\ Append(q, l) \in Seq(Lines) /\ Append(q, l) # <<>>
         /\ l.cmd # cmd /\ AtMostOne(q, cmd) => AtMostOne(Append(q, l), cmd)
         /\ l.cmd # cmd /\ Pending(Append(q, l), cmd) => Pending(q, cmd)
         /\ ~ Pending(q, cmd) => AtMostOne(Append(q, l), cmd)
         /\ \A i \in DOMAIN Append(q, l) :
              Append(q, l)[i] = l \/ (i \in DOMAIN q /\ Append(q, l)[i] = q[i])
<1>1. /\ Append(q, l) \in Seq(Lines) /\ Append(q, l) # <<>>
      /\ DOMAIN q = 1 .. Len(q) /\ DOMAIN Append(q, l) = 1 .. Len(q) + 1 /\ Len(q) \in Nat
      /\ \A i \in DOMAIN Append(q, l) :
           \/ i = Len(q) + 1 /\ Append(q, l)[i] = l
           \/ i \in DOMAIN q /\ Append(q, l)[i] = q[i]
  OBVIOUS
<1> QED
  BY <1>1 DEF Pending, AtMostOne

(* The nickname the bot goes by is a nickname.                             *)
LEMMA BotNicks == BotTypeOK => BotNick \in Nicks
  BY BotAssumption DEF BotTypeOK, BotNick

(* The line the server takes up when it is a NICK.                         *)
LEMMA TakenNick ==
  ASSUME BotTypeOK, OneAttempt, TakeNick
  PROVE  /\ toServer # <<>> /\ Head(toServer).cmd = "NICK"
         /\ Head(toServer).arg = BotNick /\ BotNick \in Nicks
         /\ Pending(toServer, "NICK") /\ nick[Bot] = Star
<1>1. toServer # <<>> /\ Head(toServer).cmd = "NICK"
  BY DEF TakeNick, Takes
<1>2. Head(toServer) = toServer[1] /\ 1 \in DOMAIN toServer
  BY <1>1, Taken DEF BotTypeOK
<1>3. Pending(toServer, "NICK")
  BY <1>1, <1>2 DEF Pending
<1> QED
  BY <1>1, <1>2, <1>3, BotNicks DEF OneAttempt, Settling

(* A step of the bot and its server is one of Registration, or none.       *)
LEMMA StepOfRegistration == BotIInv /\ [BotNext]_allVars => [Next]_vars
<1> SUFFICES ASSUME BotIInv, [BotNext]_allVars PROVE [Next]_vars
  OBVIOUS
<1>1. CASE UNCHANGED vars
  BY <1>1
<1>2. CASE \E c \in Clients : ClientNext(c)
  BY <1>2 DEF Next
<1>3. ASSUME TakeNick PROVE [Next]_vars
  <2>1. Head(toServer).arg \in Nicks
    BY <1>3, TakenNick DEF BotIInv
  <2>2. \/ UNCHANGED vars
        \/ NickFirst(Bot, Head(toServer).arg) \/ NickAgain(Bot, Head(toServer).arg)
    BY <1>3 DEF TakeNick
  <2> QED
    BY <2>1, <2>2, BotAssumption DEF Next, ClientNext
<1> QED
  BY <1>1, <1>2, <1>3, BotAssumption
  DEF BotNext, ServerNext, BotCoreNext, OthersNext, Started, TakePass, TakeUser,
      FinishLine, TakeJoin, TakeNotice, TakeInVain, ReNick, OnInvite, OnJoin,
      OnPrivmsg, Ignores, Answer, KickedOut, Invited, Joined, Asked, Reaches,
      ClientNext, allVars

(* Nothing is on the way at the start.                                     *)
LEMMA BotInitIInv == BotInit => BotIInv
<1> SUFFICES ASSUME BotInit PROVE BotIInv
  OBVIOUS
<1>1. DOMAIN toServer = {} /\ DOMAIN toBot = {}
  BY DEF BotInit
<1>2. OneAttempt
  BY <1>1, BotAssumption DEF BotInit, Init, OneAttempt, AtMostOne, Pending, Settling
<1>3. 1 \in 1 .. Len(Tries)
  BY BotAssumption
<1>4. BotTypeOK
  <2>1. try \in 1 .. Len(Tries) /\ asked \in Nat
    BY <1>3 DEF BotInit
  <2>2. inside \in BOOLEAN
    BY DEF BotInit
  <2>3. toServer \in Seq(Lines) /\ toBot \in Seq(Lines)
    BY DEF BotInit
  <2> QED
    BY <2>1, <2>2, <2>3 DEF BotTypeOK
<1> QED
  BY <1>2, <1>4, InitIInv DEF BotInit, BotIInv, SilentBefore

(* The step as the registration sees it.                                   *)
LEMMA RegistrationOfBot == BotIInv /\ [BotNext]_allVars => IInv'
  BY StepOfRegistration, TypeStep, RegistrationStep, ListedStep, ClashStep, FoundStep
  DEF BotIInv, IInv

(* A reply that is neither a refusal of the nickname, to a line that is no *)
(* NICK of the bot.                                                        *)
LEMMA ReplyStep ==
  ASSUME BotTypeOK, OneAttempt, NEW l \in Lines, l.cmd # "433", toServer # <<>>,
         UNCHANGED <<nick, try>>, toServer' = Tail(toServer),
         toBot' \in {toBot, Append(toBot, l)}
  PROVE  OneAttempt' /\ toServer' \in Seq(Lines) /\ toBot' \in Seq(Lines)
<1>1. /\ toServer' \in Seq(Lines) /\ AtMostOne(toServer', "NICK")
      /\ Pending(toServer', "NICK") => Pending(toServer, "NICK")
      /\ \A i \in DOMAIN toServer' :
           i + 1 \in DOMAIN toServer /\ toServer'[i] = toServer[i + 1]
  BY Taken, TakenOnce DEF BotTypeOK, OneAttempt
<1>2. /\ toBot' \in Seq(Lines) /\ AtMostOne(toBot', "433")
      /\ Pending(toBot', "433") => Pending(toBot, "433")
  <2>1. CASE toBot' = toBot
    BY <2>1 DEF BotTypeOK, OneAttempt
  <2>2. CASE toBot' = Append(toBot, l)
    BY <2>2, AddedOnce DEF BotTypeOK, OneAttempt
  <2> QED
    BY <2>1, <2>2
<1>3. BotNick' = BotNick
  BY DEF BotNick
<1> QED
  BY <1>1, <1>2, <1>3 DEF OneAttempt, Settling

(* The same for what the bot takes up and answers.                         *)
LEMMA AnswerStep ==
  ASSUME BotTypeOK, OneAttempt, NEW l \in Lines, l.cmd # "NICK", toBot # <<>>,
         UNCHANGED <<nick, try>>, toBot' = Tail(toBot),
         toServer' \in {toServer, Append(toServer, l)}
  PROVE  OneAttempt' /\ toServer' \in Seq(Lines) /\ toBot' \in Seq(Lines)
<1>1. /\ toBot' \in Seq(Lines) /\ AtMostOne(toBot', "433")
      /\ Pending(toBot', "433") => Pending(toBot, "433")
  BY Taken, TakenOnce DEF BotTypeOK, OneAttempt
<1>2. /\ toServer' \in Seq(Lines) /\ AtMostOne(toServer', "NICK")
      /\ Pending(toServer', "NICK") => Pending(toServer, "NICK")
      /\ \A i \in DOMAIN toServer' :
           toServer'[i] = l \/ (i \in DOMAIN toServer /\ toServer'[i] = toServer[i])
  <2>1. CASE toServer' = toServer
    BY <2>1 DEF BotTypeOK, OneAttempt
  <2>2. CASE toServer' = Append(toServer, l)
    BY <2>2, AddedOnce DEF BotTypeOK, OneAttempt
  <2> QED
    BY <2>1, <2>2
<1>3. BotNick' = BotNick
  BY DEF BotNick
<1> QED
  BY <1>1, <1>2, <1>3 DEF OneAttempt, Settling

(* What reaches the bot unasked for.                                       *)
LEMMA ReachStep ==
  ASSUME BotTypeOK, OneAttempt, NEW l \in Lines, l.cmd # "433",
         UNCHANGED <<nick, try, toServer>>, toBot' = Append(toBot, l)
  PROVE  OneAttempt' /\ toServer' \in Seq(Lines) /\ toBot' \in Seq(Lines)
<1>1. /\ toBot' \in Seq(Lines) /\ AtMostOne(toBot', "433")
      /\ Pending(toBot', "433") => Pending(toBot, "433")
  BY AddedOnce DEF BotTypeOK, OneAttempt
<1>2. BotNick' = BotNick
  BY DEF BotNick
<1> QED
  BY <1>1, <1>2 DEF OneAttempt, Settling, BotTypeOK

(* The bot connects and sends its first three lines.                       *)
LEMMA StartStep ==
  ASSUME BotIInv, Started
  PROVE  OneAttempt' /\ BotTypeOK' /\ SilentBefore'
<1>1. /\ toBot = <<>> /\ nick[Bot] = Star /\ nick' = nick /\ try' = try
      /\ toServer' = FirstLines /\ toBot' = toBot /\ ustate'[Bot] = "NEEDREG"
  BY BotAssumption
  DEF BotIInv, SilentBefore, IInv, TypeOK, UnderWay, Started, Connect, SetState
<1>2. /\ toServer' \in Seq(Lines) /\ DOMAIN toServer' = 1 .. 3
      /\ toServer'[1].cmd = "PASS" /\ toServer'[2] = Line("NICK", BotNick, Bot)
      /\ toServer'[3].cmd = "USER"
  <2>1. /\ Line("PASS", Star, Bot) \in Lines /\ Line("NICK", BotNick, Bot) \in Lines
        /\ Line("USER", Star, Bot) \in Lines
    BY BotAssumption, BotNicks DEF Line, Lines, Commands, BotIInv
  <2> QED
    BY <1>1, <2>1 DEF FirstLines, Line
<1>3. \A i \in 1 .. 3 : i = 1 \/ i = 2 \/ i = 3
  OBVIOUS
<1>4. BotNick' = BotNick /\ toServer'[2].arg = BotNick /\ DOMAIN toBot' = {}
  BY <1>1, <1>2 DEF BotNick, Line
<1>5. OneAttempt'
  BY <1>1, <1>2, <1>3, <1>4 DEF OneAttempt, AtMostOne, Pending, Settling
<1>6. BotTypeOK'
  BY <1>1, <1>2 DEF BotIInv, BotTypeOK, Started
<1> QED
  BY <1>1, <1>5, <1>6 DEF SilentBefore

(* The server takes up the NICK: it has the nickname now, or refuses it.   *)
LEMMA TakeNickStep ==
  ASSUME BotIInv, TakeNick
  PROVE  OneAttempt' /\ toServer' \in Seq(Lines) /\ toBot' \in Seq(Lines)
<1>1. /\ toServer # <<>> /\ Head(toServer).cmd = "NICK"
      /\ Head(toServer).arg = BotNick /\ BotNick \in Nicks
      /\ Pending(toServer, "NICK") /\ nick[Bot] = Star
  BY TakenNick DEF BotIInv
<1>2. /\ toServer' = Tail(toServer) /\ try' = try /\ BotNick' = BotNick
      /\ \/ nick' = nick /\ toBot' = toBot \o <<Numeric("433")>>
         \/ nick'[Bot] = BotNick /\ toBot' = toBot \o <<>>
  <2>1. toServer' = Tail(toServer) /\ try' = try
    BY DEF TakeNick, Reply
  <2>2. \/ nick' = nick /\ toBot' = toBot \o <<Numeric("433")>>
        \/ /\ NickFirst(Bot, BotNick) \/ NickAgain(Bot, BotNick)
           /\ ~ InUse(BotNick) /\ toBot' = toBot \o <<>>
    BY <1>1 DEF TakeNick, Reply, NickFirst, vars
  <2>3. (NickFirst(Bot, BotNick) \/ NickAgain(Bot, BotNick)) /\ ~ InUse(BotNick)
          => nick'[Bot] = BotNick
    BY BotAssumption DEF NickFirst, NickAgain, SetNick, BotIInv, IInv, TypeOK
  <2> QED
    BY <2>1, <2>2, <2>3 DEF BotNick
<1>3. /\ toServer' \in Seq(Lines) /\ AtMostOne(toServer', "NICK")
      /\ ~ Pending(toServer', "NICK")
      /\ \A i \in DOMAIN toServer' :
           i + 1 \in DOMAIN toServer /\ toServer'[i] = toServer[i + 1]
  BY <1>1, <1>2, Taken, TakenOnce DEF BotIInv, BotTypeOK, OneAttempt
<1>4. ~ Pending(toBot, "433") /\ toBot \in Seq(Lines) /\ AtMostOne(toBot, "433")
  BY <1>1 DEF BotIInv, OneAttempt, BotTypeOK
<1>5. Numeric("433") \in Lines /\ Numeric("433").cmd = "433"
  BY DEF Numeric, Line, Lines, Commands
<1>6. CASE nick' = nick /\ toBot' = toBot \o <<Numeric("433")>>
  <2>1. toBot' = Append(toBot, Numeric("433"))
    BY <1>4, <1>5, <1>6, Added
  <2>2. toBot' \in Seq(Lines) /\ AtMostOne(toBot', "433")
    BY <1>4, <1>5, <2>1, AddedOnce
  <2> QED
    BY <1>1, <1>2, <1>3, <1>6, <2>2 DEF BotIInv, OneAttempt
<1>7. CASE nick'[Bot] = BotNick /\ toBot' = toBot \o <<>>
  <2>1. toBot' = toBot
    BY <1>4, <1>5, <1>7, Added
  <2> QED
    BY <1>2, <1>3, <1>4, <1>7, <2>1 DEF BotIInv, OneAttempt, Settling
<1> QED
  BY <1>2, <1>6, <1>7

(* The bot takes up the refusal and tries the next nickname.               *)
LEMMA ReNickStep ==
  ASSUME BotIInv, ReNick
  PROVE  OneAttempt' /\ BotTypeOK'
<1> DEFINE l == Line("NICK", Tries[try + 1], Bot)
<1>1. /\ toBot # <<>> /\ Head(toBot).cmd = "433" /\ try < Len(Tries) /\ try' = try + 1
      /\ toBot' = Tail(toBot) /\ toServer' = toServer \o <<l>> /\ UNCHANGED <<vars, inside, asked>>
  BY DEF ReNick, Hears, Answer
<1>2. BotTypeOK /\ OneAttempt /\ Tries \in Seq(Nicks)
  BY BotAssumption DEF BotIInv
<1>3. try' \in 1 .. Len(Tries) /\ Tries[try + 1] \in Nicks /\ BotNick' = Tries[try + 1]
  BY <1>1, <1>2 DEF BotTypeOK, BotNick
<1>4. l \in Lines /\ l.cmd = "NICK" /\ l.arg = BotNick'
  BY <1>3, BotAssumption DEF Line, Lines, Commands
<1> HIDE DEF l
<1>5. /\ toBot' \in Seq(Lines) /\ AtMostOne(toBot', "433")
      /\ Pending(toBot, "433") /\ ~ Pending(toBot', "433")
  BY <1>1, <1>2, Taken, TakenOnce DEF BotTypeOK, OneAttempt
<1>6. toServer' = Append(toServer, l) /\ toServer \in Seq(Lines)
      /\ ~ Pending(toServer, "NICK") /\ nick[Bot] = Star /\ nick' = nick
  BY <1>1, <1>2, <1>4, <1>5, Added DEF BotTypeOK, OneAttempt, Settling, vars
<1>7. /\ toServer' \in Seq(Lines) /\ AtMostOne(toServer', "NICK")
      /\ \A i \in DOMAIN toServer' :
           toServer'[i] = l \/ (i \in DOMAIN toServer /\ toServer'[i] = toServer[i])
  BY <1>4, <1>6, AddedOnce
<1>8. \A i \in DOMAIN toServer' : toServer'[i].cmd = "NICK" => toServer'[i].arg = BotNick'
  BY <1>4, <1>6, <1>7 DEF Pending
<1>9. BotTypeOK'
  BY <1>1, <1>2, <1>3, <1>5, <1>7 DEF BotTypeOK
<1> QED
  BY <1>5, <1>6, <1>7, <1>8, <1>9 DEF OneAttempt

(* The other lines of the bot, taken up by the server.                     *)
LEMMA TakeStep ==
  ASSUME BotIInv, TakePass \/ TakeUser \/ TakeJoin \/ TakeNotice \/ TakeInVain
  PROVE  OneAttempt' /\ toServer' \in Seq(Lines) /\ toBot' \in Seq(Lines)
<1>1. BotTypeOK /\ OneAttempt /\ TypeOK
  BY DEF BotIInv, IInv
<1>2. nick' = nick /\ try' = try /\ toServer # <<>> /\ toServer' = Tail(toServer)
  BY DEF TakePass, TakeUser, TakeJoin, TakeNotice, TakeInVain, Takes, Reply, Pass,
         PassWrong, Remove, User, vars
<1>3. Head(toServer) \in Lines /\ nick[Bot] \in Nicks \cup {Star}
  BY <1>1, <1>2, BotAssumption DEF BotTypeOK, TypeOK
<1>4. \E l \in Lines : l.cmd # "433" /\ toBot' \in {toBot, Append(toBot, l)}
  <2>1. \A n \in {"464", "473", "404", "401"} :
           Numeric(n) \in Lines /\ Numeric(n).cmd # "433"
    BY DEF Numeric, Line, Lines, Commands
  <2>2. \A to \in Nicks \cup {Star} :
           /\ Line("JOIN", Star, nick[Bot]) \in Lines
           /\ Line("NOTICE", to, nick[Bot]) \in Lines
           /\ Line("JOIN", Star, nick[Bot]).cmd # "433"
           /\ Line("NOTICE", to, nick[Bot]).cmd # "433"
    BY <1>3 DEF Line, Lines, Commands
  <2>3. \/ toBot' = toBot \o <<>>
        \/ \E n \in {"464", "473", "404", "401"} : toBot' = toBot \o <<Numeric(n)>>
        \/ toBot' = Append(toBot, Line("JOIN", Star, nick[Bot]))
        \/ toBot' = toBot \o <<Line("NOTICE", Head(toServer).arg, nick[Bot])>>
    BY DEF TakePass, TakeUser, TakeJoin, TakeNotice, TakeInVain, Reply
  <2>4. Head(toServer).arg \in Nicks \cup {Star} /\ toBot \in Seq(Lines)
    BY <1>1, <1>3 DEF Lines, BotTypeOK
  <2>5. CASE toBot' = toBot \o <<>>
    BY <2>1, <2>4, <2>5, Added
  <2>6. CASE \E n \in {"464", "473", "404", "401"} : toBot' = toBot \o <<Numeric(n)>>
    BY <2>1, <2>4, <2>6, Added
  <2>7. CASE toBot' = Append(toBot, Line("JOIN", Star, nick[Bot]))
    BY <1>3, <2>2, <2>7
  <2>8. CASE toBot' = toBot \o <<Line("NOTICE", Head(toServer).arg, nick[Bot])>>
    BY <2>2, <2>4, <2>8, Added
  <2> QED
    BY <2>3, <2>5, <2>6, <2>7, <2>8
<1> QED
  BY <1>1, <1>2, <1>4, ReplyStep

(* What the bot takes up, a refusal of its nickname aside.                 *)
LEMMA HearStep ==
  ASSUME BotIInv, OnInvite \/ OnJoin \/ OnPrivmsg \/ Ignores
  PROVE  OneAttempt' /\ toServer' \in Seq(Lines) /\ toBot' \in Seq(Lines)
<1>1. BotTypeOK /\ OneAttempt
  BY DEF BotIInv
<1>2. /\ nick' = nick /\ try' = try /\ toBot # <<>> /\ toBot' = Tail(toBot)
      /\ \/ toServer' = toServer \o <<>>
         \/ \E cmd \in {"JOIN", "NOTICE"}, to \in {Star, Head(toBot).arg} :
              toServer' = toServer \o <<Line(cmd, to, Bot)>>
  <2>1. CASE OnInvite \/ OnJoin
    BY <2>1 DEF OnInvite, OnJoin, Hears, Answer, vars
  <2>2. CASE OnPrivmsg
    BY <2>2 DEF OnPrivmsg, Answer, vars
  <2>3. CASE Ignores
    BY <2>3 DEF Ignores, Answer, vars
  <2> QED
    BY <2>1, <2>2, <2>3
<1>3. Head(toBot).arg \in Nicks \cup {Star} /\ toServer \in Seq(Lines)
  <2>1. toBot \in Seq(Lines) /\ toBot # <<>> /\ toServer \in Seq(Lines)
    BY <1>1, <1>2 DEF BotTypeOK
  <2>2. Head(toBot) \in Lines
    BY <2>1
  <2> QED
    BY <2>1, <2>2 DEF Lines
<1>4. \A cmd \in {"JOIN", "NOTICE"}, to \in {Star, Head(toBot).arg} :
        Line(cmd, to, Bot) \in Lines /\ Line(cmd, to, Bot).cmd # "NICK"
  BY <1>3, BotAssumption DEF Line, Lines, Commands
<1>5. \E l \in Lines : l.cmd # "NICK" /\ toServer' \in {toServer, Append(toServer, l)}
  <2>1. CASE toServer' = toServer \o <<>>
    BY <1>3, <1>4, <2>1, Added
  <2>2. CASE \E cmd \in {"JOIN", "NOTICE"}, to \in {Star, Head(toBot).arg} :
               toServer' = toServer \o <<Line(cmd, to, Bot)>>
    BY <1>3, <1>4, <2>2, Added
  <2> QED
    BY <1>2, <2>1, <2>2
<1> QED
  BY <1>1, <1>2, <1>5, AnswerStep

(* What reaches the bot unasked for, and its welcome.                      *)
LEMMA UnaskedStep ==
  ASSUME BotIInv,
         \/ FinishLine \/ KickedOut
         \/ \E c \in Clients \ {Bot} : Invited(c) \/ Joined(c) \/ Asked(c)
  PROVE  OneAttempt' /\ toServer' \in Seq(Lines) /\ toBot' \in Seq(Lines)
<1>1. BotTypeOK /\ OneAttempt /\ TypeOK
  BY DEF BotIInv, IInv
<1>2. nick' = nick /\ try' = try /\ toServer' = toServer
  BY DEF FinishLine, KickedOut, Invited, Joined, Asked, Reaches, RegClient, vars
<1>3. \A c \in Clients : nick[c] \in Nicks \cup {Star}
  BY <1>1 DEF TypeOK
<1>4. \E cmd \in {"001", "KICK", "INVITE", "JOIN", "PRIVMSG"}, to \in {Star, nick[Bot]},
         from \in {Star, NoClient} \cup {nick[c] : c \in Clients} :
         toBot' = Append(toBot, Line(cmd, to, from))
  <2>1. CASE FinishLine
    BY <2>1 DEF FinishLine, Numeric
  <2>2. CASE KickedOut
    BY <2>2 DEF KickedOut
  <2>3. ASSUME NEW c \in Clients, Invited(c) \/ Joined(c) \/ Asked(c)
        PROVE  \E cmd \in {"INVITE", "JOIN", "PRIVMSG"}, to \in {Star, nick[Bot]} :
                 toBot' = Append(toBot, Line(cmd, to, nick[c]))
    BY <2>3 DEF Invited, Joined, Asked, Reaches
  <2>4. CASE \E c \in Clients \ {Bot} : Invited(c) \/ Joined(c) \/ Asked(c)
    BY <2>3, <2>4
  <2> QED
    BY <2>1, <2>2, <2>4
<1>5. \A cmd \in {"001", "KICK", "INVITE", "JOIN", "PRIVMSG"}, to \in {Star, nick[Bot]},
         from \in {Star, NoClient} \cup {nick[c] : c \in Clients} :
         Line(cmd, to, from) \in Lines /\ Line(cmd, to, from).cmd # "433"
  BY <1>3, BotAssumption DEF Line, Lines, Commands
<1>6. \E l \in Lines : l.cmd # "433" /\ toBot' = Append(toBot, l)
  BY <1>4, <1>5
<1> QED
  BY <1>1, <1>2, <1>6, ReachStep

(* A step of the bot, the server or the others keeps the attempts apart.   *)
LEMMA BotStep ==
  BotIInv /\ [BotNext]_allVars => BotTypeOK' /\ OneAttempt' /\ SilentBefore'
<1> SUFFICES ASSUME BotIInv, [BotNext]_allVars
             PROVE  BotTypeOK' /\ OneAttempt' /\ SilentBefore'
  OBVIOUS
<1>1. BotTypeOK /\ OneAttempt /\ SilentBefore /\ IInv /\ TypeOK /\ Bot \in Clients
  BY BotAssumption DEF BotIInv, IInv
<1>2. CASE Started
  BY <1>2, StartStep
<1>3. ASSUME \/ TakePass \/ TakeNick \/ TakeUser \/ TakeJoin \/ TakeNotice \/ TakeInVain
      PROVE  BotTypeOK' /\ OneAttempt' /\ SilentBefore'
  <2>1. OneAttempt' /\ toServer' \in Seq(Lines) /\ toBot' \in Seq(Lines)
    BY <1>3, TakeStep, TakeNickStep
  <2>2. try' = try /\ asked' = asked /\ inside' \in BOOLEAN
    BY <1>1, <1>3 DEF TakePass, TakeNick, TakeUser, TakeJoin, TakeNotice, TakeInVain,
                      Reply, BotTypeOK
  <2>3. ustate'[Bot] # "OFF"
    <3>1. toServer # <<>>
      BY <1>3 DEF TakePass, TakeNick, TakeUser, TakeJoin, TakeNotice, TakeInVain, Takes
    <3>2. ustate[Bot] # "OFF"
      BY <1>1, <3>1 DEF SilentBefore
    <3> QED
      BY <1>1, <1>3, <3>2
      DEF TakePass, TakeNick, TakeUser, TakeJoin, TakeNotice, TakeInVain, Pass, PassWrong,
          Remove, NickFirst, NickAgain, User, SetState, TypeOK, vars
  <2> QED
    BY <1>1, <2>1, <2>2, <2>3 DEF BotTypeOK, SilentBefore
<1>4. CASE ReNick
  <2>1. ustate'[Bot] # "OFF"
    BY <1>1, <1>4 DEF ReNick, Hears, Answer, SilentBefore, vars
  <2> QED
    BY <1>4, <2>1, ReNickStep DEF SilentBefore
<1>5. CASE OnInvite \/ OnJoin \/ OnPrivmsg \/ Ignores
  <2>1. OneAttempt' /\ toServer' \in Seq(Lines) /\ toBot' \in Seq(Lines)
    BY <1>5, HearStep
  <2>2. UNCHANGED <<try, asked, inside>> /\ ustate' = ustate /\ toBot # <<>>
    BY <1>5 DEF OnInvite, OnJoin, OnPrivmsg, Ignores, Hears, Answer, vars
  <2> QED
    BY <1>1, <2>1, <2>2 DEF BotTypeOK, SilentBefore
<1>6. CASE \/ FinishLine \/ KickedOut
           \/ \E c \in Clients \ {Bot} : Invited(c) \/ Joined(c) \/ Asked(c)
  <2>1. OneAttempt' /\ toServer' \in Seq(Lines) /\ toBot' \in Seq(Lines)
    BY <1>6, UnaskedStep
  <2>2. try' = try /\ asked' \in Nat /\ inside' \in BOOLEAN
    <3>1. try' = try /\ (asked' = asked \/ asked' = asked + 1)
      BY <1>6 DEF FinishLine, KickedOut, Invited, Joined, Asked, Reaches
    <3>2. inside' = inside \/ inside' = FALSE
      BY <1>6, Zenon DEF FinishLine, KickedOut, Invited, Joined, Asked, Reaches
    <3>3. inside' \in BOOLEAN
      BY <1>1, <3>2, Zenon DEF BotTypeOK
    <3> QED
      BY <1>1, <3>1, <3>3 DEF BotTypeOK
  <2>3. ustate' = ustate
    BY <1>6 DEF FinishLine, RegClient, KickedOut, Invited, Joined, Asked, Reaches, vars
  <2>4. ustate[Bot] # "OFF"
    <3>1. CASE FinishLine
      BY <1>1, <3>1 DEF FinishLine, RegClient, IInv, UnderWay, Registered
    <3>2. CASE KickedOut
      BY <1>1, <3>2 DEF KickedOut, SilentBefore
    <3>3. CASE \E c \in Clients \ {Bot} : Invited(c) \/ Joined(c) \/ Asked(c)
      BY <1>1, <3>3 DEF Invited, Joined, Asked, BotFound, Registered, SilentBefore
    <3> QED
      BY <1>6, <3>1, <3>2, <3>3
  <2> QED
    BY <1>1, <2>1, <2>2, <2>3, <2>4 DEF BotTypeOK, SilentBefore
<1>7. CASE \/ CloseClient(Bot) /\ UNCHANGED botVars
           \/ \E c \in Clients \ {Bot} : ClientNext(c) /\ UNCHANGED botVars
           \/ UNCHANGED allVars
  <2>1. UNCHANGED botVars /\ nick'[Bot] = nick[Bot]
        /\ (ustate'[Bot] = "OFF" => ustate[Bot] = "OFF")
    <3>1. CASE CloseClient(Bot) /\ UNCHANGED botVars
      BY <1>1, <3>1 DEF CloseClient, SetState, TypeOK
    <3>2. ASSUME NEW c \in Clients \ {Bot}, ClientNext(c), UNCHANGED botVars
          PROVE  nick'[Bot] = nick[Bot] /\ ustate'[Bot] = ustate[Bot]
      BY <1>1, <3>2
      DEF ClientNext, Connect, Pass, PassWrong, Refuse, NickFirstBad, User, RegClient,
          ClientNickChange, Oper, Quit, Disconnect, CloseClient, NickFirst, NickAgain,
          NickCheck, Remove, SetState, SetNick, TypeOK
    <3>3. CASE UNCHANGED allVars
      BY <3>3 DEF allVars, vars
    <3> QED
      BY <1>7, <3>1, <3>2, <3>3
  <2>2. BotNick' = BotNick
    BY <2>1 DEF BotNick, botVars
  <2> QED
    BY <1>1, <2>1, <2>2
    DEF botVars, BotTypeOK, OneAttempt, SilentBefore, Settling, Pending, AtMostOne
<1> QED
  BY <1>2, <1>3, <1>4, <1>5, <1>6, <1>7 DEF BotNext, ServerNext, BotCoreNext, OthersNext

(* The bot, its server and the others keep the invariant.                  *)
THEOREM BotInvariance == BotSpec => []BotIInv
<1>1. BotIInv /\ [BotNext]_allVars => BotIInv'
  BY RegistrationOfBot, BotStep DEF BotIInv
<1> QED
  BY BotInitIInv, <1>1, PTL DEF BotSpec

(* With the bot as one of its clients the server still does only what      *)
(* Registration says, so all that is proved of Registration holds here.    *)
THEOREM BotRefinesRegistration == BotSpec => Spec
<1>1. BotInit => Init
  BY DEF BotInit
<1> QED
  BY BotInvariance, StepOfRegistration, <1>1, PTL DEF BotSpec, Spec

(* Whatever the others do with the nicknames of the bot meanwhile, the     *)
(* server has for it the nickname it goes by, and nothing about an earlier *)
(* one is under way when it is registered.                                 *)
THEOREM NicknamesAgree == BotSpec => []NickInSync
<1>1. BotIInv => NickInSync
  BY DEF BotIInv, IInv, RegistrationComplete, OneAttempt, Settling, NickInSync, Registered
<1> QED
  BY BotInvariance, <1>1, PTL
================================================================================
