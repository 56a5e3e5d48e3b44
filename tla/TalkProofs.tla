------------------------------ MODULE TalkProofs ------------------------------
(***************************************************************************)
(* For any clients and lists of targets: what the members of the channel   *)
(* hear, and in which order.  The invariant says what a line in an inbox   *)
(* still means for the time to come: a KICK, PART or QUIT that was told of *)
(* is over, or its sender is still at it and has the lock; and what the    *)
(* holder of the lock is telling is the last that its members have heard   *)
(* of the channel, or they have not heard it yet.  The second half keeps   *)
(* the account of the copies: which targets are served, and which are left.*)
(***************************************************************************)
EXTENDS Talk, FiniteSetTheorems, TLAPS

Words ==
  {"none", "PRIVMSG", "TOPIC", "KICK", "PART", "QUIT", "401", "404", "442", "ERROR"}

Lines ==
  [id : Nat, from : Clients \cup {NoOne}, what : Words, to : Clients \cup {Chan}]

Commands == [from : Clients, what : Words, list : Seq(Clients \cup {Chan})]

Places == {"idle", "next", "give", "echo", "quit", "lock", "tell", "refused", "out"}

(* The ranges of the variables.                                            *)
TypeOK ==
  /\ member \subseteq Clients /\ removed \subseteq Clients
  /\ mapLock \in Clients \cup {NoOne} /\ lock \in Clients \cup {NoOne}
  /\ pc \in [Clients -> Places]
  /\ line \in [Clients -> Lines]
  /\ targets \in [Clients -> Seq(Clients \cup {Chan})]
  /\ rest \in [Clients -> SUBSET Clients]
  /\ inbox \in [Clients -> Seq(Lines)]
  /\ asked \in Seq(Commands)

(* What a command works on, by where it is.                                *)
OwnLine(c) ==
  /\ line[c].from = c /\ line[c].id \leq Len(asked)
  /\ pc[c] \in {"next", "give"} => line[c].what = "PRIVMSG"
  /\ pc[c] = "give" => line[c].to \in Clients /\ targets[c] # <<>>
  /\ pc[c] = "echo" => line[c].what = "PART" /\ line[c].to = Chan
  /\ pc[c] = "quit" => line[c].what = "QUIT" /\ line[c].to = Chan
  /\ pc[c] = "out" => line[c].what \in {"PART", "QUIT"}
  /\ pc[c] \in {"lock", "tell", "refused"} =>
       /\ line[c].what \in {"PRIVMSG", "TOPIC", "KICK", "PART", "QUIT"}
       /\ IF line[c].what = "KICK" THEN line[c].to \in Clients ELSE line[c].to = Chan
       /\ line[c].what = "PRIVMSG" => targets[c] # <<>> /\ Head(targets[c]) = Chan

(* Who tells the members, or was refused, has the lock; who tells them is  *)
(* one of them, and tells no one else.                                     *)
UnderLock(c) ==
  /\ pc[c] \in {"tell", "refused"} => lock = c
  /\ pc[c] = "tell" => c \in member /\ rest[c] \subseteq member

Commanding == \A c \in Clients : OwnLine(c) /\ UnderLock(c)

(* A KICK that its victim or a member was told of: the victim is out, or   *)
(* the telling is still going on, and has passed who was told.             *)
Kicking(gone) == \E c \in Clients : pc[c] = "tell" /\ line[c] = gone

KickDone ==
  \A e \in Clients : \A i \in DOMAIN inbox[e] :
    inbox[e][i].what = "KICK" =>
      /\ inbox[e][i].from \in Clients
      /\ inbox[e][i].to \notin member \/ Kicking(inbox[e][i])

(* A PART or QUIT that was told of: its sender is out, or about to be.     *)
LeaveDone ==
  \A e \in Clients : \A i \in DOMAIN inbox[e] :
    LET gone == inbox[e][i]
    IN  ViaChan(e, gone) /\ gone.what \in {"PART", "QUIT"} =>
          \/ gone.from \notin member
          \/ pc[gone.from] \in {"tell", "out"} /\ line[gone.from] = gone

(* No list of targets has the channel twice.                               *)
Unrepeated ==
  \A list \in Lists : \A i, j \in DOMAIN list : list[i] = Chan /\ list[j] = Chan => i = j

(* The line that the client has for the channel goes there once.           *)
Once(c) == line[c].what # "PRIVMSG" \/ Unrepeated

(* e is still to be told of it.                                            *)
Ahead(c, e) ==
  \/ pc[c] \in {"echo", "quit", "lock"}
  \/ pc[c] = "tell" /\ e \in rest[c]
  \/ pc[c] \in {"next", "give"} /\ \E i \in DOMAIN targets[c] : targets[c][i] = Chan

(* The lines of a client come in the order of its commands, and one that   *)
(* is still to come is in no inbox.                                        *)
NotYetHeard ==
  \A c, e \in Clients : \A i \in DOMAIN inbox[e] :
    ViaChan(e, inbox[e][i]) /\ inbox[e][i].from = c =>
      /\ inbox[e][i].id \leq line[c].id
      /\ Once(c) /\ Ahead(c, e) => inbox[e][i].id < line[c].id

(* Of the targets that are left, at most one is the channel.               *)
OneTarget ==
  Unrepeated =>
    \A c \in Clients : \A i, j \in DOMAIN targets[c] :
      targets[c][i] = Chan /\ targets[c][j] = Chan => i = j

(* While the members are told, nothing of the channel comes after the line *)
(* that they are told.                                                     *)
LastHeard ==
  \A c, e \in Clients : \A i, j \in DOMAIN inbox[e] :
    /\ pc[c] = "tell" /\ Once(c) /\ i < j
    /\ inbox[e][i] = line[c] /\ ViaChan(e, line[c])
    => ~ ViaChan(e, inbox[e][j])

Ordered == Unrepeated => SameOrder

IInv ==
  /\ TypeOK /\ Commanding /\ KickDone /\ LeaveDone /\ NotYetHeard /\ OneTarget
  /\ LastHeard /\ KickedHearsNothing /\ LastWords /\ Ordered

------------------------------------------------------------------------------
Asks(c) ==
  \/ Speak(c) \/ Topic(c) \/ KickFind(c) \/ PartCheck(c) \/ Quit(c)

Works(c) ==
  \/ SpeakToChan(c) \/ SpeakToClient(c) \/ Give(c) \/ AllTargets(c) \/ PartEcho(c)
  \/ LeaveAllChannel(c)
  \/ Lock(c) \/ Tell(c) \/ Unlock(c) \/ Refused(c) \/ TakeOut(c)

(* Next, as the steps of one client.                                       *)
LEMMA NextSteps ==
  ASSUME Next
  PROVE  \E c \in Clients : Asks(c) \/ Works(c)
BY DEF Next, Asks, Works

(* A step of a client leaves the commands of the others where they are.    *)
LEMMA OthersFrame ==
  ASSUME TypeOK, NEW c \in Clients, Asks(c) \/ Works(c),
         NEW d \in Clients, d # c
  PROVE  /\ pc'[d] = pc[d] /\ line'[d] = line[d]
         /\ targets'[d] = targets[d] /\ rest'[d] = rest[d]
<1> USE DEF TypeOK, Goto, Begin, Onward, Target, locks
<1>1. CASE Asks(c)
  BY <1>1 DEF Asks, Speak, Topic, KickFind, PartCheck, Quit
<1>2. CASE SpeakToChan(c) \/ SpeakToClient(c)
  BY <1>2 DEF SpeakToChan, SpeakToClient
<1>3. CASE Give(c) \/ AllTargets(c)
  BY <1>3 DEF Give, AllTargets
<1>4. CASE PartEcho(c) \/ LeaveAllChannel(c) \/ Lock(c)
  BY <1>4 DEF PartEcho, LeaveAllChannel, Lock
<1>5. CASE Tell(c) \/ TakeOut(c)
  BY <1>5 DEF Tell, TakeOut
<1>6. CASE Unlock(c)
  BY <1>6 DEF Unlock
<1>7. CASE Refused(c)
  BY <1>7 DEF Refused
<1> QED BY <1>1, <1>2, <1>3, <1>4, <1>5, <1>6, <1>7 DEF Works

(* What an inbox holds after add_output.                                   *)
LEMMA AddFacts ==
  ASSUME TypeOK, NEW d \in Clients, NEW l \in Lines, AddOutput(d, l)
  PROVE  /\ inbox' \in [Clients -> Seq(Lines)]
         /\ \A e \in Clients : e # d => inbox'[e] = inbox[e]
         /\ DOMAIN inbox[d] = 1..Len(inbox[d])
         /\ DOMAIN inbox'[d] = 1..(Len(inbox[d]) + 1)
         /\ Len(inbox[d]) \in Nat
         /\ \A i \in 1..Len(inbox[d]) : inbox'[d][i] = inbox[d][i]
         /\ inbox'[d][Len(inbox[d]) + 1] = l
<1> DEFINE s == inbox[d]
<1>1. s \in Seq(Lines) BY DEF TypeOK
<1>2. inbox' = [inbox EXCEPT ![d] = Append(s, l)] BY DEF AddOutput
<1>3. inbox'[d] = Append(s, l) BY <1>2 DEF TypeOK
<1>4. \A e \in Clients : e # d => inbox'[e] = inbox[e] BY <1>2 DEF TypeOK
<1> HIDE DEF s
<1>5. Append(s, l) \in Seq(Lines) BY <1>1
<1>6. /\ DOMAIN s = 1..Len(s) /\ DOMAIN Append(s, l) = 1..(Len(s) + 1)
      /\ Len(s) \in Nat
      /\ \A i \in 1..Len(s) : Append(s, l)[i] = s[i]
      /\ Append(s, l)[Len(s) + 1] = l
  BY <1>1
<1>7. inbox' \in [Clients -> Seq(Lines)] BY <1>2, <1>5 DEF TypeOK
<1> QED BY <1>3, <1>4, <1>6, <1>7 DEF s

(* A reply is a line, to the client itself.                                *)
LEMMA ReplyFacts ==
  ASSUME TypeOK, NEW c \in Clients, NEW what \in Words, NEW to \in Clients \cup {Chan}
  PROVE  Line(line[c].id, NoOne, what, to) \in Lines
BY DEF TypeOK, Line, Lines

(* The targets that are left after the first.                              *)
LEMMA TailFacts ==
  ASSUME NEW S, NEW s \in Seq(S), s # <<>>
  PROVE  /\ Tail(s) \in Seq(S) /\ Head(s) = s[1] /\ 1 \in DOMAIN s /\ Head(s) \in S
         /\ DOMAIN Tail(s) = 1..(Len(s) - 1) /\ DOMAIN s = 1..Len(s) /\ Len(s) \in Nat
         /\ \A i \in DOMAIN Tail(s) : i + 1 \in DOMAIN s /\ Tail(s)[i] = s[i + 1]
OBVIOUS

(* The state after Begin, as far as the commands that begin agree.         *)
Begun(c, p, what, to, list) ==
  /\ member' = member /\ lock' = lock /\ mapLock' = mapLock
  /\ rest' = rest /\ inbox' = inbox
  /\ asked' \in Seq(Commands) /\ Len(asked') = Len(asked) + 1 /\ Len(asked) \in Nat
  /\ pc' \in [Clients -> Places] /\ line' \in [Clients -> Lines]
  /\ targets' \in [Clients -> Seq(Clients \cup {Chan})]
  /\ pc[c] = "idle" /\ pc'[c] = p /\ targets'[c] = list
  /\ line'[c].from = c /\ line'[c].id = Len(asked) + 1
  /\ line'[c].what = what /\ line'[c].to = to

(* What the beginning of a command sets.                                   *)
LEMMA AskFacts ==
  ASSUME TypeOK, NEW c \in Clients, Asks(c)
  PROVE  /\ member' = member /\ lock' = lock /\ mapLock' = mapLock
         /\ rest' = rest /\ inbox' = inbox
         /\ asked' \in Seq(Commands) /\ Len(asked') = Len(asked) + 1 /\ Len(asked) \in Nat
         /\ removed' \subseteq Clients
         /\ pc' \in [Clients -> Places] /\ line' \in [Clients -> Lines]
         /\ targets' \in [Clients -> Seq(Clients \cup {Chan})]
         /\ pc[c] = "idle"
         /\ line'[c].from = c /\ line'[c].id = Len(asked) + 1
         /\ \/ /\ pc'[c] = "next" /\ line'[c].what = "PRIVMSG"
               /\ targets'[c] \in Lists
            \/ /\ pc'[c] = "lock" /\ line'[c].what = "TOPIC" /\ line'[c].to = Chan
               /\ targets'[c] = <<>>
            \/ /\ pc'[c] = "lock" /\ line'[c].what = "KICK" /\ line'[c].to \in Clients
               /\ targets'[c] = <<>>
            \/ /\ pc'[c] = "echo" /\ line'[c].what = "PART" /\ line'[c].to = Chan
               /\ targets'[c] = <<>>
            \/ /\ pc'[c] = "quit" /\ line'[c].what = "QUIT" /\ line'[c].to = Chan
               /\ targets'[c] = <<>>
<1>0. {"next", "lock", "echo", "quit"} \subseteq Places /\ Chan \in Clients \cup {Chan}
      /\ {"PRIVMSG", "TOPIC", "KICK", "PART", "QUIT"} \subseteq Words
  BY DEF Places, Words
<1>1. ASSUME NEW p \in Places, NEW what \in Words, NEW to \in Clients \cup {Chan},
             NEW list \in Seq(Clients \cup {Chan}), Begin(c, p, what, to, list)
      PROVE  Begun(c, p, what, to, list)
  <2> DEFINE cmd == [from |-> c, what |-> what, list |-> list]
             l == Line(Len(asked'), c, what, to)
  <2>1. /\ asked' = Append(asked, cmd) /\ pc[c] = "idle"
        /\ pc' = [pc EXCEPT ![c] = p] /\ line' = [line EXCEPT ![c] = l]
        /\ targets' = [targets EXCEPT ![c] = list]
        /\ member' = member /\ lock' = lock /\ mapLock' = mapLock
        /\ rest' = rest /\ inbox' = inbox
    BY <1>1 DEF Begin, Goto, locks
  <2>2. cmd \in Commands BY DEF Commands
  <2> HIDE DEF cmd
  <2>3. /\ asked' \in Seq(Commands) /\ Len(asked') = Len(asked) + 1 /\ Len(asked) \in Nat
    BY <2>1, <2>2 DEF TypeOK
  <2>4. l \in Lines BY <2>3 DEF l, Line, Lines
  <2>5. l.from = c /\ l.id = Len(asked) + 1 /\ l.what = what /\ l.to = to
    BY <2>3 DEF l, Line
  <2> HIDE DEF l
  <2>6. pc'[c] = p /\ line'[c] = l /\ targets'[c] = list
    BY <2>1 DEF TypeOK
  <2>7. /\ pc' \in [Clients -> Places] /\ line' \in [Clients -> Lines]
        /\ targets' \in [Clients -> Seq(Clients \cup {Chan})]
    BY <2>1, <2>4 DEF TypeOK
  <2> QED BY <2>1, <2>3, <2>5, <2>6, <2>7 DEF Begun
<1>2. <<>> \in Seq(Clients \cup {Chan}) OBVIOUS
<1>3. removed \subseteq Clients BY DEF TypeOK
<1>4. CASE Speak(c)
  <2>1. PICK list \in Lists : Begin(c, "next", "PRIVMSG", Chan, list) /\ removed' = removed
    BY <1>4 DEF Speak
  <2>2. list \in Seq(Clients \cup {Chan}) BY TalkAssumption
  <2>3. Begun(c, "next", "PRIVMSG", Chan, list) BY <1>0, <1>1, <2>1, <2>2
  <2> QED BY <1>3, <2>1, <2>3 DEF Begun
<1>5. CASE Topic(c)
  <2>1. Begin(c, "lock", "TOPIC", Chan, <<>>) /\ removed' = removed BY <1>5 DEF Topic
  <2>2. Begun(c, "lock", "TOPIC", Chan, <<>>) BY <1>0, <1>1, <1>2, <2>1
  <2> QED BY <1>3, <2>1, <2>2 DEF Begun
<1>6. CASE KickFind(c)
  <2>1. PICK d \in Clients : Begin(c, "lock", "KICK", d, <<>>) /\ removed' = removed
    BY <1>6 DEF KickFind
  <2>2. Begun(c, "lock", "KICK", d, <<>>) BY <1>0, <1>1, <1>2, <2>1
  <2> QED BY <1>3, <2>1, <2>2 DEF Begun
<1>7. CASE PartCheck(c)
  <2>1. Begin(c, "echo", "PART", Chan, <<>>) /\ removed' = removed BY <1>7 DEF PartCheck
  <2>2. Begun(c, "echo", "PART", Chan, <<>>) BY <1>0, <1>1, <1>2, <2>1
  <2> QED BY <1>3, <2>1, <2>2 DEF Begun
<1>8. CASE Quit(c)
  <2>1. Begin(c, "quit", "QUIT", Chan, <<>>) /\ removed' = removed \cup {c} BY <1>8 DEF Quit
  <2>2. Begun(c, "quit", "QUIT", Chan, <<>>) BY <1>0, <1>1, <1>2, <2>1
  <2> QED BY <1>3, <2>1, <2>2 DEF Begun
<1> QED BY <1>4, <1>5, <1>6, <1>7, <1>8 DEF Asks

(* Every step keeps the ranges.                                            *)
LEMMA TypeStep ==
  ASSUME TypeOK, Commanding, NEW c \in Clients, Asks(c) \/ Works(c)
  PROVE  TypeOK'
<1> USE DEF Goto, locks
<1>1. CASE Asks(c)
  BY <1>1, AskFacts DEF TypeOK
<1>2. ASSUME targets[c] # <<>>, Onward(c)
      PROVE  targets' \in [Clients -> Seq(Clients \cup {Chan})]
  <2> DEFINE s == targets[c]
  <2>1. s \in Seq(Clients \cup {Chan}) BY DEF TypeOK
  <2>2. targets' = [targets EXCEPT ![c] = Tail(s)] BY <1>2 DEF Onward
  <2>3. Tail(s) \in Seq(Clients \cup {Chan}) BY <2>1, <1>2, TailFacts
  <2> QED BY <2>2, <2>3 DEF TypeOK
<1>3. ASSUME NEW what \in Words, NEW to \in Clients \cup {Chan}, ReplySend(c, what, to)
      PROVE  inbox' \in [Clients -> Seq(Lines)]
  <2>1. Line(line[c].id, NoOne, what, to) \in Lines BY ReplyFacts
  <2> QED BY <1>3, <2>1, AddFacts DEF ReplySend
<1>4. ASSUME NEW d \in Clients, AddOutput(d, line[c])
      PROVE  inbox' \in [Clients -> Seq(Lines)]
  <2>1. line[c] \in Lines BY DEF TypeOK
  <2> QED BY <1>4, <2>1, AddFacts
<1>5. ASSUME NEW t \in Clients \cup {Chan}, line' = [line EXCEPT ![c].to = t]
      PROVE  line' \in [Clients -> Lines]
  <2>0. line[c] \in Lines BY DEF TypeOK
  <2>1. [line[c] EXCEPT !.to = t] \in Lines BY <2>0 DEF Lines
  <2>2. line' = [line EXCEPT ![c] = [line[c] EXCEPT !.to = t]] BY <1>5
  <2> QED BY <2>1, <2>2 DEF TypeOK
<1>6. CASE SpeakToChan(c)
  <2>1. line' \in [Clients -> Lines] BY <1>5, <1>6 DEF SpeakToChan, Target
  <2>2. CASE Goto(c, "lock") /\ targets' = targets /\ inbox' = inbox
    BY <1>6, <2>1, <2>2 DEF SpeakToChan, Target, TypeOK, Places
  <2>3. CASE ReplySend(c, "404", Chan) /\ Onward(c) /\ pc' = pc
    <3>1. inbox' \in [Clients -> Seq(Lines)] BY <2>3, <1>3 DEF Words
    <3>2. targets' \in [Clients -> Seq(Clients \cup {Chan})]
      BY <1>2, <1>6, <2>3 DEF SpeakToChan, Target
    <3> QED BY <1>6, <2>1, <2>3, <3>1, <3>2 DEF SpeakToChan, Target, TypeOK
  <2> QED BY <1>6, <2>2, <2>3 DEF SpeakToChan
<1>7. CASE SpeakToClient(c)
  <2>1. PICK d \in Clients :
          /\ Target(c, d)
          /\ \/ d \notin removed /\ Goto(c, "give") /\ UNCHANGED <<targets, inbox>>
             \/ d \in removed /\ ReplySend(c, "401", d) /\ Onward(c) /\ UNCHANGED pc
    BY <1>7 DEF SpeakToClient
  <2>2. line' \in [Clients -> Lines] BY <1>5, <2>1 DEF Target
  <2>3. CASE Goto(c, "give") /\ targets' = targets /\ inbox' = inbox
    BY <2>1, <2>2, <2>3 DEF Target, TypeOK, Places
  <2>4. CASE ReplySend(c, "401", d) /\ Onward(c) /\ pc' = pc
    <3>1. inbox' \in [Clients -> Seq(Lines)] BY <2>4, <1>3 DEF Words
    <3>2. targets' \in [Clients -> Seq(Clients \cup {Chan})]
      BY <1>2, <2>1, <2>4 DEF Target
    <3> QED BY <2>1, <2>2, <2>4, <3>1, <3>2 DEF Target, TypeOK
  <2> QED BY <2>1, <2>3, <2>4
<1>8. CASE Give(c)
  <2>0. line[c].to \in Clients /\ targets[c] # <<>>
    BY <1>8 DEF Give, Commanding, OwnLine
  <2>1. inbox' \in [Clients -> Seq(Lines)] BY <1>4, <1>8, <2>0 DEF Give
  <2> QED BY <1>2, <1>8, <2>0, <2>1 DEF Give, TypeOK, Places
<1>9. CASE AllTargets(c)
  BY <1>9 DEF AllTargets, TypeOK, Places
<1>10. CASE PartEcho(c)
  BY <1>4, <1>10 DEF PartEcho, TypeOK, Places
<1>11. CASE LeaveAllChannel(c)
  BY <1>11 DEF LeaveAllChannel, TypeOK, Places
<1>12. CASE Lock(c)
  <2>1. Told(c) \subseteq Clients BY DEF Told, TypeOK
  <2>2. /\ pc' \in [Clients -> Places] /\ rest' \in [Clients -> SUBSET Clients]
    <3>1. CASE rest' = [rest EXCEPT ![c] = Told(c)] /\ Goto(c, "tell")
      BY <2>1, <3>1 DEF TypeOK, Places
    <3>2. CASE rest' = rest /\ Goto(c, "refused")
      BY <3>2 DEF TypeOK, Places
    <3> QED BY <3>1, <3>2, <1>12 DEF Lock
  <2>3. mapLock' \in Clients \cup {NoOne} /\ lock' \in Clients \cup {NoOne}
    BY <1>12 DEF Lock, TypeOK
  <2> QED BY <1>12, <2>2, <2>3 DEF Lock, TypeOK
<1>13. CASE Tell(c)
  <2>1. PICK d \in rest[c] :
          AddOutput(d, line[c]) /\ rest' = [rest EXCEPT ![c] = @ \ {d}]
    BY <1>13 DEF Tell
  <2>2. d \in Clients BY <2>1 DEF TypeOK
  <2>3. inbox' \in [Clients -> Seq(Lines)] BY <1>4, <2>1, <2>2
  <2>4. rest' \in [Clients -> SUBSET Clients] BY <2>1 DEF TypeOK
  <2> QED BY <1>13, <2>3, <2>4 DEF Tell, TypeOK
<1>14. After(line[c].what) \in Places BY DEF After, Places
<1>15. CASE Unlock(c)
  <2>1. targets' \in [Clients -> Seq(Clients \cup {Chan})]
    BY <1>2, <1>15 DEF Unlock, Commanding, OwnLine, TypeOK
  <2>2. pc' \in [Clients -> Places] BY <1>14, <1>15 DEF Unlock, TypeOK
  <2> QED BY <1>15, <2>1, <2>2 DEF Unlock, TypeOK
<1>16. CASE Refused(c)
  <2>1. targets' \in [Clients -> Seq(Clients \cup {Chan})]
    BY <1>2, <1>16 DEF Refused, Commanding, OwnLine, TypeOK
  <2>2. pc' \in [Clients -> Places] BY <1>14, <1>16 DEF Refused, TypeOK
  <2>3. Refusal(line[c].what) \subseteq Words BY DEF Refusal, Words
  <2>4. inbox' \in [Clients -> Seq(Lines)]
    BY <1>3, <1>16, <2>3 DEF Refused, TypeOK
  <2> QED BY <1>16, <2>1, <2>2, <2>4 DEF Refused, TypeOK
<1>17. CASE TakeOut(c)
  <2>1. Line(line[c].id, NoOne, "ERROR", c) \in Lines BY ReplyFacts DEF Words
  <2>2. inbox' \in [Clients -> Seq(Lines)]
    BY <1>17, <2>1, AddFacts DEF TakeOut, TypeOK
  <2> QED BY <1>17, <2>2 DEF TakeOut, TypeOK, Places
<1> QED BY <1>1, <1>6, <1>7, <1>8, <1>9, <1>10, <1>11, <1>12, <1>13, <1>15, <1>16, <1>17
        DEF Works

(* The commands of a client at work are counted already.                   *)
LEMMA WorksAsked ==
  ASSUME NEW c \in Clients, Works(c)
  PROVE  asked' = asked
<1> USE DEF Target
<1>1. CASE SpeakToChan(c) \/ SpeakToClient(c) \/ Give(c) \/ AllTargets(c)
  BY <1>1 DEF SpeakToChan, SpeakToClient, Give, AllTargets
<1>2. CASE PartEcho(c) \/ LeaveAllChannel(c) \/ Lock(c) \/ Tell(c)
  BY <1>2 DEF PartEcho, LeaveAllChannel, Lock, Tell
<1>3. CASE Unlock(c)
  BY <1>3 DEF Unlock
<1>4. CASE Refused(c)
  BY <1>4 DEF Refused
<1>5. CASE TakeOut(c)
  BY <1>5 DEF TakeOut
<1> QED BY <1>1, <1>2, <1>3, <1>4, <1>5 DEF Works

(* Who leaves the channel and who takes its lock: only when nobody else    *)
(* has the lock.                                                           *)
LEMMA LockFrame ==
  ASSUME TypeOK, Commanding, NEW c \in Clients, Asks(c) \/ Works(c)
  PROVE  /\ member' \subseteq member
         /\ lock # NoOne /\ lock # c => lock' = lock /\ member' = member
         /\ lock' \in {lock, NoOne, c}
         /\ member' # member =>
              /\ pc'[c] \notin {"tell", "refused"}
              /\ \/ TakeOut(c) /\ member' = member \ {c}
                 \/ /\ Unlock(c) /\ pc[c] = "tell" /\ line[c].what = "KICK"
                    /\ member' = member \ {line[c].to}
<1> USE DEF Target, locks
<1>1. CASE Asks(c)
  BY <1>1, AskFacts
<1>2. CASE SpeakToChan(c) \/ SpeakToClient(c) \/ Give(c) \/ AllTargets(c)
  BY <1>2 DEF SpeakToChan, SpeakToClient, Give, AllTargets
<1>3. CASE PartEcho(c) \/ LeaveAllChannel(c) \/ Tell(c)
  BY <1>3 DEF PartEcho, LeaveAllChannel, Tell
<1>4. CASE Lock(c)
  BY <1>4 DEF Lock, FreeFor
<1>5. CASE Unlock(c)
  <2>1. pc'[c] = After(line[c].what) BY <1>5 DEF Unlock, Goto, TypeOK
  <2>2. pc'[c] \notin {"tell", "refused"} BY <2>1 DEF After
  <2>3. lock = c BY <1>5 DEF Unlock, Commanding, UnderLock
  <2> QED BY <1>5, <2>2, <2>3 DEF Unlock, LeftUnder
<1>6. CASE Refused(c)
  BY <1>6 DEF Refused, Commanding, UnderLock
<1>7. CASE TakeOut(c)
  BY <1>7 DEF TakeOut, Goto, TypeOK
<1> QED BY <1>1, <1>2, <1>3, <1>4, <1>5, <1>6, <1>7 DEF Works

(* Every step keeps a command and its lock together.                       *)
LEMMA CommandingStep ==
  ASSUME TypeOK, Commanding, NEW c \in Clients, Asks(c) \/ Works(c)
  PROVE  Commanding'
<1>1. TypeOK' BY TypeStep
<1>2. Len(asked) \in Nat /\ Len(asked') \in Nat /\ Len(asked) \leq Len(asked')
  <2>1. CASE Asks(c) BY <2>1, AskFacts
  <2>2. CASE Works(c) BY <2>2, WorksAsked DEF TypeOK
  <2> QED BY <2>1, <2>2
<1>3. ASSUME NEW d \in Clients, d # c
      PROVE  OwnLine(d)' /\ UnderLock(d)'
  <2>1. /\ pc'[d] = pc[d] /\ line'[d] = line[d]
        /\ targets'[d] = targets[d] /\ rest'[d] = rest[d]
    BY <1>3, OthersFrame
  <2>2. OwnLine(d) /\ UnderLock(d) BY DEF Commanding
  <2>3. line[d].id \in Nat BY DEF TypeOK, Lines
  <2>4. OwnLine(d)' BY <2>1, <2>2, <2>3, <1>2 DEF OwnLine
  <2>5. UnderLock(d)'
    BY <2>1, <2>2, <1>3, LockFrame, TalkAssumption DEF UnderLock
  <2> QED BY <2>4, <2>5
<1>4. OwnLine(c) /\ UnderLock(c) BY DEF Commanding
<1>5. CASE Asks(c)
  <2>1. OwnLine(c)' BY <1>2, <1>5, AskFacts DEF OwnLine
  <2>2. UnderLock(c)' BY <1>5, AskFacts DEF UnderLock
  <2> QED BY <1>3, <2>1, <2>2 DEF Commanding
<1>6. CASE Works(c)
  <2>0. /\ pc \in [Clients -> Places] /\ line \in [Clients -> Lines]
        /\ rest \in [Clients -> SUBSET Clients] /\ asked' = asked
        /\ targets \in [Clients -> Seq(Clients \cup {Chan})]
    BY <1>6, WorksAsked DEF TypeOK
  <2> USE DEF Goto
  <2>1. CASE SpeakToChan(c)
    <3>1. line'[c] = [line[c] EXCEPT !.to = Chan]
      BY <2>0, <2>1 DEF SpeakToChan, Target
    <3>2. /\ line'[c].from = c /\ line'[c].id = line[c].id
          /\ line'[c].what = "PRIVMSG" /\ line'[c].to = Chan
      BY <3>1, <1>4, <2>0, <2>1 DEF SpeakToChan, Target, OwnLine, Lines
    <3>3. \/ pc'[c] = "lock" /\ targets'[c] = targets[c]
          \/ pc'[c] = "next"
      BY <2>0, <2>1 DEF SpeakToChan, Target
    <3>4. targets[c] # <<>> /\ Head(targets[c]) = Chan
      BY <2>1 DEF SpeakToChan, Target
    <3>5. OwnLine(c)' BY <1>4, <2>0, <3>2, <3>3, <3>4 DEF OwnLine
    <3>6. UnderLock(c)' BY <3>3 DEF UnderLock
    <3> QED BY <1>3, <3>5, <3>6 DEF Commanding
  <2>2. CASE SpeakToClient(c)
    <3>0. PICK d \in Clients :
          /\ Target(c, d)
          /\ \/ d \notin removed /\ pc' = [pc EXCEPT ![c] = "give"] /\ targets' = targets
             \/ d \in removed /\ pc' = pc
      BY <2>2 DEF SpeakToClient
    <3>1. line'[c] = [line[c] EXCEPT !.to = d]
      BY <2>0, <3>0 DEF Target
    <3>2. /\ line'[c].from = c /\ line'[c].id = line[c].id
          /\ line'[c].what = "PRIVMSG" /\ line'[c].to = d
      BY <3>0, <3>1, <1>4, <2>0 DEF Target, OwnLine, Lines
    <3>3. \/ pc'[c] = "give" /\ targets'[c] = targets[c]
          \/ pc'[c] = "next"
      BY <2>0, <3>0 DEF Target
    <3>4. targets[c] # <<>> BY <3>0 DEF Target
    <3>5. OwnLine(c)' BY <1>4, <2>0, <3>2, <3>3, <3>4 DEF OwnLine
    <3>6. UnderLock(c)' BY <3>3 DEF UnderLock
    <3> QED BY <1>3, <3>5, <3>6 DEF Commanding
  <2>3. CASE Give(c)
    <3>1. pc'[c] = "next" /\ pc[c] = "give" /\ line'[c] = line[c]
      BY <2>0, <2>3 DEF Give
    <3>2. OwnLine(c)' /\ UnderLock(c)' BY <1>4, <2>0, <3>1 DEF OwnLine, UnderLock
    <3> QED BY <1>3, <3>2 DEF Commanding
  <2>4. CASE AllTargets(c)
    <3>1. pc'[c] = "idle" /\ line'[c] = line[c]
      BY <2>0, <2>4 DEF AllTargets
    <3>2. OwnLine(c)' /\ UnderLock(c)' BY <1>4, <2>0, <3>1 DEF OwnLine, UnderLock
    <3> QED BY <1>3, <3>2 DEF Commanding
  <2>5. CASE PartEcho(c) \/ LeaveAllChannel(c)
    <3>1. pc'[c] = "lock" /\ pc[c] \in {"echo", "quit"} /\ line'[c] = line[c]
      BY <2>0, <2>5 DEF PartEcho, LeaveAllChannel
    <3>2. OwnLine(c)' /\ UnderLock(c)' BY <1>4, <2>0, <3>1 DEF OwnLine, UnderLock
    <3> QED BY <1>3, <3>2 DEF Commanding
  <2>6. CASE Lock(c)
    <3>1. /\ pc[c] = "lock" /\ line'[c] = line[c] /\ targets'[c] = targets[c]
          /\ lock' = c /\ member' = member
          /\ \/ /\ MaySend(c) /\ pc'[c] = "tell" /\ rest'[c] = Told(c)
             \/ pc'[c] = "refused"
      BY <2>0, <2>6 DEF Lock
    <3>2. OwnLine(c)' BY <1>4, <2>0, <3>1 DEF OwnLine
    <3>3. UnderLock(c)' BY <3>1 DEF UnderLock, MaySend, Told
    <3> QED BY <1>3, <3>2, <3>3 DEF Commanding
  <2>7. CASE Tell(c)
    <3>1. /\ pc'[c] = pc[c] /\ line'[c] = line[c] /\ targets'[c] = targets[c]
          /\ lock' = lock /\ member' = member /\ rest'[c] \subseteq rest[c]
      BY <2>0, <2>7 DEF Tell, locks
    <3>2. OwnLine(c)' /\ UnderLock(c)' BY <1>4, <2>0, <3>1 DEF OwnLine, UnderLock
    <3> QED BY <1>3, <3>2 DEF Commanding
  <2>8. CASE Unlock(c) \/ Refused(c)
    <3>1. pc'[c] = After(line[c].what) /\ line'[c] = line[c] /\ pc[c] \in {"tell", "refused"}
      BY <2>0, <2>8 DEF Unlock, Refused
    <3>2. OwnLine(c)' /\ UnderLock(c)'
      BY <1>4, <2>0, <3>1 DEF OwnLine, UnderLock, After
    <3> QED BY <1>3, <3>2 DEF Commanding
  <2>9. CASE TakeOut(c)
    <3>1. pc'[c] = "idle" /\ line'[c] = line[c]
      BY <2>0, <2>9 DEF TakeOut
    <3>2. OwnLine(c)' /\ UnderLock(c)' BY <1>4, <2>0, <3>1 DEF OwnLine, UnderLock
    <3> QED BY <1>3, <3>2 DEF Commanding
  <2> QED BY <1>6, <2>1, <2>2, <2>3, <2>4, <2>5, <2>6, <2>7, <2>8, <2>9 DEF Works
<1> QED BY <1>5, <1>6

------------------------------------------------------------------------------
(* What a step at work does to the line and the targets of its client.     *)
LEMMA OwnFrame ==
  ASSUME TypeOK, Commanding, NEW c \in Clients, Works(c)
  PROVE  /\ line'[c].from = c /\ line'[c].id = line[c].id
         /\ pc[c] # "idle" /\ line'[c].what = line[c].what
         /\ pc'[c] = "tell" =>
              line'[c] = line[c] /\ targets'[c] = targets[c] /\ pc[c] \in {"lock", "tell"}
         /\ pc'[c] = "tell" /\ pc[c] = "tell" => rest'[c] \subseteq rest[c]
         /\ pc'[c] \in {"echo", "quit"} => pc[c] = pc'[c]
         /\ pc'[c] = "lock" =>
              \/ pc[c] \in {"echo", "quit"}
              \/ pc[c] = "next" /\ targets[c] # <<>> /\ Head(targets[c]) = Chan
         /\ pc'[c] \in {"next", "give"} =>
              \/ pc[c] = "next" /\ targets'[c] = targets[c]
              \/ /\ pc[c] \in {"next", "give", "tell", "refused"}
                 /\ targets[c] # <<>> /\ targets'[c] = Tail(targets[c])
<1> USE DEF Goto, Onward, Target
<1>0. /\ pc \in [Clients -> Places] /\ line \in [Clients -> Lines]
      /\ rest \in [Clients -> SUBSET Clients]
      /\ targets \in [Clients -> Seq(Clients \cup {Chan})]
      /\ OwnLine(c)
  BY DEF TypeOK, Commanding
<1>1. CASE SpeakToChan(c)
  BY <1>0, <1>1 DEF SpeakToChan, OwnLine, Lines
<1>2. CASE SpeakToClient(c)
  BY <1>0, <1>2 DEF SpeakToClient, OwnLine, Lines
<1>3. CASE Give(c)
  BY <1>0, <1>3 DEF Give, OwnLine
<1>4. CASE AllTargets(c)
  BY <1>0, <1>4 DEF AllTargets, OwnLine
<1>5. CASE PartEcho(c) \/ LeaveAllChannel(c)
  BY <1>0, <1>5 DEF PartEcho, LeaveAllChannel, OwnLine
<1>6. CASE Lock(c)
  BY <1>0, <1>6 DEF Lock, OwnLine
<1>7. CASE Tell(c)
  BY <1>0, <1>7 DEF Tell, OwnLine
<1>8. CASE Unlock(c)
  <2>1. /\ pc[c] = "tell" /\ pc'[c] = After(line[c].what) /\ line'[c] = line[c]
        /\ line[c].what = "PRIVMSG" => targets'[c] = Tail(targets[c])
    BY <1>0, <1>8 DEF Unlock
  <2> QED BY <1>0, <2>1 DEF OwnLine, After
<1>9. CASE Refused(c)
  <2>1. /\ pc[c] = "refused" /\ pc'[c] = After(line[c].what) /\ line'[c] = line[c]
        /\ line[c].what = "PRIVMSG" => targets'[c] = Tail(targets[c])
    BY <1>0, <1>9 DEF Refused
  <2> QED BY <1>0, <2>1 DEF OwnLine, After
<1>10. CASE TakeOut(c)
  BY <1>0, <1>10 DEF TakeOut, OwnLine
<1> QED BY <1>1, <1>2, <1>3, <1>4, <1>5, <1>6, <1>7, <1>8, <1>9, <1>10 DEF Works

(* The channel is no second time among the targets that are left.          *)
LEMMA OneTargetStep ==
  ASSUME TypeOK, Commanding, OneTarget, NEW c \in Clients, Asks(c) \/ Works(c)
  PROVE  OneTarget'
<1> SUFFICES ASSUME Unrepeated, NEW d \in Clients
             PROVE  \A i, j \in DOMAIN targets'[d] :
                      targets'[d][i] = Chan /\ targets'[d][j] = Chan => i = j
  BY DEF OneTarget, Unrepeated
<1>1. CASE targets'[d] = targets[d]
  BY <1>1 DEF OneTarget
<1>2. CASE targets'[d] \in Lists
  BY <1>2 DEF Unrepeated
<1>3. CASE targets'[d] = <<>>
  BY <1>3
<1>4. CASE targets[d] # <<>> /\ targets'[d] = Tail(targets[d])
  <2> DEFINE s == targets[d]
  <2>1. s \in Seq(Clients \cup {Chan}) /\ s # <<>> BY <1>4 DEF TypeOK
  <2>2. \A i, j \in DOMAIN s : s[i] = Chan /\ s[j] = Chan => i = j BY DEF OneTarget
  <2>3. targets'[d] = Tail(s) BY <1>4
  <2> HIDE DEF s
  <2>4. \A i \in DOMAIN Tail(s) : i \in Nat /\ i + 1 \in DOMAIN s /\ Tail(s)[i] = s[i + 1]
    BY <2>1, TailFacts
  <2> QED BY <2>2, <2>3, <2>4
<1>5. CASE d # c
  BY <1>1, <1>5, OthersFrame
<1>6. CASE d = c /\ Asks(c)
  <2>1. targets'[d] \in Lists \/ targets'[d] = <<>> BY <1>6, AskFacts
  <2> QED BY <1>2, <1>3, <2>1
<1>7. CASE d = c /\ Works(c)
  <2>0. OwnLine(c) /\ targets \in [Clients -> Seq(Clients \cup {Chan})]
    BY DEF Commanding, TypeOK
  <2> DEFINE Shorter == \/ targets'[c] = targets[c]
                        \/ targets[c] # <<>> /\ targets'[c] = Tail(targets[c])
  <2>1. ASSUME SpeakToChan(c) \/ SpeakToClient(c)
        PROVE  Shorter
    BY <2>0, <2>1 DEF SpeakToChan, SpeakToClient, Target, Onward
  <2>2. ASSUME Give(c)
        PROVE  Shorter
    BY <2>0, <2>2 DEF Give, Onward, OwnLine
  <2>3. ASSUME AllTargets(c) \/ PartEcho(c) \/ LeaveAllChannel(c)
        PROVE  Shorter
    BY <2>3 DEF AllTargets, PartEcho, LeaveAllChannel
  <2>4. ASSUME Lock(c) \/ Tell(c) \/ TakeOut(c)
        PROVE  Shorter
    BY <2>4 DEF Lock, Tell, TakeOut
  <2>5. ASSUME Unlock(c)
        PROVE  Shorter
    BY <2>0, <2>5 DEF Unlock, Onward, OwnLine
  <2>6. ASSUME Refused(c)
        PROVE  Shorter
    BY <2>0, <2>6 DEF Refused, Onward, OwnLine
  <2>7. Shorter
    BY <1>7, <2>1, <2>2, <2>3, <2>4, <2>5, <2>6 DEF Works
  <2> QED BY <1>1, <1>4, <1>7, <2>7
<1> QED BY <1>5, <1>6, <1>7

(* What is still to come after a step at work was so before it.            *)
LEMMA AheadStep ==
  ASSUME TypeOK, Commanding, OneTarget, NEW c \in Clients, Works(c), NEW e \in Clients,
         Once(c)', Ahead(c, e)'
  PROVE  Once(c) /\ Ahead(c, e)
<1>0. Commanding' /\ OwnLine(c) /\ OwnLine(c)' BY CommandingStep DEF Commanding
<1>1. Once(c) BY OwnFrame DEF Once
<1>2. CASE pc'[c] \in {"echo", "quit", "lock"}
  <2> DEFINE s == targets[c]
  <2>1. CASE pc[c] = "next" /\ s # <<>> /\ Head(s) = Chan
    <3>1. s \in Seq(Clients \cup {Chan}) BY DEF TypeOK
    <3>2. 1 \in DOMAIN s /\ s[1] = Chan BY <2>1, <3>1, TailFacts
    <3> QED BY <2>1, <3>2, <1>1 DEF Ahead
  <2>2. CASE pc[c] \in {"echo", "quit"} BY <2>2, <1>1 DEF Ahead
  <2> QED BY <1>2, <2>1, <2>2, OwnFrame DEF Ahead
<1>3. CASE pc'[c] = "tell" /\ e \in rest'[c]
  BY <1>1, <1>3, OwnFrame DEF Ahead
<1>4. CASE pc'[c] \in {"next", "give"} /\ \E i \in DOMAIN targets'[c] : targets'[c][i] = Chan
  <2>1. CASE pc[c] = "next" /\ targets'[c] = targets[c]
    BY <1>1, <1>4, <2>1 DEF Ahead
  <2>2. CASE /\ pc[c] \in {"next", "give", "tell", "refused"}
             /\ targets[c] # <<>> /\ targets'[c] = Tail(targets[c])
    <3> DEFINE s == targets[c]
    <3>1. s \in Seq(Clients \cup {Chan}) /\ s # <<>> BY <2>2 DEF TypeOK
    <3>2. \A i \in DOMAIN Tail(s) :
            i \in Nat /\ i # 0 /\ i + 1 \in DOMAIN s /\ Tail(s)[i] = s[i + 1]
      <4> HIDE DEF s
      <4> QED BY <3>1, TailFacts
    <3>3. PICK i \in DOMAIN Tail(s) : Tail(s)[i] = Chan BY <1>4, <2>2
    <3>4. i \in Nat /\ i # 0 /\ i + 1 \in DOMAIN s /\ s[i + 1] = Chan BY <3>2, <3>3
    <3>5. CASE pc[c] \in {"next", "give"}
      BY <1>1, <3>4, <3>5 DEF Ahead
    <3>6. CASE pc[c] \in {"tell", "refused"}
      <4>1. line'[c].what = "PRIVMSG" BY <1>0, <1>4 DEF OwnLine
      <4>2. line[c].what = "PRIVMSG" BY <4>1, OwnFrame
      <4>3. Unrepeated BY <1>1, <4>2 DEF Once
      <4>4. Head(s) = Chan BY <1>0, <3>6, <4>2 DEF OwnLine
      <4>5. 1 \in DOMAIN s /\ s[1] = Chan
        <5> HIDE DEF s
        <5> QED BY <4>4, <3>1, TailFacts
      <4>6. i + 1 = 1 BY <4>3, <4>5, <3>4 DEF OneTarget
      <4> QED BY <4>6, <3>4
    <3> QED BY <2>2, <3>5, <3>6
  <2> QED BY <1>4, <2>1, <2>2, OwnFrame
<1> QED BY <1>2, <1>3, <1>4 DEF Ahead

------------------------------------------------------------------------------
(* The lines that the invariant speaks of: those of the channel, and KICK. *)
Matters(e, l) == l.what = "KICK" \/ ViaChan(e, l)

(* The step adds none of them to an inbox.                                 *)
Quiet ==
  \A e \in Clients : \A i \in DOMAIN inbox'[e] :
    Matters(e, inbox'[e][i]) => i \in DOMAIN inbox[e] /\ inbox'[e][i] = inbox[e][i]

(* A line that does not matter was added.                                  *)
LEMMA QuietAdd ==
  ASSUME TypeOK, NEW d \in Clients, NEW l \in Lines, AddOutput(d, l), ~ Matters(d, l)
  PROVE  Quiet
<1> SUFFICES ASSUME NEW e \in Clients, NEW i \in DOMAIN inbox'[e], Matters(e, inbox'[e][i])
             PROVE  i \in DOMAIN inbox[e] /\ inbox'[e][i] = inbox[e][i]
  BY DEF Quiet
<1>1. CASE e # d
  BY <1>1, AddFacts
<1>2. CASE e = d
  <2>1. i \in 1..(Len(inbox[d]) + 1) /\ Len(inbox[d]) \in Nat BY <1>2, AddFacts
  <2>2. i # Len(inbox[d]) + 1 BY <1>2, AddFacts
  <2>3. i \in 1..Len(inbox[d]) BY <2>1, <2>2
  <2> QED BY <1>2, <2>3, AddFacts
<1> QED BY <1>1, <1>2

(* Only what is told under the lock is of the channel.                     *)
LEMMA QuietStep ==
  ASSUME TypeOK, Commanding, NEW c \in Clients, Asks(c) \/ Works(c), ~ Tell(c)
  PROVE  Quiet
<1> USE DEF Target
<1>1. CASE inbox' = inbox
  BY <1>1 DEF Quiet
<1>2. ASSUME NEW what \in Words \ {"KICK"}, NEW to \in Clients \cup {Chan}, ReplySend(c, what, to)
      PROVE  Quiet
  <2>1. ~ Matters(c, Line(line[c].id, NoOne, what, to)) BY DEF Matters, ViaChan, Line
  <2> QED BY <2>1, <1>2, ReplyFacts, QuietAdd DEF ReplySend
<1>3. CASE Asks(c)
  BY <1>1, <1>3, AskFacts
<1>4. CASE SpeakToChan(c)
  BY <1>1, <1>2, <1>4 DEF SpeakToChan, Words
<1>5. CASE SpeakToClient(c)
  BY <1>1, <1>2, <1>5 DEF SpeakToClient, Words
<1>6. CASE Give(c)
  <2>1. line[c].what = "PRIVMSG" /\ line[c].to \in Clients
    BY <1>6 DEF Give, Commanding, OwnLine
  <2>2. ~ Matters(line[c].to, line[c]) BY <2>1, TalkAssumption DEF Matters, ViaChan
  <2> QED BY <1>6, <2>1, <2>2, QuietAdd DEF Give, TypeOK
<1>7. CASE AllTargets(c) \/ LeaveAllChannel(c) \/ Lock(c)
  BY <1>1, <1>7 DEF AllTargets, LeaveAllChannel, Lock
<1>8. CASE PartEcho(c)
  <2>1. line[c].what = "PART" /\ line[c].from = c
    BY <1>8 DEF PartEcho, Commanding, OwnLine
  <2>2. ~ Matters(c, line[c]) BY <2>1 DEF Matters, ViaChan
  <2> QED BY <1>8, <2>2, QuietAdd DEF PartEcho, TypeOK
<1>9. CASE Unlock(c)
  BY <1>1, <1>9 DEF Unlock
<1>10. CASE Refused(c)
  <2>1. Refusal(line[c].what) \subseteq Words \ {"KICK"} BY DEF Refusal, Words
  <2> QED BY <1>1, <1>2, <1>10, <2>1 DEF Refused
<1>11. CASE TakeOut(c)
  <2>1. CASE AddOutput(c, Line(line[c].id, NoOne, "ERROR", c))
    BY <1>2, <2>1 DEF ReplySend, Words
  <2> QED BY <1>1, <1>11, <2>1 DEF TakeOut
<1> QED BY <1>3, <1>4, <1>5, <1>6, <1>7, <1>8, <1>9, <1>10, <1>11 DEF Works

(* One more member was told: nobody else was telling, and the member had   *)
(* no copy of the line.                                                    *)
LEMMA TellFacts ==
  ASSUME TypeOK, Commanding, NotYetHeard, NEW c \in Clients, Tell(c)
  PROVE  /\ pc' = pc /\ line' = line /\ member' = member
         /\ pc[c] = "tell" /\ lock = c /\ c \in member
         /\ line[c].from = c
         /\ \A d \in Clients : pc[d] = "tell" => d = c
         /\ \E d \in Clients :
              /\ d \in rest[c] /\ d \in member /\ rest'[c] = rest[c] \ {d}
              /\ \A e \in Clients : e # d => inbox'[e] = inbox[e]
              /\ Len(inbox[d]) \in Nat /\ DOMAIN inbox[d] = 1..Len(inbox[d])
              /\ DOMAIN inbox'[d] = 1..(Len(inbox[d]) + 1)
              /\ \A i \in DOMAIN inbox[d] : inbox'[d][i] = inbox[d][i]
              /\ inbox'[d][Len(inbox[d]) + 1] = line[c]
              /\ \A i \in DOMAIN inbox[d] :
                   ViaChan(d, line[c]) /\ Once(c) => inbox[d][i] # line[c]
<1>1. /\ pc' = pc /\ line' = line /\ member' = member
      /\ pc[c] = "tell" /\ lock = c /\ c \in member /\ line[c].from = c
  BY DEF Tell, Commanding, UnderLock, OwnLine
<1>2. \A d \in Clients : pc[d] = "tell" => d = c
  BY <1>1 DEF Commanding, UnderLock
<1>3. PICK d \in rest[c] : AddOutput(d, line[c]) /\ rest' = [rest EXCEPT ![c] = @ \ {d}]
  BY DEF Tell
<1>4. d \in Clients /\ d \in member BY <1>1, <1>3 DEF TypeOK, Commanding, UnderLock
<1>5. rest'[c] = rest[c] \ {d} BY <1>3 DEF TypeOK
<1>6. line[c] \in Lines /\ line[c].id \in Nat BY DEF TypeOK, Lines
<1>7. Ahead(c, d) BY <1>1, <1>3 DEF Ahead
<1>8. \A i \in DOMAIN inbox[d] : ViaChan(d, line[c]) /\ Once(c) => inbox[d][i] # line[c]
  <2> SUFFICES ASSUME NEW i \in DOMAIN inbox[d], ViaChan(d, line[c]), Once(c),
                      inbox[d][i] = line[c]
               PROVE  FALSE
    OBVIOUS
  <2>1. inbox[d][i].id < line[c].id BY <1>1, <1>4, <1>7 DEF NotYetHeard
  <2> QED BY <2>1, <1>6
<1>9. /\ \A e \in Clients : e # d => inbox'[e] = inbox[e]
      /\ DOMAIN inbox[d] = 1..Len(inbox[d])
      /\ DOMAIN inbox'[d] = 1..(Len(inbox[d]) + 1)
      /\ Len(inbox[d]) \in Nat
      /\ \A i \in 1..Len(inbox[d]) : inbox'[d][i] = inbox[d][i]
      /\ inbox'[d][Len(inbox[d]) + 1] = line[c]
  BY <1>3, <1>4, <1>6, AddFacts
<1>10. \A i \in DOMAIN inbox[d] : inbox'[d][i] = inbox[d][i] BY <1>9
<1> QED BY <1>1, <1>2, <1>3, <1>4, <1>5, <1>8, <1>9, <1>10

(* What c tells reaches d, as the n-th entry of its inbox.                 *)
Reaches(c, d, n) ==
  /\ d \in member /\ d \in rest[c] /\ d \notin rest'[c]
  /\ \A e \in Clients : \A i \in DOMAIN inbox'[e] :
       /\ i \in Nat
       /\ e = d /\ i = n => inbox'[e][i] = line[c]
       /\ ~ (e = d /\ i = n) =>
            /\ i \in DOMAIN inbox[e] /\ inbox'[e][i] = inbox[e][i]
            /\ e = d => i < n
  /\ \A i \in DOMAIN inbox[d] :
       ViaChan(d, line[c]) /\ Once(c) => inbox[d][i] # line[c]

(* After a quiet step or the telling of one member, what is of the channel *)
(* in an inbox was there before, but for the new copy.                     *)
LEMMA InboxStep ==
  ASSUME TypeOK, Commanding, NotYetHeard, NEW c \in Clients, Asks(c) \/ Works(c)
  PROVE  \/ Quiet /\ ~ Tell(c)
         \/ Tell(c) /\ \E d \in Clients, n \in Nat \ {0} : Reaches(c, d, n)
<1>1. CASE ~ Tell(c)
  BY <1>1, QuietStep
<1>2. CASE Tell(c)
  <2>1. PICK d \in Clients :
              /\ d \in rest[c] /\ d \in member /\ rest'[c] = rest[c] \ {d}
              /\ \A e \in Clients : e # d => inbox'[e] = inbox[e]
              /\ Len(inbox[d]) \in Nat /\ DOMAIN inbox[d] = 1..Len(inbox[d])
              /\ DOMAIN inbox'[d] = 1..(Len(inbox[d]) + 1)
              /\ \A i \in DOMAIN inbox[d] : inbox'[d][i] = inbox[d][i]
              /\ inbox'[d][Len(inbox[d]) + 1] = line[c]
              /\ \A i \in DOMAIN inbox[d] :
                   ViaChan(d, line[c]) /\ Once(c) => inbox[d][i] # line[c]
    BY <1>2, TellFacts
  <2> DEFINE n == Len(inbox[d]) + 1
  <2>2. n \in Nat \ {0} BY <2>1
  <2>3. ASSUME NEW e \in Clients, NEW i \in DOMAIN inbox'[e]
        PROVE  /\ i \in Nat
               /\ e = d /\ i = n => inbox'[e][i] = line[c]
               /\ ~ (e = d /\ i = n) =>
                    /\ i \in DOMAIN inbox[e] /\ inbox'[e][i] = inbox[e][i]
                    /\ e = d => i < n
    <3>1. CASE e = d
      <4>1. i \in 1..(Len(inbox[d]) + 1) BY <2>1, <3>1
      <4>2. i = n \/ i \in 1..Len(inbox[d]) BY <2>1, <4>1
      <4> QED BY <2>1, <3>1, <4>1, <4>2
    <3>2. CASE e # d
      <4>1. inbox'[e] = inbox[e] BY <2>1, <3>2
      <4>2. inbox[e] \in Seq(Lines) BY DEF TypeOK
      <4>3. DOMAIN inbox[e] \subseteq Nat BY <4>2
      <4> QED BY <3>2, <4>1, <4>3
    <3> QED BY <3>1, <3>2
  <2>4. d \notin rest'[c] BY <2>1
  <2> HIDE DEF n
  <2>5. Reaches(c, d, n) BY <2>1, <2>3, <2>4 DEF Reaches
  <2> QED BY <1>2, <2>2, <2>5
<1> QED BY <1>1, <1>2

(* A client that tells the members goes on telling, or is done.            *)
LEMMA TellOrUnlock ==
  ASSUME TypeOK, NEW c \in Clients, Asks(c) \/ Works(c), pc[c] = "tell"
  PROVE  Tell(c) \/ Unlock(c)
<1>1. ~ Asks(c) BY AskFacts
<1> QED BY <1>1 DEF Works, SpeakToChan, SpeakToClient, Target, Give, AllTargets, PartEcho,
      LeaveAllChannel, Lock, Refused, TakeOut

(* An entry of an inbox is a line.                                         *)
LEMMA EntryType ==
  ASSUME TypeOK, NEW e \in Clients, NEW i \in DOMAIN inbox[e]
  PROVE  /\ inbox[e][i] \in Lines /\ inbox[e][i].id \in Nat
         /\ inbox[e][i].from \in Clients \cup {NoOne}
<1> DEFINE s == inbox[e]
<1>1. s \in Seq(Lines) BY DEF TypeOK
<1> HIDE DEF s
<1>2. \A k \in DOMAIN s : s[k] \in Lines BY <1>1
<1> QED BY <1>2 DEF s, Lines

(* Who was kicked is out when the telling is done.                         *)
LEMMA KickDoneStep ==
  ASSUME TypeOK, Commanding, NotYetHeard, KickDone, NEW c \in Clients, Asks(c) \/ Works(c)
  PROVE  KickDone'
<1> SUFFICES ASSUME NEW e \in Clients, NEW i \in DOMAIN inbox'[e],
                    inbox'[e][i].what = "KICK"
             PROVE  /\ inbox'[e][i].from \in Clients
                    /\ \/ inbox'[e][i].to \notin member'
                       \/ \E b \in Clients : pc'[b] = "tell" /\ line'[b] = inbox'[e][i]
  BY DEF KickDone, Kicking
<1>1. CASE i \in DOMAIN inbox[e] /\ inbox'[e][i] = inbox[e][i]
  <2> DEFINE gone == inbox[e][i]
  <2>1. gone.from \in Clients /\ (gone.to \notin member \/ Kicking(gone))
    BY <1>1 DEF KickDone
  <2>2. CASE gone.to \notin member
    BY <1>1, <2>1, <2>2, LockFrame
  <2>3. CASE Kicking(gone)
    <3>1. PICK b \in Clients : pc[b] = "tell" /\ line[b] = gone BY <2>3 DEF Kicking
    <3>2. CASE b # c \/ Tell(c)
      <4>1. pc'[b] = "tell" /\ line'[b] = gone BY <3>1, <3>2, OthersFrame, TellFacts
      <4> QED BY <1>1, <2>1, <4>1
    <3>3. CASE b = c /\ Unlock(c)
      <4>1. member' = member \ {gone.to} BY <1>1, <3>1, <3>3 DEF Unlock, LeftUnder
      <4> QED BY <1>1, <2>1, <4>1
    <3> QED BY <3>1, <3>2, <3>3, TellOrUnlock
  <2> QED BY <2>1, <2>2, <2>3
<1>2. CASE Tell(c) /\ inbox'[e][i] = line[c]
  <2>1. pc'[c] = "tell" /\ line'[c] = line[c] /\ line[c].from = c BY <1>2, TellFacts
  <2> QED BY <1>2, <2>1
<1> QED BY <1>1, <1>2, InboxStep DEF Quiet, Matters, Reaches

(* Who told that it leaves is out when its command is done.                *)
LEMMA LeaveDoneStep ==
  ASSUME TypeOK, Commanding, NotYetHeard, LeaveDone, NEW c \in Clients, Asks(c) \/ Works(c)
  PROVE  LeaveDone'
<1> SUFFICES ASSUME NEW e \in Clients, NEW i \in DOMAIN inbox'[e],
                    ViaChan(e, inbox'[e][i]), inbox'[e][i].what \in {"PART", "QUIT"}
             PROVE  \/ inbox'[e][i].from \notin member'
                    \/ /\ pc'[inbox'[e][i].from] \in {"tell", "out"}
                       /\ line'[inbox'[e][i].from] = inbox'[e][i]
  BY DEF LeaveDone, ViaChan
<1>1. CASE i \in DOMAIN inbox[e] /\ inbox'[e][i] = inbox[e][i]
  <2> DEFINE gone == inbox[e][i]
             b == gone.from
  <2>1. /\ b \in Clients
        /\ \/ b \notin member
           \/ pc[b] \in {"tell", "out"} /\ line[b] = gone
    BY <1>1, EntryType DEF LeaveDone, ViaChan
  <2>2. CASE b \notin member
    BY <1>1, <2>2, LockFrame
  <2>3. CASE pc[b] \in {"tell", "out"} /\ line[b] = gone
    <3>1. CASE b # c
      <4>1. pc'[b] = pc[b] /\ line'[b] = line[b] BY <2>1, <3>1, OthersFrame
      <4> QED BY <1>1, <2>3, <4>1
    <3>2. CASE b = c /\ pc[c] = "tell"
      <4>1. CASE Tell(c)
        <5>1. pc' = pc /\ line' = line BY <4>1, TellFacts
        <5> QED BY <1>1, <2>3, <5>1
      <4>2. CASE Unlock(c)
        <5>1. pc'[c] = After(line[c].what) /\ line' = line
          BY <4>2 DEF Unlock, Goto, TypeOK
        <5>2. pc'[c] = "out" BY <1>1, <2>3, <3>2, <5>1 DEF After
        <5> QED BY <1>1, <2>3, <3>2, <5>1, <5>2
      <4> QED BY <3>2, <4>1, <4>2, TellOrUnlock
    <3>3. CASE b = c /\ pc[c] = "out"
      <4>1. ~ Asks(c) BY <3>3, AskFacts
      <4>2. TakeOut(c)
        BY <3>3, <4>1 DEF Works, SpeakToChan, SpeakToClient, Target, Give, AllTargets,
             PartEcho, LeaveAllChannel, Lock, Tell, Unlock, Refused
      <4>3. b \notin member' BY <3>3, <4>2 DEF TakeOut
      <4> QED BY <1>1, <4>3
    <3> QED BY <2>3, <3>1, <3>2, <3>3
  <2> QED BY <2>1, <2>2, <2>3
<1>2. CASE Tell(c) /\ inbox'[e][i] = line[c]
  <2>1. pc'[c] = "tell" /\ line'[c] = line[c] /\ line[c].from = c BY <1>2, TellFacts
  <2> QED BY <1>2, <2>1
<1> QED BY <1>1, <1>2, InboxStep DEF Quiet, Matters, Reaches

(* What is still to come is in no inbox.                                   *)
LEMMA NotYetHeardStep ==
  ASSUME TypeOK, Commanding, OneTarget, NotYetHeard, NEW c \in Clients, Asks(c) \/ Works(c)
  PROVE  NotYetHeard'
<1> SUFFICES ASSUME NEW b \in Clients, NEW e \in Clients, NEW i \in DOMAIN inbox'[e],
                    ViaChan(e, inbox'[e][i]), inbox'[e][i].from = b
             PROVE  /\ inbox'[e][i].id \leq line'[b].id
                    /\ Once(b)' /\ Ahead(b, e)' => inbox'[e][i].id < line'[b].id
  BY DEF NotYetHeard, ViaChan
<1>0. line[b].id \in Nat BY DEF TypeOK, Lines
<1>1. CASE i \in DOMAIN inbox[e] /\ inbox'[e][i] = inbox[e][i]
  <2>1. /\ inbox[e][i].id \in Nat /\ inbox[e][i].id \leq line[b].id
        /\ Once(b) /\ Ahead(b, e) => inbox[e][i].id < line[b].id
    BY <1>1, EntryType DEF NotYetHeard
  <2>2. CASE b # c
    <3>1. /\ pc'[b] = pc[b] /\ line'[b] = line[b]
          /\ targets'[b] = targets[b] /\ rest'[b] = rest[b]
      BY <2>2, OthersFrame
    <3> QED BY <1>1, <2>1, <3>1 DEF Once, Ahead
  <2>3. CASE b = c /\ Asks(c)
    <3>1. line'[c].id = Len(asked) + 1 /\ Len(asked) \in Nat BY <2>3, AskFacts
    <3>2. line[c].id \leq Len(asked) BY DEF Commanding, OwnLine
    <3> QED BY <1>0, <1>1, <2>1, <2>3, <3>1, <3>2
  <2>4. CASE b = c /\ Works(c)
    <3>1. line'[c].id = line[c].id BY <2>4, OwnFrame
    <3>2. Once(c)' /\ Ahead(c, e)' => Once(c) /\ Ahead(c, e)
      BY <2>4, AheadStep
    <3> QED BY <1>1, <2>1, <2>4, <3>1, <3>2
  <2> QED BY <2>2, <2>3, <2>4
<1>2. CASE Tell(c) /\ inbox'[e][i] = line[c] /\ e \notin rest'[c]
  <2>1. pc'[c] = "tell" /\ line'[c] = line[c] /\ line[c].from = c BY <1>2, TellFacts
  <2>2. b = c BY <1>2, <2>1
  <2>3. ~ Ahead(c, e)' BY <1>2, <2>1 DEF Ahead
  <2> QED BY <1>0, <1>2, <2>1, <2>2, <2>3
<1> QED BY <1>1, <1>2, InboxStep DEF Quiet, Matters, Reaches

(* Nothing of the channel comes after the line that is being told.         *)
LEMMA LastHeardStep ==
  ASSUME TypeOK, Commanding, NotYetHeard, LastHeard, NEW c \in Clients, Asks(c) \/ Works(c)
  PROVE  LastHeard'
<1> SUFFICES ASSUME NEW b \in Clients, NEW e \in Clients,
                    NEW i \in DOMAIN inbox'[e], NEW j \in DOMAIN inbox'[e],
                    pc'[b] = "tell", Once(b)', i < j, inbox'[e][i] = line'[b],
                    ViaChan(e, line'[b]), ViaChan(e, inbox'[e][j])
             PROVE  FALSE
  BY DEF LastHeard, ViaChan
<1>0. /\ line'[b] = line[b] /\ pc[b] \in {"lock", "tell"} /\ Once(b)
      /\ pc[b] = "lock" => b = c
  <2>1. CASE b # c
    BY <2>1, OthersFrame DEF Once
  <2>2. CASE b = c /\ Asks(c)
    BY <2>2, AskFacts
  <2>3. CASE b = c /\ Works(c)
    BY <2>3, OwnFrame DEF Once
  <2> QED BY <2>1, <2>2, <2>3
<1>1. CASE /\ i \in DOMAIN inbox[e] /\ inbox'[e][i] = inbox[e][i]
           /\ j \in DOMAIN inbox[e] /\ inbox'[e][j] = inbox[e][j]
  <2>1. CASE pc[b] = "tell"
    BY <1>0, <1>1, <2>1 DEF LastHeard
  <2>2. CASE pc[b] = "lock"
    <3>1. line[b].from = b /\ line[b].id \in Nat
      BY DEF Commanding, OwnLine, TypeOK, Lines
    <3>2. inbox[e][i].id < line[b].id
      BY <1>0, <1>1, <2>2, <3>1 DEF NotYetHeard, Ahead
    <3> QED BY <1>0, <1>1, <3>1, <3>2
  <2> QED BY <1>0, <2>1, <2>2
<1>2. CASE Quiet
  BY <1>1, <1>2 DEF Quiet, Matters
<1>3. CASE Tell(c)
  <2>1. PICK d \in Clients, n \in Nat \ {0} : Reaches(c, d, n)
    BY <1>3, InboxStep
  <2> USE DEF Reaches
  <2>2. b = c /\ pc[c] = "tell"
    <3>1. pc' = pc /\ (\A a \in Clients : pc[a] = "tell" => a = c)
      BY <1>3, TellFacts
    <3> QED BY <3>1
  <2>3. i \in Nat /\ j \in Nat /\ ~ (e = d /\ i = n)
    BY <2>1
  <2>4. i \in DOMAIN inbox[e] /\ inbox'[e][i] = inbox[e][i] BY <2>1, <2>3
  <2>5. CASE e = d /\ j = n
    BY <1>0, <2>1, <2>2, <2>4, <2>5
  <2>6. CASE ~ (e = d /\ j = n)
    BY <1>1, <2>1, <2>4, <2>6
  <2> QED BY <2>5, <2>6
<1> QED BY <1>2, <1>3, InboxStep

(* Who was kicked is told no more.                                         *)
LEMMA KickedStep ==
  ASSUME TypeOK, Commanding, NotYetHeard, KickDone, KickedHearsNothing,
         NEW c \in Clients, Asks(c) \/ Works(c)
  PROVE  KickedHearsNothing'
<1> SUFFICES ASSUME NEW e \in Clients,
                    NEW i \in DOMAIN inbox'[e], NEW j \in DOMAIN inbox'[e], i < j,
                    inbox'[e][i].what = "KICK", inbox'[e][i].to = e,
                    ViaChan(e, inbox'[e][j])
             PROVE  FALSE
  BY DEF KickedHearsNothing, ViaChan
<1>1. CASE /\ i \in DOMAIN inbox[e] /\ inbox'[e][i] = inbox[e][i]
           /\ j \in DOMAIN inbox[e] /\ inbox'[e][j] = inbox[e][j]
  BY <1>1 DEF KickedHearsNothing
<1>2. CASE Quiet
  BY <1>1, <1>2 DEF Quiet, Matters
<1>3. CASE Tell(c)
  <2>1. PICK d \in Clients, n \in Nat \ {0} : Reaches(c, d, n)
    BY <1>3, InboxStep
  <2> USE DEF Reaches
  <2>2. i \in Nat /\ j \in Nat /\ ~ (e = d /\ i = n)
    BY <2>1
  <2>3. i \in DOMAIN inbox[e] /\ inbox'[e][i] = inbox[e][i] BY <2>1, <2>2
  <2>4. CASE e = d /\ j = n
    <3>1. d = e /\ inbox'[e][j] = line[c] BY <2>1, <2>4
    <3>2. PICK b \in Clients : pc[b] = "tell" /\ line[b] = inbox[e][i]
      BY <2>1, <2>3, <3>1 DEF KickDone, Kicking
    <3>3. b = c BY <1>3, <3>2, TellFacts
    <3>4. Once(c) BY <2>3, <3>2, <3>3 DEF Once
    <3> QED BY <2>1, <2>3, <3>1, <3>2, <3>3, <3>4
  <2>5. CASE ~ (e = d /\ j = n)
    BY <1>1, <2>1, <2>3, <2>5
  <2> QED BY <2>4, <2>5
<1> QED BY <1>2, <1>3, InboxStep

(* Who left, or was kicked, is heard no more.                              *)
LEMMA LastWordsStep ==
  ASSUME TypeOK, Commanding, NotYetHeard, KickDone, LeaveDone, LastWords,
         NEW c \in Clients, Asks(c) \/ Works(c)
  PROVE  LastWords'
<1> SUFFICES ASSUME NEW e \in Clients,
                    NEW i \in DOMAIN inbox'[e], NEW j \in DOMAIN inbox'[e], i < j,
                    ViaChan(e, inbox'[e][i]), ViaChan(e, inbox'[e][j]),
                    \/ /\ inbox'[e][i].what = "KICK"
                       /\ inbox'[e][i].to = inbox'[e][j].from
                    \/ /\ inbox'[e][i].what \in {"PART", "QUIT"}
                       /\ inbox'[e][i].from = inbox'[e][j].from
             PROVE  FALSE
  BY DEF LastWords, ViaChan
<1>1. CASE /\ i \in DOMAIN inbox[e] /\ inbox'[e][i] = inbox[e][i]
           /\ j \in DOMAIN inbox[e] /\ inbox'[e][j] = inbox[e][j]
  BY <1>1 DEF LastWords
<1>2. CASE Quiet
  BY <1>1, <1>2 DEF Quiet, Matters
<1>3. CASE Tell(c)
  <2>1. PICK d \in Clients, n \in Nat \ {0} : Reaches(c, d, n)
    BY <1>3, InboxStep
  <2> USE DEF Reaches
  <2>2. i \in Nat /\ j \in Nat /\ ~ (e = d /\ i = n)
    BY <2>1
  <2>3. i \in DOMAIN inbox[e] /\ inbox'[e][i] = inbox[e][i] BY <2>1, <2>2
  <2>4. CASE e = d /\ j = n
    <3>1. d = e /\ inbox'[e][j] = line[c] BY <2>1, <2>4
    <3>2. c \in member /\ line[c].from = c BY <1>3, TellFacts
    <3>3. line[c] = inbox[e][i]
      <4>1. CASE inbox[e][i].what = "KICK"
        <5>1. inbox[e][i].to = c BY <2>3, <3>1, <3>2, <4>1
        <5>2. PICK b \in Clients : pc[b] = "tell" /\ line[b] = inbox[e][i]
          BY <2>3, <3>2, <4>1, <5>1 DEF KickDone, Kicking
        <5> QED BY <1>3, <5>2, TellFacts
      <4>2. CASE inbox[e][i].what \in {"PART", "QUIT"}
        <5>1. inbox[e][i].from = c BY <2>3, <3>1, <3>2, <4>2
        <5> QED BY <2>3, <3>2, <4>2, <5>1 DEF LeaveDone
      <4> QED BY <2>3, <4>1, <4>2
    <3>4. Once(c) BY <2>3, <3>3 DEF Once
    <3> QED BY <2>1, <2>3, <3>1, <3>3, <3>4
  <2>5. CASE ~ (e = d /\ j = n)
    BY <1>1, <2>1, <2>3, <2>5
  <2> QED BY <2>4, <2>5
<1> QED BY <1>2, <1>3, InboxStep

(* One order for all members.                                              *)
LEMMA OrderedStep ==
  ASSUME TypeOK, Commanding, NotYetHeard, LastHeard, Ordered,
         NEW c \in Clients, Asks(c) \/ Works(c)
  PROVE  Ordered'
<1> SUFFICES ASSUME Unrepeated, NEW a \in Clients, NEW e \in Clients,
                    NEW i \in DOMAIN inbox'[a], NEW j \in DOMAIN inbox'[a],
                    NEW k \in DOMAIN inbox'[e], NEW m \in DOMAIN inbox'[e],
                    i < j, inbox'[a][i] = inbox'[e][m], inbox'[a][j] = inbox'[e][k],
                    ViaChan(a, inbox'[a][i]), ViaChan(e, inbox'[a][i]),
                    ViaChan(a, inbox'[a][j]), ViaChan(e, inbox'[a][j])
             PROVE  m < k
  <2>1. ASSUME Unrepeated PROVE SameOrder'
    <3> SUFFICES ASSUME NEW a \in Clients, NEW e \in Clients,
                        NEW i \in DOMAIN inbox'[a], NEW j \in DOMAIN inbox'[a],
                        NEW k \in DOMAIN inbox'[e], NEW m \in DOMAIN inbox'[e],
                        i < j, inbox'[a][i] = inbox'[e][m], inbox'[a][j] = inbox'[e][k],
                        \A l \in {inbox'[a][i], inbox'[a][j]} : ViaChan(a, l) /\ ViaChan(e, l)
                 PROVE  m < k
      BY SMTT(20) DEF SameOrder, ViaChan
    <3>1. /\ ViaChan(a, inbox'[a][i]) /\ ViaChan(e, inbox'[a][i])
          /\ ViaChan(a, inbox'[a][j]) /\ ViaChan(e, inbox'[a][j])
      OBVIOUS
    <3> QED BY <2>1, <3>1
  <2> QED BY <2>1 DEF Ordered, Unrepeated
<1>1. CASE /\ i \in DOMAIN inbox[a] /\ inbox'[a][i] = inbox[a][i]
           /\ j \in DOMAIN inbox[a] /\ inbox'[a][j] = inbox[a][j]
           /\ k \in DOMAIN inbox[e] /\ inbox'[e][k] = inbox[e][k]
           /\ m \in DOMAIN inbox[e] /\ inbox'[e][m] = inbox[e][m]
  <2>1. SameOrder BY DEF Ordered
  <2>2. /\ inbox[a][i] = inbox[e][m] /\ inbox[a][j] = inbox[e][k]
        /\ \A l \in {inbox[a][i], inbox[a][j]} : ViaChan(a, l) /\ ViaChan(e, l)
    BY <1>1
  <2> QED BY <1>1, <2>1, <2>2 DEF SameOrder
<1>2. CASE Quiet
  BY <1>1, <1>2 DEF Quiet, Matters
<1>3. CASE Tell(c)
  <2>1. PICK d \in Clients, n \in Nat \ {0} : Reaches(c, d, n)
    BY <1>3, InboxStep
  <2> USE DEF Reaches
  <2>2. i \in Nat /\ j \in Nat /\ k \in Nat /\ m \in Nat /\ ~ (a = d /\ i = n)
    BY <2>1
  <2>3. i \in DOMAIN inbox[a] /\ inbox'[a][i] = inbox[a][i] BY <2>1, <2>2
  <2>4. Once(c) /\ pc[c] = "tell" BY <1>3, TellFacts DEF Once
  <2>5. CASE a = d /\ j = n
    <3>1. inbox'[a][j] = line[c] /\ inbox[a][i] # line[c] BY <2>1, <2>3, <2>4, <2>5
    <3>2. m # n \/ e # d BY <2>1, <2>3, <3>1
    <3>3. /\ m \in DOMAIN inbox[e] /\ inbox'[e][m] = inbox[e][m]
          /\ e = d => m < n
      BY <2>1, <3>2
    <3>4. CASE e = d /\ k = n
      BY <3>3, <3>4
    <3>5. CASE k \in DOMAIN inbox[e] /\ inbox'[e][k] = inbox[e][k]
      <4>1. inbox[e][k] = line[c] /\ ViaChan(e, line[c]) BY <3>1, <3>5
      <4>2. ViaChan(e, inbox[e][m]) BY <3>3
      <4>3. ~ (k < m) BY <2>4, <3>3, <3>5, <4>1, <4>2 DEF LastHeard
      <4>4. m # k BY <2>3, <3>1, <3>3
      <4> QED BY <2>2, <4>3, <4>4
    <3> QED BY <2>1, <3>4, <3>5
  <2>6. CASE ~ (a = d /\ j = n)
    <3>1. j \in DOMAIN inbox[a] /\ inbox'[a][j] = inbox[a][j] BY <2>1, <2>6
    <3>2. CASE e = d /\ m = n
      <4>1. inbox[a][i] = line[c] BY <2>1, <2>3, <3>2
      <4>2. FALSE BY <2>3, <2>4, <3>1, <4>1 DEF LastHeard
      <4> QED BY <4>2
    <3>3. CASE ~ (e = d /\ m = n)
      <4>1. /\ m \in DOMAIN inbox[e] /\ inbox'[e][m] = inbox[e][m]
            /\ e = d => m < n
        BY <2>1, <3>3
      <4>2. CASE e = d /\ k = n
        BY <4>1, <4>2
      <4>3. CASE ~ (e = d /\ k = n)
        BY <1>1, <2>1, <2>3, <3>1, <4>1, <4>3
      <4> QED BY <4>2, <4>3
    <3> QED BY <3>2, <3>3
  <2> QED BY <2>5, <2>6
<1> QED BY <1>2, <1>3, InboxStep

------------------------------------------------------------------------------
(* All inboxes are empty in the beginning.                                 *)
LEMMA InitIInv ==
  ASSUME Init
  PROVE  IInv
<1> USE DEF Init
<1>1. /\ 0 \in Nat /\ <<>> \in Seq(Lines) /\ <<>> \in Seq(Clients \cup {Chan})
      /\ <<>> \in Seq(Commands) /\ Len(<<>>) = 0 /\ DOMAIN <<>> = {}
  OBVIOUS
<1>2. \A c \in Clients : Line(0, c, "none", Chan) \in Lines
  BY <1>1 DEF Line, Lines, Words
<1>3. TypeOK BY <1>1, <1>2 DEF TypeOK, Places
<1>4. Commanding
  BY <1>1, TalkAssumption DEF Commanding, OwnLine, UnderLock, Line
<1>5. \A e \in Clients : DOMAIN inbox[e] = {} /\ DOMAIN targets[e] = {} BY <1>1
<1>6. KickDone /\ LeaveDone /\ NotYetHeard /\ OneTarget /\ LastHeard
  BY <1>5 DEF KickDone, LeaveDone, NotYetHeard, OneTarget, LastHeard
<1>7. KickedHearsNothing /\ LastWords /\ Ordered
  BY <1>5 DEF KickedHearsNothing, LastWords, Ordered, SameOrder
<1> QED BY <1>3, <1>4, <1>6, <1>7 DEF IInv

(* The invariant that all of this rests on.                                *)
THEOREM Invariance == Spec => []IInv
<1>1. Init => IInv BY InitIInv
<1>2. IInv /\ [Next]_vars => IInv'
  <2> SUFFICES ASSUME IInv, [Next]_vars PROVE IInv' OBVIOUS
  <2>1. CASE Next
    <3>1. PICK c \in Clients : Asks(c) \/ Works(c) BY <2>1, NextSteps
    <3> USE DEF IInv
    <3>2. TypeOK' /\ Commanding' BY <3>1, TypeStep, CommandingStep
    <3>3. KickDone' /\ LeaveDone' BY <3>1, KickDoneStep, LeaveDoneStep
    <3>4. NotYetHeard' /\ OneTarget' BY <3>1, NotYetHeardStep, OneTargetStep
    <3>5. LastHeard' /\ KickedHearsNothing' BY <3>1, LastHeardStep, KickedStep
    <3>6. LastWords' /\ Ordered' BY <3>1, LastWordsStep, OrderedStep
    <3> QED BY <3>2, <3>3, <3>4, <3>5, <3>6
  <2>2. CASE UNCHANGED vars
    <3> USE <2>2 DEF vars, locks, IInv
    <3>1. TypeOK' /\ Commanding' BY DEF TypeOK, Commanding, OwnLine, UnderLock
    <3>2. KickDone' /\ LeaveDone' BY DEF KickDone, Kicking, LeaveDone
    <3>3. NotYetHeard' /\ OneTarget' BY DEF NotYetHeard, Once, Ahead, OneTarget
    <3>4. LastHeard' /\ KickedHearsNothing' BY DEF LastHeard, KickedHearsNothing, Once
    <3>5. LastWords' /\ Ordered' BY DEF LastWords, Ordered, SameOrder
    <3> QED BY <3>1, <3>2, <3>3, <3>4, <3>5
  <2> QED BY <2>1, <2>2
<1> QED BY <1>1, <1>2, PTL DEF Spec

(* Who was kicked hears nothing of the channel after its KICK, whatever    *)
(* command had found the channel before.                                   *)
THEOREM OutMeansSilence == Spec => []KickedHearsNothing
<1>1. IInv => KickedHearsNothing BY DEF IInv
<1> QED BY <1>1, Invariance, PTL

(* The members hear nothing from who left, or was kicked, after they were  *)
(* told so.                                                                *)
THEOREM GoneAreSilent == Spec => []LastWords
<1>1. IInv => LastWords BY DEF IInv
<1> QED BY <1>1, Invariance, PTL

(* The members hear the channel in one order, when no list of targets has  *)
(* the channel twice: two copies of a line cannot be told apart.           *)
THEOREM OneOrder ==
  ASSUME Unrepeated
  PROVE  Spec => []SameOrder
<1>1. IInv => SameOrder BY DEF IInv, Ordered
<1> QED BY <1>1, Invariance, PTL

------------------------------------------------------------------------------
(* The account of the targets, for lists that name nobody twice.           *)
Distinct == \A list \in Lists : \A i, j \in DOMAIN list : list[i] = list[j] => i = j

(* A client at work has a command that is counted, and the targets it has  *)
(* left are different; what it is about to give goes to the first of them. *)
AtCommand ==
  \A c \in Clients :
    /\ pc[c] # "idle" =>
         /\ line[c].id \in DOMAIN asked
         /\ asked[line[c].id].from = c /\ asked[line[c].id].what = line[c].what
    /\ pc[c] = "give" => line[c].to = Head(targets[c])
    /\ \A i, j \in DOMAIN targets[c] : targets[c][i] = targets[c][j] => i = j

(* No inbox has a line of a command to come.                               *)
Numbered == \A e \in Clients : \A i \in DOMAIN inbox[e] : inbox[e][i].id \leq Len(asked)

Left(c) == {targets[c][i] : i \in DOMAIN targets[c]}
ToServe(c, id, t) == pc[c] # "idle" /\ line[c].id = id /\ t \in Left(c)

Untold(id, t) == \A d \in Clients : Copies(id, t)[d] = 0

(* The members that the holder of the lock has passed have their copy.     *)
HalfTold(c, id) ==
  /\ Copies(id, Chan)[c] = 0 /\ c \notin rest[c]
  /\ \A d \in Clients :
       /\ Copies(id, Chan)[d] \leq 1
       /\ d \in rest[c] => Copies(id, Chan)[d] = 0
       /\ d \in member \ ({c} \cup rest[c]) => Copies(id, Chan)[d] = 1

(* What AllTold asks for one target, receiver by receiver.                 *)
Served(c, id, t) ==
  \/ t # Chan /\ \A d \in Clients : Copies(id, t)[d] = IF d = t THEN 1 ELSE 0
  \/ \A d \in Clients : Copies(id, t)[d] = IF d = c THEN 1 ELSE 0
  \/ /\ t = Chan /\ Copies(id, t)[c] = 0
     /\ \A d \in Clients : Copies(id, t)[d] \leq 1
     /\ \A d \in member \ {c} : Copies(id, t)[d] = 1

(* A target is served, or is among those left and nobody has the line, or  *)
(* it is the channel, whose members are being told.                        *)
Account(c, id, t) ==
  IF ToServe(c, id, t)
  THEN IF t = Chan /\ pc[c] = "tell" THEN HalfTold(c, id) ELSE Untold(id, t)
  ELSE Served(c, id, t)

(* The command speaks for c, and the target is in its list.                *)
Asked(id, c, t) ==
  /\ asked[id].what = "PRIVMSG" /\ asked[id].from = c
  /\ \E i \in DOMAIN asked[id].list : asked[id].list[i] = t

Accounts ==
  \A id \in DOMAIN asked : \A c \in Clients, t \in Clients \cup {Chan} :
    Asked(id, c, t) => Account(c, id, t)

AccountInv == AtCommand /\ Numbered /\ Accounts

(* The places of the copies in an inbox.                                   *)
Spots(d, id, t) == {i \in DOMAIN inbox[d] : inbox[d][i].id = id /\ inbox[d][i].to = t}

(* How the work at a PRIVMSG goes on.  It waits, or goes to the lock, or   *)
(* is done when no target is left;                                         *)
Waits(c) ==
  /\ inbox' = inbox /\ targets'[c] = targets[c]
  /\ pc[c] # "tell" /\ pc'[c] # "tell" /\ (pc'[c] = "idle" => targets[c] = <<>>)

(* it is done with the first target by one line, to it or to the sender;   *)
Answers(c) ==
  /\ targets[c] # <<>> /\ targets'[c] = Tail(targets[c])
  /\ pc[c] # "tell" /\ pc'[c] = "next"
  /\ \E d \in Clients, l \in Lines :
       /\ AddOutput(d, l) /\ l.id = line[c].id /\ l.to = Head(targets[c])
       /\ d = c \/ d = l.to

(* it begins to tell the members;                                          *)
Starts(c) ==
  /\ inbox' = inbox /\ targets'[c] = targets[c] /\ member' = member
  /\ pc[c] # "tell" /\ pc'[c] = "tell" /\ rest'[c] = member \ {c}

(* it tells one more;                                                      *)
TellsOne(c) ==
  /\ targets'[c] = targets[c] /\ member' = member /\ pc[c] = "tell" /\ pc'[c] = "tell"
  /\ line[c].to = Chan /\ Chan \in Left(c)
  /\ \E d \in Clients : d \in rest[c] /\ AddOutput(d, line[c]) /\ rest'[c] = rest[c] \ {d}

(* or all are told.                                                        *)
Ends(c) ==
  /\ inbox' = inbox /\ targets[c] # <<>> /\ targets'[c] = Tail(targets[c])
  /\ Head(targets[c]) = Chan /\ pc[c] = "tell" /\ pc'[c] = "next" /\ rest[c] = {}

------------------------------------------------------------------------------
(* Copies are counted by numbers.                                          *)
LEMMA CopiesType ==
  ASSUME TypeOK, NEW id, NEW t, NEW d \in Clients
  PROVE  /\ IsFiniteSet(Spots(d, id, t))
         /\ Copies(id, t)[d] \in Nat
<1> DEFINE s == inbox[d]
           P == Spots(d, id, t)
<1>1. s \in Seq(Lines) BY DEF TypeOK
<1> HIDE DEF s
<1>2. DOMAIN s = 1..Len(s) /\ Len(s) \in Int /\ 1 \in Int BY <1>1
<1>3. IsFiniteSet(DOMAIN s) BY <1>2, FS_Interval
<1>4. P \in SUBSET DOMAIN s BY DEF s, Spots
<1>5. IsFiniteSet(P) BY <1>3, <1>4, FS_Subset
<1>6. Cardinality(P) \in Nat BY <1>5, FS_CardinalityType
<1> QED BY <1>5, <1>6 DEF Copies, Spots

(* A line that is added is one copy more of its command and target, for    *)
(* its receiver.                                                           *)
LEMMA CopiesAdd ==
  ASSUME TypeOK, NEW d \in Clients, NEW l \in Lines, AddOutput(d, l), NEW id, NEW t,
         NEW e \in Clients
  PROVE  Copies(id, t)'[e] =
           IF e = d /\ l.id = id /\ l.to = t THEN Copies(id, t)[e] + 1 ELSE Copies(id, t)[e]
<1> DEFINE P == Spots(e, id, t)
           Q == Spots(e, id, t)'
           n == Len(inbox[d]) + 1
<1>1. Copies(id, t)[e] = Cardinality(P) /\ Copies(id, t)'[e] = Cardinality(Q)
  BY DEF Copies, Spots
<1>2. IsFiniteSet(P) BY CopiesType
<1>3. CASE e # d
  <2>1. inbox'[e] = inbox[e] BY <1>3, AddFacts
  <2>2. P = Q BY <2>1 DEF Spots
  <2> HIDE DEF P, Q
  <2> QED BY <1>1, <1>3, <2>2
<1>4. CASE e = d
  <2>1. /\ DOMAIN inbox[e] = 1..Len(inbox[e]) /\ DOMAIN inbox'[e] = 1..(Len(inbox[e]) + 1)
        /\ Len(inbox[e]) \in Nat
        /\ \A i \in 1..Len(inbox[e]) : inbox'[e][i] = inbox[e][i]
        /\ inbox'[e][Len(inbox[e]) + 1] = l
    BY <1>4, AddFacts
  <2>2. n \notin P BY <1>4, <2>1 DEF Spots
  <2>3. CASE l.id = id /\ l.to = t
    <3>1. Q = P \cup {n} BY <1>4, <2>1, <2>3 DEF Spots
    <3> HIDE DEF P, Q, n
    <3>2. Cardinality(Q) = Cardinality(P) + 1 BY <1>2, <2>2, <3>1, FS_AddElement
    <3> QED BY <1>1, <1>4, <2>3, <3>2
  <2>4. CASE ~ (l.id = id /\ l.to = t)
    <3>1. Q = P BY <1>4, <2>1, <2>4 DEF Spots
    <3> HIDE DEF P, Q
    <3> QED BY <1>1, <2>4, <3>1
  <2> QED BY <2>3, <2>4
<1> QED BY <1>3, <1>4

(* The targets that are left after the first, when none is there twice.    *)
LEMMA LeftFacts ==
  ASSUME NEW S, NEW s \in Seq(S), s # <<>>,
         \A i, j \in DOMAIN s : s[i] = s[j] => i = j
  PROVE  /\ Head(s) \in {s[i] : i \in DOMAIN s}
         /\ {Tail(s)[i] : i \in DOMAIN Tail(s)} = {s[i] : i \in DOMAIN s} \ {Head(s)}
         /\ \A i, j \in DOMAIN Tail(s) : Tail(s)[i] = Tail(s)[j] => i = j
<1>1. /\ Head(s) = s[1] /\ 1 \in DOMAIN s /\ DOMAIN Tail(s) = 1..(Len(s) - 1)
      /\ DOMAIN s = 1..Len(s) /\ Len(s) \in Nat
      /\ \A i \in DOMAIN Tail(s) : i + 1 \in DOMAIN s /\ Tail(s)[i] = s[i + 1]
  BY TailFacts
<1>2. ASSUME NEW x \in {Tail(s)[i] : i \in DOMAIN Tail(s)}
      PROVE  x \in {s[i] : i \in DOMAIN s} \ {Head(s)}
  <2>1. PICK i \in DOMAIN Tail(s) : x = Tail(s)[i] OBVIOUS
  <2>2. i \in Nat /\ i # 0 /\ i + 1 \in DOMAIN s /\ x = s[i + 1] BY <1>1, <2>1
  <2>3. i + 1 # 1 BY <2>2
  <2> QED BY <1>1, <2>2, <2>3
<1>3. ASSUME NEW x \in {s[i] : i \in DOMAIN s}, x # Head(s)
      PROVE  x \in {Tail(s)[i] : i \in DOMAIN Tail(s)}
  <2>1. PICK i \in DOMAIN s : x = s[i] OBVIOUS
  <2>2. i \in 1..Len(s) /\ i # 1 BY <1>1, <1>3, <2>1
  <2>3. i - 1 \in DOMAIN Tail(s) /\ (i - 1) + 1 = i BY <1>1, <2>2
  <2>4. x = Tail(s)[i - 1] BY <1>1, <2>1, <2>3
  <2> QED BY <2>3, <2>4
<1>4. ASSUME NEW i \in DOMAIN Tail(s), NEW j \in DOMAIN Tail(s), Tail(s)[i] = Tail(s)[j]
      PROVE  i = j
  <2>1. i \in Nat /\ j \in Nat /\ s[i + 1] = s[j + 1] BY <1>1, <1>4
  <2>2. i + 1 = j + 1 BY <1>1, <2>1
  <2> QED BY <2>1, <2>2
<1>5. Head(s) \in {s[i] : i \in DOMAIN s} BY <1>1
<1> QED BY <1>2, <1>3, <1>4, <1>5

(* A step at work adds at most one line, of its own command.               *)
LEMMA AddsOwn ==
  ASSUME TypeOK, Commanding, NEW c \in Clients, Works(c)
  PROVE  \/ inbox' = inbox
         \/ \E d \in Clients, l \in Lines : AddOutput(d, l) /\ l.id = line[c].id
<1> USE DEF Target
<1>1. ASSUME NEW what \in Words, NEW to \in Clients \cup {Chan}, ReplySend(c, what, to)
      PROVE  \E l \in Lines : AddOutput(c, l) /\ l.id = line[c].id
  <2>1. Line(line[c].id, NoOne, what, to).id = line[c].id BY DEF Line
  <2> QED BY <1>1, <2>1, ReplyFacts DEF ReplySend
<1>2. line[c] \in Lines BY DEF TypeOK
<1>3. CASE SpeakToChan(c)
  BY <1>1, <1>3 DEF SpeakToChan, Words
<1>4. CASE SpeakToClient(c)
  BY <1>1, <1>4 DEF SpeakToClient, Words
<1>5. CASE Give(c)
  BY <1>2, <1>5 DEF Give, Commanding, OwnLine
<1>6. CASE AllTargets(c) \/ LeaveAllChannel(c) \/ Lock(c) \/ Unlock(c)
  BY <1>6 DEF AllTargets, LeaveAllChannel, Lock, Unlock
<1>7. CASE PartEcho(c)
  BY <1>2, <1>7 DEF PartEcho
<1>8. CASE Tell(c)
  BY <1>2, <1>8 DEF Tell, TypeOK
<1>9. CASE Refused(c)
  <2>1. Refusal(line[c].what) \subseteq Words BY DEF Refusal, Words
  <2> QED BY <1>1, <1>9, <2>1 DEF Refused
<1>10. CASE TakeOut(c)
  <2>1. CASE AddOutput(c, Line(line[c].id, NoOne, "ERROR", c))
    BY <1>1, <2>1 DEF ReplySend, Words
  <2> QED BY <1>10, <2>1 DEF TakeOut
<1> QED BY <1>3, <1>4, <1>5, <1>6, <1>7, <1>8, <1>9, <1>10 DEF Works

(* The commands of others have the copies they had.                        *)
LEMMA OtherCopies ==
  ASSUME TypeOK, Commanding, NEW c \in Clients, Asks(c) \/ Works(c), NEW id, NEW t,
         Works(c) => line[c].id # id
  PROVE  \A e \in Clients : Copies(id, t)'[e] = Copies(id, t)[e]
<1>1. CASE inbox' = inbox
  BY <1>1 DEF Copies
<1>2. CASE Asks(c)
  BY <1>1, <1>2, AskFacts
<1>3. CASE Works(c)
  <2>1. CASE \E d \in Clients, l \in Lines : AddOutput(d, l) /\ l.id = line[c].id
    <3>1. PICK d \in Clients, l \in Lines : AddOutput(d, l) /\ l.id = line[c].id BY <2>1
    <3>2. l.id # id BY <1>3, <3>1
    <3> QED BY <3>1, <3>2, CopiesAdd
  <2> QED BY <1>1, <1>3, <2>1, AddsOwn
<1> QED BY <1>2, <1>3

(* What the beginning of a command adds to the history.                    *)
LEMMA AskedFacts ==
  ASSUME TypeOK, NEW c \in Clients, Asks(c)
  PROVE  LET n == Len(asked) + 1
         IN  /\ DOMAIN asked = 1..Len(asked) /\ DOMAIN asked' = 1..n /\ Len(asked) \in Nat
             /\ \A k \in DOMAIN asked : asked'[k] = asked[k]
             /\ asked'[n].from = c /\ asked'[n].what = line'[c].what
             /\ asked'[n].list = targets'[c]
<1>1. ASSUME NEW p, NEW what \in Words, NEW to,
             NEW list \in Seq(Clients \cup {Chan}), Begin(c, p, what, to, list)
      PROVE  LET n == Len(asked) + 1
             IN  /\ DOMAIN asked = 1..Len(asked) /\ DOMAIN asked' = 1..n /\ Len(asked) \in Nat
                 /\ \A k \in DOMAIN asked : asked'[k] = asked[k]
                 /\ asked'[n].from = c /\ asked'[n].what = line'[c].what
                 /\ asked'[n].list = targets'[c]
  <2> DEFINE cmd == [from |-> c, what |-> what, list |-> list]
             l == Line(Len(asked'), c, what, to)
  <2>1. /\ asked' = Append(asked, cmd) /\ line' = [line EXCEPT ![c] = l]
        /\ targets' = [targets EXCEPT ![c] = list]
    BY <1>1 DEF Begin
  <2>2. cmd \in Commands /\ cmd.from = c /\ cmd.what = what /\ cmd.list = list
    BY DEF Commands
  <2>3. l.what = what BY DEF Line
  <2> HIDE DEF cmd, l
  <2>4. line'[c] = l /\ targets'[c] = list BY <2>1 DEF TypeOK
  <2>5. /\ DOMAIN asked = 1..Len(asked) /\ DOMAIN asked' = 1..(Len(asked) + 1)
        /\ Len(asked) \in Nat
        /\ \A k \in DOMAIN asked : asked'[k] = asked[k]
        /\ asked'[Len(asked) + 1] = cmd
    BY <2>1, <2>2 DEF TypeOK
  <2> QED BY <2>2, <2>3, <2>4, <2>5
<1>2. <<>> \in Seq(Clients \cup {Chan}) OBVIOUS
<1>3. CASE Speak(c)
  <2>1. PICK list \in Lists : Begin(c, "next", "PRIVMSG", Chan, list) BY <1>3 DEF Speak
  <2>2. list \in Seq(Clients \cup {Chan}) BY TalkAssumption
  <2> QED BY <1>1, <2>1, <2>2 DEF Words
<1>4. CASE Topic(c)
  BY <1>1, <1>2, <1>4 DEF Topic, Words
<1>5. CASE KickFind(c)
  BY <1>1, <1>2, <1>5 DEF KickFind, Words
<1>6. CASE PartCheck(c)
  BY <1>1, <1>2, <1>6 DEF PartCheck, Words
<1>7. CASE Quit(c)
  BY <1>1, <1>2, <1>7 DEF Quit, Words
<1> QED BY <1>3, <1>4, <1>5, <1>6, <1>7 DEF Asks

(* What is given goes to the first of the targets that are left.           *)
LEMMA GiveFirst ==
  ASSUME TypeOK, AtCommand, NEW c \in Clients, Works(c), pc'[c] = "give"
  PROVE  line'[c].to = Head(targets'[c])
<1>0. pc \in [Clients -> Places] /\ line \in [Clients -> Lines] BY DEF TypeOK
<1>1. SpeakToClient(c)
  BY <1>0 DEF Works, SpeakToChan, Give, AllTargets, PartEcho, LeaveAllChannel, Lock, Tell,
     Unlock, Refused, TakeOut, Target, Goto, After
<1>2. PICK d \in Clients :
        /\ Target(c, d)
        /\ \/ Goto(c, "give") /\ targets' = targets
           \/ pc' = pc
  BY <1>1 DEF SpeakToClient
<1>3. pc[c] = "next" /\ Head(targets[c]) = d BY <1>2 DEF Target
<1>4. targets' = targets BY <1>2, <1>3
<1>5. line'[c] = [line[c] EXCEPT !.to = d] BY <1>0, <1>2 DEF Target
<1>6. line'[c].to = d BY <1>0, <1>5 DEF Lines
<1> QED BY <1>3, <1>4, <1>6

(* A step at work leaves the targets, or the first of them is done with.   *)
LEMMA TargetsFrame ==
  ASSUME TypeOK, Commanding, NEW c \in Clients, Works(c)
  PROVE  \/ targets'[c] = targets[c]
         \/ targets[c] # <<>> /\ targets'[c] = Tail(targets[c])
<1> USE DEF Target, Onward
<1>0. targets \in [Clients -> Seq(Clients \cup {Chan})] /\ OwnLine(c)
  BY DEF TypeOK, Commanding
<1>1. CASE SpeakToChan(c)
  BY <1>0, <1>1 DEF SpeakToChan
<1>2. CASE SpeakToClient(c)
  BY <1>0, <1>2 DEF SpeakToClient
<1>3. CASE Give(c)
  BY <1>0, <1>3 DEF Give, OwnLine
<1>4. CASE Unlock(c)
  BY <1>0, <1>4 DEF Unlock, OwnLine
<1>5. CASE Refused(c)
  BY <1>0, <1>5 DEF Refused, OwnLine
<1>6. CASE AllTargets(c) \/ PartEcho(c) \/ LeaveAllChannel(c)
  BY <1>6 DEF AllTargets, PartEcho, LeaveAllChannel
<1>7. CASE Lock(c) \/ Tell(c) \/ TakeOut(c)
  BY <1>7 DEF Lock, Tell, TakeOut
<1> QED BY <1>1, <1>2, <1>3, <1>4, <1>5, <1>6, <1>7 DEF Works

(* Every step keeps the commands and the targets together.                 *)
LEMMA AtCommandStep ==
  ASSUME Distinct, TypeOK, Commanding, AtCommand, NEW c \in Clients, Asks(c) \/ Works(c)
  PROVE  AtCommand'
<1>1. /\ DOMAIN asked \subseteq DOMAIN asked'
      /\ \A k \in DOMAIN asked : asked'[k] = asked[k]
  <2>1. CASE Asks(c) BY <2>1, AskedFacts
  <2>2. CASE Works(c) BY <2>2, WorksAsked
  <2> QED BY <2>1, <2>2
<1> SUFFICES ASSUME NEW d \in Clients
             PROVE  /\ pc'[d] # "idle" =>
                         /\ line'[d].id \in DOMAIN asked'
                         /\ asked'[line'[d].id].from = d
                         /\ asked'[line'[d].id].what = line'[d].what
                    /\ pc'[d] = "give" => line'[d].to = Head(targets'[d])
                    /\ \A i, j \in DOMAIN targets'[d] :
                         targets'[d][i] = targets'[d][j] => i = j
  BY DEF AtCommand
<1>2. CASE d # c
  <2>1. pc'[d] = pc[d] /\ line'[d] = line[d] /\ targets'[d] = targets[d]
    BY <1>2, OthersFrame
  <2> QED BY <1>1, <2>1 DEF AtCommand
<1>3. CASE d = c /\ Asks(c)
  <2>1. /\ line'[c].id = Len(asked) + 1 /\ pc'[c] # "give"
        /\ targets'[c] \in Lists \/ targets'[c] = <<>>
    BY <1>3, AskFacts
  <2>2. \A i, j \in DOMAIN targets'[c] : targets'[c][i] = targets'[c][j] => i = j
    BY <2>1 DEF Distinct
  <2>3. /\ Len(asked) + 1 \in DOMAIN asked' /\ asked'[Len(asked) + 1].from = c
        /\ asked'[Len(asked) + 1].what = line'[c].what
    BY <1>3, AskedFacts
  <2> QED BY <1>3, <2>1, <2>2, <2>3
<1>4. CASE d = c /\ Works(c)
  <2>1. /\ pc[c] # "idle" /\ line'[c].id = line[c].id /\ line'[c].what = line[c].what
    BY <1>4, OwnFrame
  <2>2. targets'[c] = targets[c] \/ (targets[c] # <<>> /\ targets'[c] = Tail(targets[c]))
    BY <1>4, TargetsFrame
  <2> DEFINE s == targets[c]
  <2>3. s \in Seq(Clients \cup {Chan}) BY DEF TypeOK
  <2>4. \A i, j \in DOMAIN s : s[i] = s[j] => i = j BY DEF AtCommand
  <2>5. targets'[c] = s \/ (s # <<>> /\ targets'[c] = Tail(s)) BY <2>2
  <2> HIDE DEF s
  <2>6. s # <<>> => \A i, j \in DOMAIN Tail(s) : Tail(s)[i] = Tail(s)[j] => i = j
    BY <2>3, <2>4, LeftFacts
  <2>7. \A i, j \in DOMAIN targets'[c] : targets'[c][i] = targets'[c][j] => i = j
    BY <2>4, <2>5, <2>6
  <2> QED BY <1>1, <1>4, <2>1, <2>7, GiveFirst DEF AtCommand
<1> QED BY <1>2, <1>3, <1>4

(* What is added to an inbox is of a command that has begun.               *)
LEMMA NumberedStep ==
  ASSUME TypeOK, Commanding, Numbered, NEW c \in Clients, Asks(c) \/ Works(c)
  PROVE  Numbered'
<1>0. Len(asked) \in Nat BY DEF TypeOK
<1> SUFFICES ASSUME NEW e \in Clients, NEW i \in DOMAIN inbox'[e]
             PROVE  inbox'[e][i].id \leq Len(asked')
  BY DEF Numbered
<1>1. CASE Asks(c)
  <2>1. i \in DOMAIN inbox[e] /\ inbox'[e][i] = inbox[e][i] BY <1>1, AskFacts
  <2> QED BY <1>0, <1>1, <2>1, AskFacts, EntryType DEF Numbered
<1>2. CASE Works(c)
  <2>1. asked' = asked BY <1>2, WorksAsked
  <2>2. CASE inbox' = inbox
    BY <2>1, <2>2 DEF Numbered
  <2>3. CASE \E d \in Clients, l \in Lines : AddOutput(d, l) /\ l.id = line[c].id
    <3>1. PICK d \in Clients, l \in Lines : AddOutput(d, l) /\ l.id = line[c].id BY <2>3
    <3>2. l.id \leq Len(asked) BY <3>1 DEF Commanding, OwnLine
    <3>3. CASE e # d
      <4>1. inbox'[e] = inbox[e] BY <3>1, <3>3, AddFacts
      <4> QED BY <2>1, <4>1 DEF Numbered
    <3>4. CASE e = d
      <4>1. /\ DOMAIN inbox[e] = 1..Len(inbox[e]) /\ Len(inbox[e]) \in Nat
            /\ DOMAIN inbox'[e] = 1..(Len(inbox[e]) + 1)
            /\ \A k \in 1..Len(inbox[e]) : inbox'[e][k] = inbox[e][k]
            /\ inbox'[e][Len(inbox[e]) + 1] = l
        BY <3>1, <3>4, AddFacts
      <4>2. i \in DOMAIN inbox[e] \/ i = Len(inbox[e]) + 1 BY <4>1
      <4> QED BY <2>1, <3>2, <4>1, <4>2 DEF Numbered
    <3> QED BY <3>3, <3>4
  <2> QED BY <1>2, <2>2, <2>3, AddsOwn
<1> QED BY <1>1, <1>2

(* How the work at a PRIVMSG goes on, in one of the five ways.             *)
LEMMA ServeSteps ==
  ASSUME TypeOK, Commanding, AtCommand, NEW c \in Clients, Works(c),
         line[c].what = "PRIVMSG"
  PROVE  Waits(c) \/ Answers(c) \/ Starts(c) \/ TellsOne(c) \/ Ends(c)
<1> USE DEF Target, Onward, Goto
<1>0. /\ pc \in [Clients -> Places] /\ rest \in [Clients -> SUBSET Clients]
      /\ targets \in [Clients -> Seq(Clients \cup {Chan})]
      /\ OwnLine(c) /\ line[c] \in Lines
  BY DEF TypeOK, Commanding
<1>1. ASSUME NEW what \in Words, NEW to \in Clients \cup {Chan}, ReplySend(c, what, to)
      PROVE  \E l \in Lines : AddOutput(c, l) /\ l.id = line[c].id /\ l.to = to
  <2>1. /\ Line(line[c].id, NoOne, what, to).id = line[c].id
        /\ Line(line[c].id, NoOne, what, to).to = to
    BY DEF Line
  <2> QED BY <1>1, <2>1, ReplyFacts DEF ReplySend
<1>2. CASE SpeakToChan(c)
  <2>1. pc[c] = "next" /\ targets[c] # <<>> /\ Head(targets[c]) = Chan
    BY <1>2 DEF SpeakToChan
  <2>2. CASE Goto(c, "lock") /\ targets' = targets /\ inbox' = inbox
    BY <1>0, <2>1, <2>2 DEF Waits
  <2>3. CASE ReplySend(c, "404", Chan) /\ Onward(c) /\ pc' = pc
    <3>1. \E l \in Lines : AddOutput(c, l) /\ l.id = line[c].id /\ l.to = Chan
      BY <1>1, <2>3 DEF Words
    <3>2. targets'[c] = Tail(targets[c]) BY <1>0, <2>3
    <3> QED BY <2>1, <2>3, <3>1, <3>2 DEF Answers
  <2> QED BY <1>2, <2>2, <2>3 DEF SpeakToChan
<1>3. CASE SpeakToClient(c)
  <2>1. PICK d \in Clients :
          /\ Target(c, d)
          /\ \/ d \notin removed /\ Goto(c, "give") /\ UNCHANGED <<targets, inbox>>
             \/ d \in removed /\ ReplySend(c, "401", d) /\ Onward(c) /\ UNCHANGED pc
    BY <1>3 DEF SpeakToClient
  <2>2. pc[c] = "next" /\ targets[c] # <<>> /\ Head(targets[c]) = d BY <2>1
  <2>3. CASE Goto(c, "give") /\ targets' = targets /\ inbox' = inbox
    BY <1>0, <2>2, <2>3 DEF Waits
  <2>4. CASE ReplySend(c, "401", d) /\ Onward(c) /\ pc' = pc
    <3>1. \E l \in Lines : AddOutput(c, l) /\ l.id = line[c].id /\ l.to = d
      BY <1>1, <2>4 DEF Words
    <3>2. targets'[c] = Tail(targets[c]) BY <1>0, <2>4
    <3> QED BY <2>2, <2>4, <3>1, <3>2 DEF Answers
  <2> QED BY <2>1, <2>3, <2>4
<1>4. CASE Give(c)
  <2>1. /\ pc[c] = "give" /\ pc'[c] = "next" /\ AddOutput(line[c].to, line[c])
        /\ targets'[c] = Tail(targets[c])
    BY <1>0, <1>4 DEF Give
  <2>2. targets[c] # <<>> /\ line[c].to \in Clients /\ line[c].to = Head(targets[c])
    BY <1>0, <2>1 DEF OwnLine, AtCommand
  <2> QED BY <1>0, <2>1, <2>2 DEF Answers
<1>5. CASE AllTargets(c)
  BY <1>5 DEF AllTargets, Waits
<1>6. CASE PartEcho(c) \/ LeaveAllChannel(c) \/ TakeOut(c)
  BY <1>0, <1>6 DEF PartEcho, LeaveAllChannel, TakeOut, OwnLine
<1>7. CASE Lock(c)
  <2>1. /\ pc[c] = "lock" /\ inbox' = inbox /\ targets' = targets /\ member' = member
        /\ \/ pc'[c] = "tell" /\ rest'[c] = Told(c)
           \/ pc'[c] = "refused"
    BY <1>0, <1>7 DEF Lock
  <2>2. Told(c) = member \ {c} BY DEF Told
  <2> QED BY <2>1, <2>2 DEF Waits, Starts
<1>8. CASE Tell(c)
  <2>1. pc[c] = "tell" /\ pc' = pc /\ targets' = targets /\ member' = member
    BY <1>8 DEF Tell
  <2>2. PICK d \in rest[c] : AddOutput(d, line[c]) /\ rest' = [rest EXCEPT ![c] = @ \ {d}]
    BY <1>8 DEF Tell
  <2>3. d \in Clients /\ rest'[c] = rest[c] \ {d} BY <1>0, <2>2
  <2>4. line[c].to = Chan /\ targets[c] # <<>> /\ Head(targets[c]) = Chan
    BY <1>0, <2>1 DEF OwnLine
  <2>5. Chan \in Left(c)
    <3> DEFINE s == targets[c]
    <3>1. s \in Seq(Clients \cup {Chan}) /\ s # <<>> BY <1>0, <2>4
    <3> HIDE DEF s
    <3>2. 1 \in DOMAIN s /\ Head(s) = s[1] BY <3>1, TailFacts
    <3> QED BY <2>4, <3>2 DEF Left, s
  <2> QED BY <2>1, <2>2, <2>3, <2>4, <2>5 DEF TellsOne
<1>9. CASE Unlock(c)
  <2>1. /\ pc[c] = "tell" /\ rest[c] = {} /\ inbox' = inbox
        /\ pc'[c] = "next" /\ targets'[c] = Tail(targets[c])
    BY <1>0, <1>9 DEF Unlock, After
  <2> QED BY <1>0, <2>1 DEF Ends, OwnLine
<1>10. CASE Refused(c)
  <2>1. /\ pc[c] = "refused" /\ pc'[c] = "next" /\ targets'[c] = Tail(targets[c])
        /\ \E n \in {"404"} : ReplySend(c, n, Chan)
    BY <1>0, <1>10 DEF Refused, After, Refusal
  <2>2. \E l \in Lines : AddOutput(c, l) /\ l.id = line[c].id /\ l.to = Chan
    BY <1>1, <2>1 DEF Words
  <2> QED BY <1>0, <2>1, <2>2 DEF Answers, OwnLine
<1> QED BY <1>2, <1>3, <1>4, <1>5, <1>6, <1>7, <1>8, <1>9, <1>10 DEF Works

(* The work at a PRIVMSG keeps the account of each of its targets.         *)
LEMMA OwnAccount ==
  ASSUME TypeOK, Commanding, AtCommand, NEW c \in Clients, Works(c), NEW id, NEW t,
         line[c].what = "PRIVMSG", line[c].id = id, Account(c, id, t)
  PROVE  Account(c, id, t)'
<1>0. /\ pc[c] # "idle" /\ line'[c].id = id /\ member' \subseteq member
      /\ member \subseteq Clients /\ \A d \in Clients : Copies(id, t)[d] \in Nat
  BY OwnFrame, LockFrame, CopiesType DEF TypeOK
<1>1. ToServe(c, id, t) <=> t \in Left(c) BY <1>0 DEF ToServe
<1>2. ToServe(c, id, t)' <=> pc'[c] # "idle" /\ t \in Left(c)' BY <1>0 DEF ToServe
<1>3. targets'[c] = targets[c] => Left(c)' = Left(c) BY DEF Left
<1>4. targets[c] # <<>> /\ targets'[c] = Tail(targets[c]) =>
        Head(targets[c]) \in Left(c) /\ Left(c)' = Left(c) \ {Head(targets[c])}
  <2> DEFINE s == targets[c]
  <2>1. s \in Seq(Clients \cup {Chan}) /\ \A i, j \in DOMAIN s : s[i] = s[j] => i = j
    BY DEF TypeOK, AtCommand
  <2>2. Left(c) = {s[i] : i \in DOMAIN s} BY DEF Left
  <2>3. targets'[c] = Tail(s) => Left(c)' = {Tail(s)[i] : i \in DOMAIN Tail(s)}
    BY DEF Left
  <2> HIDE DEF s
  <2>4. ASSUME NEW q \in Seq(Clients \cup {Chan}), q # <<>>,
               \A i, j \in DOMAIN q : q[i] = q[j] => i = j
        PROVE  /\ Head(q) \in {q[i] : i \in DOMAIN q}
               /\ {Tail(q)[i] : i \in DOMAIN Tail(q)} = {q[i] : i \in DOMAIN q} \ {Head(q)}
    BY <2>4, LeftFacts
  <2> QED BY <2>1, <2>2, <2>3, <2>4 DEF s
<1>5. inbox' = inbox => Copies(id, t)' = Copies(id, t) BY DEF Copies
<1>6. ASSUME Served(c, id, t), \A d \in Clients : Copies(id, t)'[d] = Copies(id, t)[d]
      PROVE  Served(c, id, t)'
  BY <1>0, <1>6 DEF Served
<1>7. ASSUME Untold(id, t), \A d \in Clients : Copies(id, t)'[d] = Copies(id, t)[d]
      PROVE  Untold(id, t)'
  BY <1>7 DEF Untold
<1>8. CASE Waits(c)
  <2>1. t \in Left(c) => pc'[c] # "idle" BY <1>8 DEF Waits, Left
  <2>2. /\ \A d \in Clients : Copies(id, t)'[d] = Copies(id, t)[d]
        /\ Left(c)' = Left(c) /\ pc[c] # "tell" /\ pc'[c] # "tell"
    BY <1>3, <1>5, <1>8 DEF Waits
  <2> QED BY <1>1, <1>2, <1>6, <1>7, <2>1, <2>2 DEF Account
<1>9. CASE Answers(c)
  <2>1. /\ Head(targets[c]) \in Left(c) /\ Left(c)' = Left(c) \ {Head(targets[c])}
        /\ pc[c] # "tell" /\ pc'[c] # "tell" /\ pc'[c] # "idle"
    BY <1>4, <1>9 DEF Answers
  <2>2. PICK d \in Clients, l \in Lines :
          /\ AddOutput(d, l) /\ l.id = id /\ l.to = Head(targets[c])
          /\ d = c \/ d = l.to
    BY <1>9 DEF Answers
  <2>3. \A e \in Clients : Copies(id, t)'[e] =
          IF e = d /\ l.to = t THEN Copies(id, t)[e] + 1 ELSE Copies(id, t)[e]
    BY <2>2, CopiesAdd
  <2>4. CASE t = Head(targets[c])
    <3>1. Untold(id, t) BY <1>1, <2>1, <2>4 DEF Account
    <3>2. \A e \in Clients : Copies(id, t)'[e] = IF e = d THEN 1 ELSE 0
      BY <2>2, <2>3, <2>4, <3>1 DEF Untold
    <3>3. d = c \/ (t # Chan /\ d = t) BY <2>2, <2>4, TalkAssumption
    <3>4. Served(c, id, t)' BY <3>2, <3>3 DEF Served
    <3>5. ~ ToServe(c, id, t)' BY <1>2, <2>1, <2>4
    <3> QED BY <3>4, <3>5 DEF Account
  <2>5. CASE t # Head(targets[c])
    <3>1. \A e \in Clients : Copies(id, t)'[e] = Copies(id, t)[e] BY <2>2, <2>3, <2>5
    <3>2. t \in Left(c)' <=> t \in Left(c) BY <2>1, <2>5
    <3> QED BY <1>1, <1>2, <1>6, <1>7, <2>1, <3>1, <3>2 DEF Account
  <2> QED BY <2>4, <2>5
<1>10. CASE Starts(c)
  <2>1. /\ \A d \in Clients : Copies(id, t)'[d] = Copies(id, t)[d]
        /\ Left(c)' = Left(c) /\ pc[c] # "tell" /\ pc'[c] = "tell"
        /\ rest'[c] = member \ {c} /\ member' = member
    BY <1>3, <1>5, <1>10 DEF Starts
  <2>2. CASE t \in Left(c) /\ t = Chan
    <3>1. Untold(id, t) BY <1>1, <2>1, <2>2 DEF Account
    <3>2. \A d \in Clients : Copies(id, Chan)'[d] = 0 BY <2>1, <2>2, <3>1 DEF Untold
    <3>3. HalfTold(c, id)' BY <2>1, <3>2 DEF HalfTold
    <3> QED BY <1>2, <2>1, <2>2, <3>3 DEF Account
  <2>3. CASE ~ (t \in Left(c) /\ t = Chan)
    BY <1>1, <1>2, <1>6, <1>7, <2>1, <2>3 DEF Account
  <2> QED BY <2>2, <2>3
<1>11. CASE TellsOne(c)
  <2>1. /\ Left(c)' = Left(c) /\ Chan \in Left(c) /\ pc[c] = "tell" /\ pc'[c] = "tell"
        /\ member' = member
    BY <1>3, <1>11 DEF TellsOne
  <2>2. PICK d \in Clients :
          d \in rest[c] /\ AddOutput(d, line[c]) /\ rest'[c] = rest[c] \ {d}
    BY <1>11 DEF TellsOne
  <2>3. line[c] \in Lines /\ line[c].to = Chan BY <1>11 DEF TellsOne, TypeOK
  <2>4. \A e \in Clients : Copies(id, t)'[e] =
          IF e = d /\ Chan = t THEN Copies(id, t)[e] + 1 ELSE Copies(id, t)[e]
    BY <2>2, <2>3, CopiesAdd
  <2>5. CASE t = Chan
    <3>1. HalfTold(c, id) BY <1>1, <2>1, <2>5 DEF Account
    <3>2. HalfTold(c, id)'
      BY <2>1, <2>2, <2>4, <2>5, <3>1 DEF HalfTold
    <3> QED BY <1>2, <2>1, <2>5, <3>2 DEF Account
  <2>6. CASE t # Chan
    <3>1. \A e \in Clients : Copies(id, t)'[e] = Copies(id, t)[e] BY <2>4, <2>6
    <3> QED BY <1>1, <1>2, <1>6, <1>7, <2>1, <2>6, <3>1 DEF Account
  <2> QED BY <2>5, <2>6
<1>12. CASE Ends(c)
  <2>1. /\ Chan \in Left(c) /\ Left(c)' = Left(c) \ {Chan}
        /\ pc[c] = "tell" /\ pc'[c] = "next" /\ rest[c] = {}
        /\ \A d \in Clients : Copies(id, t)'[d] = Copies(id, t)[d]
    BY <1>4, <1>5, <1>12 DEF Ends
  <2>2. CASE t = Chan
    <3>1. HalfTold(c, id) BY <1>1, <2>1, <2>2 DEF Account
    <3>2. Served(c, id, t) BY <2>1, <2>2, <3>1 DEF HalfTold, Served, TypeOK
    <3> QED BY <1>2, <1>6, <2>1, <2>2, <3>2 DEF Account
  <2>3. CASE t # Chan
    BY <1>1, <1>2, <1>6, <1>7, <2>1, <2>3 DEF Account
  <2> QED BY <2>2, <2>3
<1> QED BY <1>8, <1>9, <1>10, <1>11, <1>12, ServeSteps

(* Every step keeps the accounts of all commands.                          *)
LEMMA AccountsStep ==
  ASSUME TypeOK, Commanding, AtCommand, Numbered, Accounts,
         NEW c \in Clients, Asks(c) \/ Works(c)
  PROVE  Accounts'
<1> SUFFICES ASSUME NEW id \in DOMAIN asked', NEW b \in Clients,
                    NEW t \in Clients \cup {Chan}, Asked(id, b, t)'
             PROVE  Account(b, id, t)'
  BY DEF Accounts
<1>1. ASSUME id \in DOMAIN asked, asked'[id] = asked[id]
      PROVE  Account(b, id, t)'
  <2>1. b = asked[id].from /\ asked[id].what = "PRIVMSG" BY <1>1 DEF Asked
  <2>2. member \subseteq Clients BY DEF TypeOK
  <2>3. Account(b, id, t) BY <1>1 DEF Accounts, Asked
  <2>4. Account(b, id, t)'
    <3>1. CASE b = c /\ Works(c) /\ line[c].id = id
      <4>1. line[c].what = "PRIVMSG" BY <2>1, <3>1, OwnFrame DEF AtCommand
      <4> QED BY <2>3, <3>1, <4>1, OwnAccount
    <3>2. CASE ~ (b = c /\ Works(c) /\ line[c].id = id)
      <4>1. Works(c) => line[c].id # id
        <5>1. Works(c) => asked[line[c].id].from = c BY OwnFrame DEF AtCommand
        <5> QED BY <2>1, <3>2, <5>1
      <4>2. \A d \in Clients : Copies(id, t)'[d] = Copies(id, t)[d] BY <4>1, OtherCopies
      <4>3. member' \subseteq member BY LockFrame
      <4>4. Served(b, id, t) => Served(b, id, t)' BY <2>2, <4>2, <4>3 DEF Served
      <4>5. Untold(id, t) => Untold(id, t)' BY <4>2 DEF Untold
      <4>6. CASE b # c
        <5>1. /\ pc'[b] = pc[b] /\ line'[b] = line[b]
              /\ targets'[b] = targets[b] /\ rest'[b] = rest[b]
          BY <4>6, OthersFrame
        <5>2. ToServe(b, id, t)' <=> ToServe(b, id, t) BY <5>1 DEF ToServe, Left
        <5>3. t = Chan /\ HalfTold(b, id) => HalfTold(b, id)'
          BY <4>2, <4>3, <5>1 DEF HalfTold
        <5> QED BY <2>3, <4>4, <4>5, <5>1, <5>2, <5>3 DEF Account
      <4>7. CASE b = c
        <5>1. ~ ToServe(c, id, t) /\ ~ ToServe(c, id, t)'
          <6>1. CASE Works(c) BY <4>1, <6>1, OwnFrame DEF ToServe
          <6>2. CASE Asks(c)
            <7>1. pc[c] = "idle" /\ line'[c].id = Len(asked) + 1 BY <6>2, AskFacts
            <7>2. id \in 1..Len(asked) /\ Len(asked) \in Nat BY <1>1 DEF TypeOK
            <7> QED BY <7>1, <7>2 DEF ToServe
          <6> QED BY <6>1, <6>2
        <5> QED BY <2>3, <4>4, <4>7, <5>1 DEF Account
      <4> QED BY <4>6, <4>7
    <3> QED BY <3>1, <3>2
  <2> QED BY <2>4
<1>2. CASE Works(c)
  BY <1>1, <1>2, WorksAsked
<1>3. CASE Asks(c)
  <2>1. CASE id \in DOMAIN asked
    BY <1>1, <1>3, <2>1, AskedFacts
  <2>2. CASE id \notin DOMAIN asked
    <3>1. id = Len(asked) + 1 /\ Len(asked) \in Nat BY <1>3, <2>2, AskedFacts
    <3>2. b = c /\ line'[c].what = "PRIVMSG" /\ t \in Left(c)'
      BY <1>3, <3>1, AskedFacts DEF Asked, Left
    <3>3. pc'[c] = "next" /\ line'[c].id = id /\ inbox' = inbox
      BY <1>3, <3>1, <3>2, AskFacts
    <3>5. ToServe(c, id, t)' BY <3>2, <3>3 DEF ToServe
    <3>6. Untold(id, t)'
      <4>1. ASSUME NEW d \in Clients PROVE Copies(id, t)'[d] = 0
        <5>1. \A k \in DOMAIN inbox[d] : inbox[d][k].id # id
          BY <3>1, EntryType DEF Numbered
        <5>2. Spots(d, id, t) = {} BY <5>1 DEF Spots
        <5>3. Copies(id, t)[d] = Cardinality(Spots(d, id, t)) BY DEF Copies, Spots
        <5>4. Copies(id, t)' = Copies(id, t) BY <3>3 DEF Copies
        <5> QED BY <5>2, <5>3, <5>4, FS_EmptySet
      <4> QED BY <4>1 DEF Untold
    <3>7. Account(c, id, t)' BY <3>3, <3>5, <3>6 DEF Account
    <3> QED BY <3>2, <3>7
  <2> QED BY <2>1, <2>2
<1> QED BY <1>2, <1>3

(* The accounts are right at all times, when no list names a target twice. *)
LEMMA AccountInvariance ==
  ASSUME Distinct
  PROVE  Spec => []AccountInv
<1>1. Init => AccountInv
  <2> SUFFICES ASSUME Init PROVE AccountInv OBVIOUS
  <2>1. /\ DOMAIN asked = {}
        /\ \A c \in Clients :
             pc[c] = "idle" /\ DOMAIN targets[c] = {} /\ DOMAIN inbox[c] = {}
    BY DEF Init
  <2> QED BY <2>1 DEF AccountInv, AtCommand, Numbered, Accounts
<1>2. IInv /\ AccountInv /\ [Next]_vars => AccountInv'
  <2> SUFFICES ASSUME IInv, AccountInv, [Next]_vars PROVE AccountInv' OBVIOUS
  <2>1. CASE Next
    <3>1. PICK c \in Clients : Asks(c) \/ Works(c) BY <2>1, NextSteps
    <3> USE DEF IInv, AccountInv
    <3>2. AtCommand' BY <3>1, AtCommandStep
    <3>3. Numbered' BY <3>1, NumberedStep
    <3>4. Accounts' BY <3>1, AccountsStep
    <3> QED BY <3>2, <3>3, <3>4
  <2>2. CASE UNCHANGED vars
    <3>1. AtCommand' BY <2>2 DEF vars, locks, AccountInv, AtCommand
    <3>2. Numbered' BY <2>2 DEF vars, locks, AccountInv, Numbered
    <3>3. Accounts'
      <4> SUFFICES ASSUME NEW id \in DOMAIN asked', NEW b \in Clients,
                          NEW t \in Clients \cup {Chan}, Asked(id, b, t)'
                   PROVE  Account(b, id, t)'
        BY DEF Accounts
      <4>1. /\ asked' = asked /\ pc' = pc /\ line' = line /\ targets' = targets
            /\ rest' = rest /\ member' = member /\ inbox' = inbox
        BY <2>2 DEF vars, locks
      <4>2. Account(b, id, t) BY <4>1 DEF AccountInv, Accounts, Asked
      <4>3. Copies(id, t)' = Copies(id, t) /\ Copies(id, Chan)' = Copies(id, Chan)
        BY <4>1 DEF Copies
      <4>4. ToServe(b, id, t)' = ToServe(b, id, t) BY <4>1 DEF ToServe, Left
      <4>5. Served(b, id, t)' = Served(b, id, t) BY <4>1, <4>3 DEF Served
      <4>6. Untold(id, t)' = Untold(id, t) BY <4>3 DEF Untold
      <4>7. HalfTold(b, id)' = HalfTold(b, id) BY <4>1, <4>3 DEF HalfTold
      <4> QED BY <4>1, <4>2, <4>4, <4>5, <4>6, <4>7 DEF Account
    <3> QED BY <3>1, <3>2, <3>3 DEF AccountInv
  <2> QED BY <2>1, <2>2
<1> QED BY <1>1, <1>2, Invariance, PTL DEF Spec

(* When a PRIVMSG is over, every target of its list was served with one    *)
(* line, or its sender with one error, if no list names a target twice: a  *)
(* target that is named twice gets two lines.                              *)
THEOREM EveryTargetServed ==
  ASSUME Distinct
  PROVE  Spec => []AllTold
<1>1. IInv /\ AccountInv => AllTold
  <2> SUFFICES ASSUME IInv, AccountInv, NEW id \in DOMAIN asked, asked[id].what = "PRIVMSG",
                      NEW c, c = asked[id].from, pc[c] = "idle" \/ line[c].id # id,
                      NEW i \in DOMAIN asked[id].list, NEW t, t = asked[id].list[i],
                      NEW n, n = Copies(id, t)
               PROVE  \/ t # Chan /\ n = [d \in Clients |-> IF d = t THEN 1 ELSE 0]
                      \/ n = [d \in Clients |-> IF d = c THEN 1 ELSE 0]
                      \/ /\ t = Chan /\ n[c] = 0
                         /\ \A d \in Clients : n[d] \leq 1
                         /\ \A d \in member \ {c} : n[d] = 1
    BY DEF AllTold
  <2>1. ~ ToServe(c, id, t) BY DEF ToServe
  <2>2. c \in Clients /\ t \in Clients \cup {Chan}
    <3> DEFINE cmd == asked[id]
    <3>1. cmd \in Commands BY DEF IInv, TypeOK
    <3> HIDE DEF cmd
    <3>2. cmd.from \in Clients /\ cmd.list \in Seq(Clients \cup {Chan})
      BY <3>1 DEF Commands
    <3>3. \A k \in DOMAIN cmd.list : cmd.list[k] \in Clients \cup {Chan} BY <3>2
    <3> QED BY <3>2, <3>3 DEF cmd
  <2>3. Account(c, id, t) BY <2>2 DEF AccountInv, Accounts, Asked
  <2>5. Served(c, id, t) BY <2>1, <2>3 DEF Account
  <2>4. n = [d \in Clients |-> n[d]] BY DEF Copies
  <2> QED BY <2>4, <2>5 DEF Served
<1> QED BY <1>1, Invariance, AccountInvariance, PTL
===============================================================================
