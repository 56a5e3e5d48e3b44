---------------------------------- MODULE Talk ----------------------------------
(***************************************************************************)
(* What the members of a channel hear, and in which order: PRIVMSG and     *)
(* NOTICE with their lists of targets, TOPIC, KICK, PART and QUIT.         *)
(*                                                                         *)
(* add_output is called for one receiver after the other.  What goes to a  *)
(* channel goes out under _channel_m, and KICK takes the member out under  *)
(* the same lock; a PART or QUIT lets go of it between the telling and the *)
(* taking out, and holds _ch_list_lock over both.  What goes to a nickname *)
(* needs the client list only while it is looked up.                       *)
(*                                                                         *)
(* One channel is followed from a time when all clients are in it; nobody  *)
(* joins it again (Roster has JOIN), nicknames stay as they are (Roster,   *)
(* Registration), and nobody is an IRC operator.                           *)
(***************************************************************************)
EXTENDS Naturals, Sequences, FiniteSets

CONSTANTS
  Clients,   \* the clients, by their nicknames
  Chan,      \* the channel, as a target
  Lists,     \* the lists of targets of PRIVMSG and NOTICE
  MaxAsked,  \* bound on the commands
  NoOne      \* a lock is free, a line comes from the server

ASSUME TalkAssumption ==
  /\ Chan \notin Clients /\ NoOne \notin Clients
  /\ Lists \subseteq Seq(Clients \cup {Chan}) /\ MaxAsked \in Nat

VARIABLES
  member,    \* _member
  removed,   \* clients in state UNAVAIL
  mapLock,   \* who writes under _ch_list_lock
  lock,      \* who holds _channel_m
  pc,        \* what the command of a client does next
  line,      \* the line it is about to send
  targets,   \* the targets it has left
  rest,      \* whom it has left to tell under the lock
  inbox,     \* what was given to add_output of a client
  asked      \* history: the commands, with their lists of targets

vars == <<member, removed, mapLock, lock, pc, line, targets, rest, inbox, asked>>
locks == <<mapLock, lock>>

Line(id, from, what, to) == [id |-> id, from |-> from, what |-> what, to |-> to]

Init ==
  /\ member = Clients /\ removed = {}
  /\ mapLock = NoOne /\ lock = NoOne
  /\ pc = [c \in Clients |-> "idle"]
  /\ line = [c \in Clients |-> Line(0, c, "none", Chan)]
  /\ targets = [c \in Clients |-> <<>>]
  /\ rest = [c \in Clients |-> {}]
  /\ inbox = [c \in Clients |-> <<>>]
  /\ asked = <<>>

Goto(c, p) == pc' = [pc EXCEPT ![c] = p]
AddOutput(d, l) == inbox' = [inbox EXCEPT ![d] = Append(@, l)]
ReplySend(c, numeric, to) == AddOutput(c, Line(line[c].id, NoOne, numeric, to))

(* A command of the client begins.                                         *)
Begin(c, p, what, to, list) ==
  /\ pc[c] = "idle" /\ c \notin removed /\ Len(asked) < MaxAsked
  /\ asked' = Append(asked, [from |-> c, what |-> what, list |-> list])
  /\ line' = [line EXCEPT ![c] = Line(Len(asked'), c, what, to)]
  /\ targets' = [targets EXCEPT ![c] = list]
  /\ Goto(c, p)
  /\ UNCHANGED <<member, locks, rest, inbox>>

(* find_chan: the channel leaves the map with its last member.             *)
FoundChan == mapLock = NoOne /\ member # {}
LostChan == mapLock = NoOne /\ member = {}

------------------------------------------------------------------------------
(* PRIVMSG and NOTICE go through their targets.                            *)
Speak(c) == \E list \in Lists : Begin(c, "next", "PRIVMSG", Chan, list) /\ UNCHANGED removed

Target(c, t) ==
  /\ pc[c] = "next" /\ targets[c] # <<>> /\ Head(targets[c]) = t
  /\ line' = [line EXCEPT ![c].to = t]
  /\ UNCHANGED <<member, removed, locks, rest, asked>>

Onward(c) == targets' = [targets EXCEPT ![c] = Tail(@)]

SpeakToChan(c) ==
  /\ Target(c, Chan)
  /\ \/ FoundChan /\ Goto(c, "lock") /\ UNCHANGED <<targets, inbox>>
     \/ LostChan /\ ReplySend(c, "404", Chan) /\ Onward(c) /\ UNCHANGED pc

SpeakToClient(c) ==
  \E d \in Clients :
    /\ Target(c, d)
    /\ \/ d \notin removed /\ Goto(c, "give") /\ UNCHANGED <<targets, inbox>>
       \/ d \in removed /\ ReplySend(c, "401", d) /\ Onward(c) /\ UNCHANGED pc

Give(c) ==
  /\ pc[c] = "give"
  /\ AddOutput(line[c].to, line[c])
  /\ Onward(c) /\ Goto(c, "next")
  /\ UNCHANGED <<member, removed, locks, line, rest, asked>>

AllTargets(c) ==
  /\ pc[c] = "next" /\ targets[c] = <<>>
  /\ Goto(c, "idle")
  /\ UNCHANGED <<member, removed, locks, line, targets, rest, inbox, asked>>

------------------------------------------------------------------------------
(* TOPIC, KICK and PART begin with find_chan, KICK then finds the client.  *)
(* The replies to a command that is refused stay with its sender.          *)
Topic(c) == FoundChan /\ Begin(c, "lock", "TOPIC", Chan, <<>>) /\ UNCHANGED removed

KickFind(c) ==
  \E d \in Clients \ removed :
    FoundChan /\ Begin(c, "lock", "KICK", d, <<>>) /\ UNCHANGED removed

PartCheck(c) ==
  /\ FoundChan /\ lock = NoOne /\ c \in member
  /\ Begin(c, "echo", "PART", Chan, <<>>) /\ UNCHANGED removed

(* leave_chan has the map from here on; the sender is told before the lock *)
(* of the channel is taken.                                                *)
PartEcho(c) ==
  /\ pc[c] = "echo" /\ mapLock = NoOne
  /\ mapLock' = c
  /\ AddOutput(c, line[c])
  /\ Goto(c, "lock")
  /\ UNCHANGED <<member, removed, lock, line, targets, rest, asked>>

(* QUIT, or the end of the connection: remove_client, then                 *)
(* leave_all_channel.                                                      *)
Quit(c) == Begin(c, "quit", "QUIT", Chan, <<>>) /\ removed' = removed \cup {c}

LeaveAllChannel(c) ==
  /\ pc[c] = "quit" /\ mapLock = NoOne
  /\ mapLock' = c
  /\ Goto(c, "lock")
  /\ UNCHANGED <<member, removed, lock, line, targets, rest, inbox, asked>>

------------------------------------------------------------------------------
(* Whom a line to the channel goes to: all members, but for the talker of  *)
(* what channel_output sends; set_topic and kick_user tell it too.         *)
Told(c) == IF line[c].what \in {"TOPIC", "KICK"} THEN member ELSE member \ {c}

(* The _is_user tests under the lock.                                      *)
MutantMaySend(c) == line[c].what = "KICK" => line[c].to \in member
MaySend(c) ==
  /\ c \in member
  /\ line[c].what = "KICK" => line[c].to \in member

MutantFreeFor(c) == TRUE
FreeFor(c) == lock = NoOne

Lock(c) ==
  /\ pc[c] = "lock" /\ FreeFor(c)
  /\ line[c].what = "KICK" => mapLock = NoOne
  /\ mapLock' = IF line[c].what = "KICK" THEN c ELSE mapLock
  /\ lock' = c
  /\ \/ MaySend(c) /\ rest' = [rest EXCEPT ![c] = Told(c)] /\ Goto(c, "tell")
     \/ /\ ~ MaySend(c) \/ line[c].what \in {"TOPIC", "KICK"}
        /\ UNCHANGED rest /\ Goto(c, "refused")
  /\ UNCHANGED <<member, removed, line, targets, inbox, asked>>

(* _channel_output: one member after the other.                            *)
Tell(c) ==
  /\ pc[c] = "tell"
  /\ \E d \in rest[c] :
       /\ AddOutput(d, line[c])
       /\ rest' = [rest EXCEPT ![c] = @ \ {d}]
  /\ UNCHANGED <<member, removed, locks, pc, line, targets, asked>>

MutantLeftUnder(c) == {}
LeftUnder(c) == IF line[c].what = "KICK" THEN {line[c].to} ELSE {}

(* What comes after the lock of the channel: the next target, the taking   *)
(* out of a PART or QUIT, the end of the command.                          *)
After(what) ==
  CASE what = "PRIVMSG" -> "next"
    [] what \in {"PART", "QUIT"} -> "out"
    [] OTHER -> "idle"

Unlock(c) ==
  LET what == line[c].what
  IN  /\ pc[c] = "tell" /\ rest[c] = {}
      /\ member' = member \ LeftUnder(c)
      /\ lock' = NoOne
      /\ mapLock' = IF what = "KICK" THEN NoOne ELSE mapLock
      /\ Goto(c, After(what))
      /\ IF what = "PRIVMSG" THEN Onward(c) ELSE UNCHANGED targets
      /\ UNCHANGED <<removed, line, rest, inbox, asked>>

(* The lock is let go of before reply_send.  (442 is 441 or 482 as well.)  *)
MutantRefusal(what) == IF what \in {"TOPIC", "KICK"} THEN {"442"} ELSE {}
Refusal(what) ==
  CASE what = "PRIVMSG" -> {"404"}
    [] what \in {"TOPIC", "KICK"} -> {"442"}
    [] OTHER -> {}

Refused(c) ==
  LET what == line[c].what
  IN  /\ pc[c] = "refused"
      /\ lock' = NoOne
      /\ mapLock' = IF what = "KICK" THEN NoOne ELSE mapLock
      /\ Goto(c, After(what))
      /\ IF what = "PRIVMSG" THEN Onward(c) ELSE UNCHANGED targets
      /\ IF Refusal(what) = {} THEN UNCHANGED inbox
         ELSE \E n \in Refusal(what) : ReplySend(c, n, Chan)
      /\ UNCHANGED <<member, removed, line, rest, asked>>

(* remove_user, and the ERROR line for a QUIT that is a command.           *)
TakeOut(c) ==
  /\ pc[c] = "out" /\ lock = NoOne
  /\ member' = member \ {c}
  /\ mapLock' = NoOne
  /\ \/ line[c].what = "QUIT" /\ AddOutput(c, Line(line[c].id, NoOne, "ERROR", c))
     \/ UNCHANGED inbox
  /\ Goto(c, "idle")
  /\ UNCHANGED <<removed, lock, line, targets, rest, asked>>

Next ==
  \E c \in Clients :
    \/ Speak(c) \/ SpeakToChan(c) \/ SpeakToClient(c) \/ Give(c) \/ AllTargets(c)
    \/ Topic(c) \/ KickFind(c) \/ PartCheck(c) \/ PartEcho(c) \/ Quit(c)
    \/ LeaveAllChannel(c)
    \/ Lock(c) \/ Tell(c) \/ Unlock(c) \/ Refused(c) \/ TakeOut(c)

Spec == Init /\ [][Next]_vars

------------------------------------------------------------------------------
(* What came to the client through the channel, under its lock: not the    *)
(* PART that its sender is told first, out of it.                          *)
ViaChan(d, l) ==
  /\ l.from # NoOne /\ (l.to = Chan \/ l.what = "KICK")
  /\ ~ (l.what = "PART" /\ l.from = d)

(* All members hear what goes through the channel in one and the same      *)
(* order, from whomever it comes: each line goes to all of them before the *)
(* next one to anybody.                                                    *)
SameOrder ==
  \A d, e \in Clients :
    \A i, j \in DOMAIN inbox[d] : \A k, m \in DOMAIN inbox[e] :
      (/\ i < j /\ inbox[d][i] = inbox[e][m] /\ inbox[d][j] = inbox[e][k]
       /\ \A l \in {inbox[d][i], inbox[d][j]} : ViaChan(d, l) /\ ViaChan(e, l))
      => m < k

(* Who was kicked hears nothing of the channel any more after its KICK.    *)
(* (After the PART it is told of first, a client still may.)               *)
KickedHearsNothing ==
  \A d \in Clients : \A i, j \in DOMAIN inbox[d] :
    (i < j /\ inbox[d][i].what = "KICK" /\ inbox[d][i].to = d) => ~ ViaChan(d, inbox[d][j])

(* Nobody speaks in a channel after the members were told that it left:    *)
(* not the client that had found the channel, and waited for its lock,     *)
(* when it was kicked, and not one in the middle of its own PART or QUIT.  *)
LastWords ==
  \A e \in Clients : \A i, j \in DOMAIN inbox[e] :
    LET gone == inbox[e][i]
        late == inbox[e][j]
    IN  ~ /\ i < j /\ ViaChan(e, gone) /\ ViaChan(e, late)
          /\ \/ gone.what = "KICK" /\ gone.to = late.from
             \/ gone.what \in {"PART", "QUIT"} /\ gone.from = late.from

Copies(id, t) ==
  [d \in Clients |-> Cardinality({i \in DOMAIN inbox[d] :
     inbox[d][i].id = id /\ inbox[d][i].to = t})]

(* When the command is over, every target of a PRIVMSG was served: a       *)
(* nickname has its line, or the sender an error; the channel's members,   *)
(* but those that left since, have it, once, or the sender has an error.   *)
AllTold ==
  \A id \in DOMAIN asked :
    LET c == asked[id].from
    IN  asked[id].what = "PRIVMSG" /\ (pc[c] = "idle" \/ line[c].id # id) =>
          \A i \in DOMAIN asked[id].list :
            LET t == asked[id].list[i]
                n == Copies(id, t)
            IN  \/ t # Chan /\ n = [d \in Clients |-> IF d = t THEN 1 ELSE 0]
                \/ n = [d \in Clients |-> IF d = c THEN 1 ELSE 0]
                \/ /\ t = Chan /\ n[c] = 0
                   /\ \A d \in Clients : n[d] \leq 1
                   /\ \A d \in member \ {c} : n[d] = 1
==============================================================================
