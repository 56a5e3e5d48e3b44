----------------------------------- MODULE Bot -----------------------------------
(***************************************************************************)
(* The bot of IRCbot (Bot.cpp, BotCore.cpp) and the server it talks to.    *)
(*                                                                         *)
(* The bot sends PASS, NICK and USER at once and then only answers: a      *)
(* refused nickname with a longer one, an INVITE with a JOIN, a JOIN and a *)
(* question with a NOTICE.  The server side is Registration, where the bot *)
(* is a client whose commands are the lines it sent, while the others do   *)
(* whatever they want, with the nicknames of the bot too.  Lines keep      *)
(* their order on both ways (Framing).                                     *)
(***************************************************************************)
EXTENDS Registration, Sequences

CONSTANTS
  Bot,         \* the bot among the clients
  Tries,       \* BOT_NICK, then with one "_" more each; bound on the tries
  MaxAsked     \* bound on what the others send to the bot

ASSUME BotAssumption ==
  /\ Bot \in Clients
  /\ Tries \in Seq(Nicks) \ {<<>>}
  /\ \A i, j \in DOMAIN Tries : Tries[i] = Tries[j] => i = j
  /\ MaxAsked \in Nat

VARIABLES
  try,        \* _bot_nick is Tries[try]
  toServer,   \* the lines on their way to the server
  toBot,      \* the lines on their way to the bot
  inside,     \* the bot is in the channel
  asked       \* how much the others have sent to the bot

botVars == <<try, toServer, toBot, inside, asked>>
allVars == <<vars, botVars>>

BotNick == Tries[try]
Line(cmd, arg1, from) == [cmd |-> cmd, arg |-> arg1, from |-> from]

(* run: the first lines go out together; USER is there before any answer.  *)
FirstLines == <<Line("PASS", Star, Bot), Line("NICK", BotNick, Bot),
                Line("USER", Star, Bot)>>

BotInit ==
  /\ Init /\ try = 1 /\ inside = FALSE /\ asked = 0
  /\ toServer = <<>> /\ toBot = <<>>

Started ==
  /\ Connect(Bot)
  /\ toServer' = FirstLines
  /\ UNCHANGED <<try, toBot, inside, asked>>

------------------------------------------------------------------------------
(* The server takes up the next line of the bot.                           *)
Takes(cmd) == toServer # <<>> /\ Head(toServer).cmd = cmd

Reply(lines) ==
  /\ toServer' = Tail(toServer)
  /\ toBot' = toBot \o lines
  /\ UNCHANGED <<try, inside, asked>>

Numeric(n) == Line(n, Star, NoClient)

TakePass ==
  /\ Takes("PASS")
  /\ \/ Pass(Bot) /\ Reply(<<>>)
     \/ PassWrong(Bot) /\ Reply(<<Numeric("464")>>)

TakeNick ==
  /\ Takes("NICK") /\ Admitted(Bot)
  /\ LET n == Head(toServer).arg
     IN  \/ /\ InUse(n) /\ Reply(<<Numeric("433")>>)
            /\ \/ NickFirst(Bot, n)
               \/ ustate[Bot] = "NEEDNICK" /\ UNCHANGED vars
         \/ /\ ~ InUse(n) /\ Reply(<<>>)
            /\ NickFirst(Bot, n) \/ NickAgain(Bot, n)

TakeUser == Takes("USER") /\ User(Bot, TRUE) /\ Reply(<<>>)

(* The registration that a NICK or a USER brought about.                   *)
FinishLine ==
  /\ RegClient(Bot)
  /\ toBot' = Append(toBot, Numeric("001"))
  /\ UNCHANGED <<try, toServer, inside, asked>>

TakeJoin ==
  /\ Takes("JOIN") /\ Idle(Bot)
  /\ \/ /\ toServer' = Tail(toServer)
        /\ toBot' = Append(toBot, Line("JOIN", Star, nick[Bot]))
        /\ inside' = TRUE
        /\ UNCHANGED <<try, asked>>
     \/ Reply(<<Numeric("473")>>)
  /\ UNCHANGED vars

(* A NOTICE to the channel comes back only as an error, one to a nickname  *)
(* goes to whoever is found under it.                                      *)
TakeNotice ==
  /\ Takes("NOTICE") /\ Idle(Bot)
  /\ LET to == Head(toServer).arg
     IN  Reply(IF to = Star THEN (IF inside THEN <<>> ELSE <<Numeric("404")>>)
               ELSE IF ~ InUse(to) THEN <<Numeric("401")>>
               ELSE IF nickList[to] = Bot THEN <<Line("NOTICE", to, nick[Bot])>>
               ELSE <<>>)
  /\ UNCHANGED vars

(* What it sent before it was removed.                                     *)
TakeInVain ==
  /\ toServer # <<>> /\ ustate[Bot] \in {"UNAVAIL", "CLOSE"}
  /\ Reply(<<>>)
  /\ UNCHANGED vars

------------------------------------------------------------------------------
(* The bot takes up the next line it received; BotCore knows four.         *)
Hears(cmd) == toBot # <<>> /\ Head(toBot).cmd = cmd

Answer(lines) ==
  /\ toBot' = Tail(toBot)
  /\ toServer' = toServer \o lines
  /\ UNCHANGED <<vars, inside, asked>>

MutantReNick ==
  /\ Hears("433") /\ try < Len(Tries)
  /\ Answer(<<Line("NICK", Tries[try + 1], Bot)>>)
  /\ UNCHANGED try
MutantReNickSame ==
  /\ Hears("433") /\ try < Len(Tries)
  /\ Answer(<<Line("NICK", BotNick, Bot)>>)
  /\ UNCHANGED try
ReNick ==
  /\ Hears("433") /\ try < Len(Tries)
  /\ try' = try + 1
  /\ Answer(<<Line("NICK", Tries[try + 1], Bot)>>)

OnInvite == Hears("INVITE") /\ Answer(<<Line("JOIN", Star, Bot)>>) /\ UNCHANGED try

(* A welcome to the one that joined, or a greeting of its own.             *)
OnJoin == Hears("JOIN") /\ Answer(<<Line("NOTICE", Star, Bot)>>) /\ UNCHANGED try

(* The answer goes to the target of the question, which is the channel, or *)
(* the bot itself when it was asked directly.                              *)
MutantQuestions == {"PRIVMSG", "NOTICE"}
Questions == {"PRIVMSG"}

OnPrivmsg ==
  /\ toBot # <<>> /\ Head(toBot).cmd \in Questions
  /\ Answer(<<Line("NOTICE", Head(toBot).arg, Bot)>>)
  /\ UNCHANGED try

(* Other commands, and a text that no "!" begins.                          *)
Ignores ==
  /\ toBot # <<>> /\ Head(toBot).cmd \notin {"433", "INVITE", "JOIN"}
  /\ Answer(<<>>)
  /\ UNCHANGED try

------------------------------------------------------------------------------
(* The others: their own commands, and what reaches the bot from them.     *)
Reaches(line) ==
  /\ asked < MaxAsked
  /\ asked' = asked + 1
  /\ toBot' = Append(toBot, line)
  /\ UNCHANGED <<vars, try, toServer, inside>>

Speaks(c) == Idle(c) /\ c \in Registered
BotFound == Bot \in Registered /\ nickList[nick[Bot]] = Bot

Invited(c) ==
  /\ Speaks(c) /\ BotFound /\ ~inside
  /\ Reaches(Line("INVITE", nick[Bot], nick[c]))

Joined(c) == Speaks(c) /\ inside /\ Reaches(Line("JOIN", Star, nick[c]))

Asked(c) ==
  /\ Speaks(c)
  /\ \/ inside /\ Reaches(Line("PRIVMSG", Star, nick[c]))
     \/ BotFound /\ Reaches(Line("PRIVMSG", nick[Bot], nick[c]))

KickedOut ==
  /\ inside
  /\ inside' = FALSE
  /\ toBot' = Append(toBot, Line("KICK", nick[Bot], NoClient))
  /\ UNCHANGED <<vars, try, toServer, asked>>

ServerNext ==
  \/ TakePass \/ TakeNick \/ TakeUser \/ FinishLine \/ TakeJoin \/ TakeNotice
  \/ TakeInVain \/ (CloseClient(Bot) /\ UNCHANGED botVars)

BotCoreNext == ReNick \/ OnInvite \/ OnJoin \/ OnPrivmsg \/ Ignores

OthersNext ==
  \/ KickedOut
  \/ \E c \in Clients \ {Bot} :
       \/ ClientNext(c) /\ UNCHANGED botVars
       \/ Invited(c) \/ Joined(c) \/ Asked(c)

BotNext == Started \/ ServerNext \/ BotCoreNext \/ OthersNext

(* The threads of the server and the loop of the bot run; nobody else has  *)
(* to do anything.                                                         *)
BotSpec ==
  /\ BotInit /\ [][BotNext]_allVars
  /\ WF_allVars(Started) /\ WF_allVars(ServerNext) /\ WF_allVars(BotCoreNext)
------------------------------------------------------------------------------
Pending(queue, cmd) == \E i \in DOMAIN queue : queue[i].cmd = cmd

(* The bot and the server agree on its nickname, which the bot never reads *)
(* from an answer: what the server has is what the bot has, and once it is *)
(* registered no NICK of it and no refusal is on the way.  By it the bot   *)
(* tells its own JOIN from those it has to welcome.                        *)
NickInSync ==
  /\ (nick[Bot] # Star => nick[Bot] = BotNick)
  /\ Bot \in Registered => ~ Pending(toServer, "NICK") /\ ~ Pending(toBot, "433")

(* The bot gets registered, however often its nickname is taken while it   *)
(* tries the next one, if its password is right and the tries do not run   *)
(* out.  NICK after a refusal registers only a client that gave USER.      *)
BotRegisters ==
  <>(\/ Bot \in Registered \/ try = Len(Tries)
     \/ ustate[Bot] \in {"UNAVAIL", "CLOSE"})

(* When the others send nothing more, the bot and the server fall silent:  *)
(* no answer of the bot, its own JOIN and a NOTICE to itself among them,   *)
(* makes it answer for ever.                                               *)
QuietsDown ==
  <>[](/\ toServer = <<>>
       /\ \/ toBot = <<>>
          \/ Hears("433") /\ try = Len(Tries))
==============================================================================
