# ft_irc in TLA+

TLA+ models of the multithreaded IRC server in `src/` (one main thread on
kqueue, twelve worker threads, lists shared under read-write locks and objects
shared under reference-counted pointers), the TLC configurations that check
them on small instances, and TLAPS proofs of what holds for every instance.

## The system

| Part | State | Operations | Source |
|---|---|---|---|
| Main loop | `ev_list`, `server_run` | dispatch of errors, connections, READ and WRITE events; stop | `Server.cpp` |
| Event queue | `_change_list`, `tmp_list`, the kernel's knotes | `reg_event` (any thread), `get_event` (main) | `Eventq.cpp` |
| Worker queue | `_msgQ` with its mutex and condition, `_worker_status` | `reg_msg`, `destroy`, the wait of the worker loop | `Worker.cpp` |
| Client | `_user_state`, `_passwd_ok`, nickname, buffers, `_chan` | `client_read`, `client_write`, `get_input_buffer`, `add_output` | `Client.cpp` |
| Registry | `_cl_list`, `_cl_nick_list`, `_client_id_cnt`, `_channel` | add, register, find, rename, remove, close; join, leave, kick, leave all | `ClientInfo.cpp` |
| Commands | none of their own | PASS NICK USER JOIN PART KICK INVITE MODE TOPIC PRIVMSG NOTICE OPER PING QUIT | `Operator.cpp` |
| Channel | members, operators, invite list, modes, key, limit, topic | `add_user`, `kick_user`, `add_invite`, `mode_set`, ... | `Channel.cpp` |
| Bot | its nickname, buffers | answers INVITE, JOIN, PRIVMSG, 433 | `IRCbot/` |

How they interact.  Main takes events from kevent; for a client's event it first
registers a DISABLE of the knote and then pushes a message for the workers.  A
worker looks the client up by descriptor, compares its id with the one in the
message, reads, runs the commands of the buffered lines, and registers an
ENABLE.  A command works on the registry and on channels under their locks, and
queues output for clients, which registers an ENABLE of their WRITE knote.
Nothing registered reaches the kernel before main is back in `get_event`.  A
client's descriptor is closed when the last reference to its object goes.

What is hard here, and seldom met in a test:

* the delay between a registered change and kevent, in which a worker may close
  the descriptor and main may accept another client on it;
* DISABLE, ENABLE and new output of several threads crossing each other in the
  change list, where one wrong order leaves a client deaf or its output stuck;
* removal and closing being two steps, of two workers, by descriptor;
* checks and updates under separate acquisitions of a lock: nicknames, PART,
  INVITE, and channel references that outlive the channel's place in the map;
* two functions that count the arguments of MODE by different rules;
* members told one after the other, and outside the step that changes the
  channel: JOIN, NAMES, PART, KICK, NICK and TOPIC of several clients overlap;
* bytes cut anywhere, and an index whose arithmetic is meant to wrap around;
* `destroy` without the mutex.

PROJECT.json lists these hazards at their lines with the properties about them.

Correct means, part by part.  Worker queue: every message handled, once, and in
the order of registration when popped; no worker asleep while messages wait;
the stop returns.  Event loop: one reader per client, no deaf client, no stuck
output, removed clients closed, nothing done to a client on behalf of an earlier
one on its descriptor.  Registry: who is registered gave everything; a nickname
leads to its owner.  Channels: operators are members, channels that can be found
have members, and the removed are in none; a MODE command does what it says and
announces what it did; what a member was told is what the channel is; all hear
the same order.  Input: the lines are those of the stream, and their words are
those of the line.  Bot: it gets registered, knows its nickname, and does not
talk to itself for ever.

## Modules

| Module | Models | Stands on |
|---|---|---|
| `MessagePool` | what the worker queue promises: messages in order, each to one worker | |
| `WorkQueue` | mutex, condition variable, wait set and program counters of main and workers | implements `MessagePool` |
| `WorkQueueProofs` | theorems about `WorkQueue` | |
| `EventLoop` | main loop, change list, kqueue, workers, clients' buffers and life | the queue as a pool |
| `EventLoopProofs` | theorems about `EventLoop` | |
| `NickDirectory` | what the nickname list promises to those who look a client up | |
| `Registration` | PASS, NICK, USER, OPER, QUIT, removal, the nickname list | one command of a client at a time (`OneCommand`); implements `NickDirectory` |
| `RegistrationProofs` | theorems about `Registration`, and about `Bot` from those | |
| `Channels` | JOIN, PART, KICK, INVITE, MODE, OPER, removal, the channel map and objects | one command of a client at a time (`OneCommand`) |
| `ChannelsProofs` | theorems about `Channels` | |
| `ModeArgs` | one MODE command: the count of `_mode` and the walk of `mode_set` | the lock over `mode_set` |
| `ModeArgsProofs` | theorems about `ModeArgs` | |
| `Roster` | JOIN with its replies, PART, KICK, QUIT, NICK, TOPIC of one channel, and the list an IRC client makes of them | one command of a client at a time (`OneCommand`) |
| `RosterProofs` | theorems about `Roster` | |
| `Talk` | PRIVMSG and NOTICE with their targets, TOPIC, KICK, PART, QUIT, told to one receiver after the other | the same |
| `TalkProofs` | theorems about `Talk` | |
| `LineStream` | what a reader of lines promises | |
| `Framing` | recv, the input buffers of server and bot, the loops over their lines | implements `LineStream` |
| `LineParser` | `_parsing_msg` of server and bot | lines of `Framing` |
| `InputProofs` | theorems about `Framing` and `LineParser` | |
| `Bot` | the bot and the server | composes with `Registration`; lines in order (`Framing`) |
| `MC*` | constants and symmetry for TLC | |

The channel is seen from three sides.  `Channels` has the objects and the map,
with references that outlive their place in it; `Roster` and `Talk` follow one
channel that stays, the first for what a client believes, the second for the
order in which clients hear; `ModeArgs` opens up the one step that MODE is in
`Channels`.

### WorkQueue

A step is what a thread does between two points where another can run.  The
program counter of a worker names the line of `_worker_thread_func` it is at;
`pthread_cond_wait` is a step into the wait set that frees the mutex, and a step
out of it once the mutex is free again, with or without a signal (POSIX allows
spurious returns).  `reg_msg` is two steps, lock and push; `destroy` is three,
none of which takes the mutex, as in the code.  Handling a message is one step
(`Serve`), which `EventLoop` opens up.

`late` is a history variable: the workers that had tested the status and not
reached the wait when `destroy` broadcast.  They are the only ones that can
sleep through it (`SleepersWereLate`, a part of `IInv`), and when there is none the join returns
(`JoinReturns`).  So the stop of the server can hang in `pthread_join`, in
exactly that window: `_worker_status` is cleared and the broadcast sent without
`_msgq_m` (`Worker.cpp:61-62`).

### EventLoop

Main's program counter goes through `get_event` (take the list, apply it, scan)
and the dispatch of the returned entries.  `RegEvents` is `reg_event`.
`ApplyChange` is the kernel's answer to one change: EBADF on a closed
descriptor, ENOENT when there is no knote.  Sockets and knotes belong to the
kernel and are marked external.  A client object is held by the client list, by
a worker's `op_cl`, or by a command under way; when nobody holds it its
descriptor is free (`Held`, `Open`) and the lowest free one is the next that
accept returns.

A worker's actions follow lines 80 to 127 of `Worker.cpp`.  What a command does
is the sequence `todo` of steps that other threads can see: registering a
DELETE, marking a client UNAVAIL, appending output, registering an ENABLE,
closing.  Lines and replies are counted, not spelled.  A client that is not
registered yet (`ustate` "NEW", for NEEDREG and NEEDNICK) sends a command that is
silent, or answered, or completes its registration (`Registering`), or removes
it.  A registered one ("LIVE", for AVAIL_USER and OPERATOR) sends a command that
is silent, or gives output to one registered client of the list, itself or
another, or removes its sender as QUIT does.  That nobody else finds a client
before it is registered, by nickname or in a channel, matters: `accept` puts a
client on a descriptor for which main may still have an event of the client
before it to disable, and if that hit a client with output waiting, the output
would stay (`Newcomers` in the proofs).  The order inside `Output` (append, then ENABLE) and `Leaving`
(remove, then the last reply) is the code's, and `WriteToCome` depends on it.

Known from the model:

* `Server.cpp:90` says the errors that the delay of `reg_event` causes are
  ENOENT.  They are EBADF too (run `event_loop_delay`), and then main answers
  with `remove_client`, which registers a DELETE of the same closed descriptor,
  which fails again.  Errors fill kevent's answer before any event does, so as
  long as the descriptor stays closed main reads no event.  Only a connection that
  gets the descriptor ends it.  `Spinning` names the situation.  When it lasts or
  comes back for ever (`Caught`) nothing can be promised, and that alone the
  liveness properties leave out: after a spin that ends, whatever waited is read
  and closed.
* A removed client whose peer is gone while output is left is never closed:
  `send` fails, the buffer stays full, the write is tried again.
* More failing changes than the event list has places make kevent fail and the
  server stop (state `failed`).
* The id that a message carries tells a client from an earlier one on its
  descriptor (`SameClient`).  Only WRITE messages can be that late: no client is
  closed while a READ message of it is under way.  None of the properties fails
  without the test, so none is claimed for it.
* An empty line ends the command loop with lines still in the buffer (`Line`).

### Registration

The client is the process: `EventLoop` shows that its commands run one at a
time.  Each action is one access to the registry under `_cl_list_lock` with what
the command does to the client's own fields before the next access, so the
check of a nickname (`NickCheck`, `InUse`) and its use (`RegClient`,
`ClientNickChange`) are separate actions, and other clients' commands come in
between.  `Inserted` and `Erased` are `std::map::insert` and `erase`: an insert
leaves an entry that is there alone, an erase takes whatever entry is there.

The code has no flag for USER.  It compares the username with `*`, which a
client may choose as well: `User` has `named`, whether the username is another
one, and `user` is what the comparison says.  The history variable `gave` has
the clients whose USER was carried out, and `RegistrationComplete` is about that.
With the username `*` the two differ: such a client is not registered by the NICK
that should do it (the comment at `Operator.cpp:267` speaks of every client that
has gone through USER), and its USER is carried out again later, once it is
registered too, which makes an IRC operator an ordinary client.

`clash` is a history variable: the nicknames that two connected clients had at a
time, which the gap makes possible.  `FoundUnlessClash` says that this is the
only way a client can become unreachable.  `LostToNamesakeOnly` has no such
exception: whenever an entry changes or goes, a connected client of that nickname
leaves or renames itself in this step (`GivesUp`), and it is the one the entry
leads to or a namesake.  A namesake can even take the other's entry over in one
step, by a rename to the nickname both have: `NickDirectory` allows it (`Swap`),
so it is visible in the promise.

### Channels

An action is what happens under one acquisition of the outermost lock.  A
command that works on a channel first gets a reference (`FindChan`) and comes
back to it later, when the object may have left the map and another may have its
name.  An object is destroyed, and its slot free for another, when neither the
map nor a reference holds it (`Keep`), so the model does not bound how many
channels come and go.  KICK looks up each name of its list and then works on the
one object it found at the start; PART tests the membership before it takes the
lock of the map; INVITE looks up the client, then the channel, then enters the
invitation.  An IRC operator counts as member and operator of every channel, as
`_is_user` and `_is_operator` do.  A MODE command sets one letter: `mode_set`
keeps the lock over all its letters.  `UserAgain` is the second USER of an IRC
operator with the username `*` (see `Registration`).

`dropped` is a history variable: the names that `leave_chan` or `kick_chan`
erased through a reference to another object (`ClientInfo.cpp:165-166,
179-180`).  It happens when a member is kicked between the test and the lock of
its PART, the channel empties and leaves the map, and someone creates it anew;
the PART then erases the new one, whose members cannot be reached any more.
`FoundWhileAlive` says that nothing else loses a channel, or leaves an empty one
in the map.  `raced` has the clients
removed while an INVITE of them was under way; only those can stay on an invite
list (`DeadInviteRaced`).  An INVITE to a channel that does not exist ends the
process (`up`), since the null reference is used.

### ModeArgs

`Filter` is one round of the loop of `_mode`, which drops unknown letters and
letters whose argument is missing; each further action is one case of the
switch in `mode_set`.  `given` is a history variable: the argument that `_mode`
counted for a letter.  The two counts differ in three ways.  A `-l` takes an
argument in `mode_set` that `_mode` did not count; an `o` or `k` with nothing to
change leaves its argument to the next letter; a nickname that is no member's
is skipped by both.  Only the first can lead past the last argument, where
`args[arg_idx]` is undefined: `MODE #c -lk key` with a limit set does
(`OverrunOnlyAfterLimitCleared`; the value read is then any word, or the process
ends, `Abort`).  The second hands a letter the argument of another:
`MODE #c +ok bob secret`, when bob is an operator already, makes `bob` the key.
Without either, the channel ends up as the letters say (`AppliedAsWritten`), and
the line the members get says what was done (`AnnouncedAsApplied`, which holds
with the second too).  Limits are numbers modulo 2^Width, since `oper_limit < 0`
refuses no `size_t`.

### Roster and Talk

`Roster` follows one client, the watcher, and the list of nicknames that an IRC
client on its side keeps (`AfterJoin` and the others, external).  The steps of
JOIN after `join_chan` take no common lock: `find_chan`, the topic, the own JOIN,
the topic's reply, the NAMES list, its reply, the JOIN to the others.  PART and
QUIT hold `_ch_list_lock` from the telling to the taking out; KICK is one step.
The properties name what may go wrong, and TLC shows each exception to be
needed:

* `left`: a client that leaves between the NAMES list being read and sent stays
  in the watcher's list;
* `renamed`: a NICK that arrives before the NAMES list names a client the
  watcher does not know yet, and the list then has the old nickname;
* `mixed`: between the change of a nickname and its NICK, a KICK names the
  client by a nickname the members never heard of, and another client may
  already have the old one; the nickname of a client that is quitting is free
  before its QUIT is told, and whoever took it takes that QUIT for its own;
* `shaken`: a KICK between `join_chan` and the own JOIN leaves the watcher
  believing it is in; a TOPIC between the reading and the reply is overwritten
  by the older one.

`Talk` splits the telling of a line into its receivers.  `_channel_m` is held
from the test of the membership to the last of them, which gives all members one
order (`SameOrder`), makes the KICK the last a client hears (`KickedHearsNothing`)
and the KICK, PART or QUIT the last others hear of one (`LastWords`).  A PART is
told to its sender before that lock is taken, so a client may still hear the
channel after its own PART.  `AllTold` accounts for every target of a list.

### Framing and LineParser

`Framing` sends every stream of a few bytes and cuts it into pieces in every
way, for one buffer, the server's or the bot's (`side`), each with its own loop
over the lines.  Both implement `LineStream` for what was received, where `kept`
takes each piece up to its first NUL, as appending a C string does.  The bot
delivers every complete line; the server does not: `get_input_buffer` answers
with an empty string for an empty line as for none, so the lines behind an empty
one wait for the next bytes (`LinesServed`).

`LineParser` keeps `size_t` arithmetic modulo 2^Width, because the walk relies on
`npos - index + index` being `npos`.  `InRange` is what keeps `substr` from
throwing, `Advances` what ends the loop, and `SplitsTheLine` compares the parts
with the words of the line, found without an index: a word starts behind a space,
and its number is that of the starts up to it (`Nth`).

### Bot

`Bot` extends `Registration`: the bot is one of its clients, whose commands are
the lines it sent; the other clients do what `ClientNext` allows, so they take,
leave and change the nicknames the bot tries, between the server's check and its
use as well.  The bot never reads which nickname it has: it counts the refusals
(`NickInSync`).  It sends PASS, NICK and USER at once, so USER is there before it
hears of a refusal, and a later NICK registers it (`BotRegisters`); a client that
waited for the answer, and sent USER after a second NICK, would not be registered
(`Operator.cpp:307-309`).  It hears its own JOIN, and its own NOTICE when it is
asked directly; neither makes it talk for ever (`QuietsDown`).  Texts are not
spelled: a PRIVMSG to it may begin with `!` and be answered, or not (`Ignores`).

## Runs

| Run | Instance | Shows | States |
|---|---|---|---|
| `work_queue` | 3 workers, 4 messages, fair | `IInv`, `EnoughAwake`, `EveryMessageHandled`, `JoinReturns`, `ImplementsPool` | 33 k |
| `event_loop` | 2 workers, 1 descriptor, 2 clients, 2 acts of the peers | `OneReader`, `NoDeafClient`, `WriteToCome`, `ClosesItsOwn` | 486 k |
| `event_loop_live` | 1 worker, 2 descriptors, 2 clients, 2 acts, fair | `InputIsRead`, `RemovedIsClosed` | 931 k |
| `event_loop_delay` | 1 worker, 1 client, 1 act | the comment at `Server.cpp:90` does not hold | |
| `registration` | 3 clients, 2 nicknames | `IInv`, `FoundUnlessClash`, `ImplementsDirectory`, `LostToNamesakeOnly` | 869 k |
| `channels` | 2 clients that may be IRC operators, 1 name, 3 objects, 2 workers, modes i, k, l | `OperatorsAreMembers`, `InvitesAreForOthers`, `FoundWhileAlive`, `DeadInviteRaced`, `NoDeadMember` | 1.5 M |
| `mode_args` | 2 members, 5 words, 3 letters, 2 arguments, 3-bit limits | `OverrunOnlyAfterLimitCleared`, `AppliedAsWritten`, `AnnouncedAsApplied` | 4.8 M |
| `line_parser` | lines of up to 7 characters, 4-bit positions | `InRange`, `SplitsTheLine`, `Advances` | 67 k |
| `framing` | streams of up to 6 bytes, pieces of up to 4, fair | `ImplementsStream`, `LinesServed` | 252 k |
| `roster` | 3 clients, 4 nicknames, 2 topics | `NobodyMissing`, `NoGhosts`, `KnowsWhetherItIsIn`, `ShowsTheTopic` | 3.2 M |
| `talk` | 3 clients, 3 commands | `SameOrder`, `KickedHearsNothing`, `LastWords`, `AllTold` | 1 M |
| `bot` | the bot and 1 client, 3 nicknames, 2 lines of the others, fair | `NickInSync`, `BotRegisters`, `QuietsDown` | 91 k |

The bounds, and why they are enough for the cases that matter:

* three workers and four messages let one worker sleep, one serve and one be
  between its test and the wait, with more messages than workers;
* one descriptor and two clients force the reuse of the descriptor, at every
  point of the first client's end; two acts of the peers (a line sent, an end of
  the stream, a reset) allow a line to be in work while the connection ends;
* an event list of two makes kevent return some of the ready events, and errors
  take their places.  Two descriptors and three clients, of which one takes the
  other's descriptor while the third gives it output (15 M states), find nothing
  else.  For the liveness properties it has ten places: when errors find no room
  the server stops, and reads nobody;
* in `event_loop_live` the second client is connected while the first is served,
  or takes its descriptor after it, and its connection may end a spin on that
  descriptor or come while main spins on the other.  Both share the one worker.
  Two workers with one client (302 k states) find nothing else;
* two nicknames and three clients let two clients clash while the third takes
  the nickname one of them left;
* two workers mean two commands under way, hence up to three objects of one
  name: the one in the map and two stale references.  Three clients without modes
  (3.9 M states) find nothing else;
* three letters and two arguments allow a sign, a letter that shifts the
  arguments and one that suffers from it; `-3` wraps around in three bits;
* a line of seven characters has a prefix, a command, an argument and one behind
  a colon, with spaces between and at the end;
* six bytes are three empty lines, or two with text, and pieces of four cut a CR
  LF in two; a NUL may come anywhere;
* `roster` has two clients besides the watcher, so that one acts while the other
  is in the middle of a command.  One of them leaves its nickname, by NICK or
  QUIT, and the watcher asks for it;
* three commands are two talkers and a KICK, PART or QUIT, with a third client
  to compare with;
* the other client of `bot` can be in the way of two of the three nicknames by
  changing its own.  With two others and one line (1.8 M states) nothing else is
  found.  `BotRegisters` leaves out the case that the nicknames run out (`Tries`).

Symmetry of workers, clients and objects is used with invariants only.  Deadlock
is checked for `roster` alone, where TOPIC can always be set; elsewhere the
system may really stop: the server does (`WorkQueue`), peers run out of acts
(`EventLoop`), each connection is used once (`Registration`), the clients of
`Channels` leave for good, and the other modules end with their command, line or
stream, or fall silent.

Fairness.  Threads are scheduled, so each worker and main has weak fairness on its
own steps.  A mutex is not handed out fairly: taking one has weak fairness only,
and `EveryMessageHandled` holds with that.  Nothing is assumed of SIGINT, new
connections, input or spurious returns.  In `EventLoop` the
fairness of main also covers kevent: with nothing else to return it returns a WRITE
event in the end, since a peer that keeps its connection drains it.
`Framing` assumes that a reader with bytes in its socket runs,
`Bot` that the threads of the server and the loop of the bot run, while the other
clients need not do anything.

## Proofs

`WorkQueueProofs`, for any finite non-empty set of workers and any number of
messages.  `EnoughAwake` is not inductive alone.  `IInv` adds the types, who
holds the mutex (`Ownership`: exactly the threads between lock and unlock, and a
thread in the wait set is inside the wait), the numbering of messages, and what
the stop has done (`Stopping`).  The argument for `EnoughAwake` counts: a push
adds a message and, if anyone sleeps, a worker on its way; a pop takes one of
each; a worker goes to sleep only on an empty queue.  `SleepersWereLate` follows
from `Stopping`: after the broadcast only late workers can reach the wait.
`QueueImplementsPool` shows each step to be one of the pool's or to leave it
alone; that a message is registered once rests on the numbering.

`RegistrationProofs`, for any sets of clients and nicknames.  `IInv` adds to
`RegistrationComplete` and `FoundUnlessClash` the types, `ListedUnderOwnNick` (an entry leads to a
registered client of that nickname, without which an erase could take a
stranger's entry), `UnderWay` (a command under way belongs to a registered
client, and a client with a username gave USER) and `ClashKnown` (the history variable misses no clash).
`ListImplementsDirectory` maps `RegClient` to `Claim`, removal to `Drop`, and a
rename to `Swap`.  `LostOnlyToNamesakes` is an action property from the same
invariant: an erase goes by the nickname its client has at that moment, under the
lock, and never by one that was looked at before.

`ModeArgsProofs`, for any words, letters, lengths and width.  `IInv` says of the
filtered letters that the counts `_mode` made for them rise and stay within the
arguments (`Counted`), that the sign is the one the letters give (`Plus`), and of
`mode_set` that its index is at most the one counted for any letter still to
come, as long as no `-l` took an argument (`Applying`).  So a letter that reads
reads inside the vector (`ReadsInRange`).  `Meant` is the second invariant, about
`Walk`, the reference that reads letters and arguments from the start: a letter
that `_mode` drops means nothing to the reader (`FilterMeant`, `KeptMeant`), what
`mode_set` does at a letter is the reader's step (`Obeyed`), so both are at the same
sign, argument and channel (`ApplyMeant`); and a letter that is announced, with its
argument, is the next step of a reader of the announcement (`Told`, `Replayed`).
That the recursion of `Walk` is well-founded, and that a text with one letter more
reads the same before it, is shown by the least position where it failed
(`WalkSteps`, `SameWalk`), as an induction would.

`ChannelsProofs`, for any clients, names and channel objects.  The five
invariants of the run are parts of `IInv` (`Invariance`), which adds three.
`FoundUnderItsName`: the map leads to objects that carry the name; without it a
step on an object could not be told from one on the channel of that name.
`JoinedIsMember`: what a client's own list has is a channel it is a member of,
except for a name in `dropped`; removal goes through that list, so `NoDeadMember`
needs it.  `InviteKnown`: the target of an INVITE under way is there, or `raced`
has it.

`RosterProofs`, for any clients, nicknames and topics.  All four invariants follow
from one `IInv`, and each needs what is still to be told.  `NamesakesMixed`: two
clients share a nickname, or one is still known by the other's, only if it is in
`mixed`; every step that takes a nickname out of the list is about its owner
because of that.  `ShownAccounted`: a nickname shown, or in the NAMES list on its
way, is a member's, or one it is still known by, or one of the exceptions
(`NoGhosts`).  `MembersShown` is the converse (`NobodyMissing`).  `ShowsItself` and
`TopicOnItsWay` are the same for the watcher's own name and the topic.

`TalkProofs`, for any clients and lists of targets.  `UnderLock`: who tells the
members has the lock and is one of them.  `KickDone` and `LeaveDone` say what a
line in an inbox means for the time to come: its subject is out, or the teller is
still at it, with the lock.  `NotYetHeard` and `LastHeard`: a line that is being
told is the last of the channel for those who have it, and new to those who do
not.  `OneOrder` assumes `Unrepeated`, that no list names the channel twice:
`PRIVMSG #c,#c :text` tells the same line twice, and `SameOrder` compares lines,
not tellings.  `EveryTargetServed` (`AllTold`) assumes `Distinct`, that no list
names anything twice, for two lines are two copies.  `Accounts` keeps for every
target of every PRIVMSG where it is: served, or among those left and nobody has
a copy, or the channel, and the members that the holder of the lock has passed
have theirs (`HalfTold`).  It rests on `AtCommand` (a client at work has the
command that its line is numbered by) and `Numbered` (no inbox has a line of a
command to come); a copy more in an inbox is one more in the count (`CopiesAdd`).

`InputProofs`, for any stream, any bytes and pieces of any size, shows that the lines
handed on are those of the stream (`BytesBecomeLines`, for `ImplementsStream`).
`FramingInv`: the buffer is the end of what was kept (`EndOfKept`); the place the
reader is at, the server's beginning of the buffer or the bot's index in it, is the
beginning of the stream or behind a CR LF (`BetweenLines`); and as many lines were
handed on as end before that place (`HandedOn`).  So the next CR LF of the buffer is
the next of the stream and the line before it begins at that place (`NextLine`),
whichever pieces it came in, and bytes that arrive later move no line that ended
(`MoreBytes`).  Two pairs never overlap since CR is not LF.

`InputProofs` on `LineParser`, for any line, command names and width, as long as the
line is shorter than `npos`.  `Skipped`, `Find` and `WordLen` are taken apart first: from the
start of a word the walk goes behind the spaces that follow it, or to `npos`
(`WordAt`); from the end of the line it goes to `npos` with an empty word (`NoWord`).
`IInv` then counts: the words that start up to the index are the command and the
arguments taken (`AtArgument`), so the next one has the next number.  That covers
the places where the arithmetic wraps: `WordLen` is exact modulo 2^Width, and the
sum with the index is `npos` again when no space follows.

The part of `RegistrationProofs` about `Bot`, for any tries too.  Every step of the bot with the
server is one of `Registration` (`BotRefinesRegistration`), so what is proved
there holds here.  `NicknamesAgree` rests on `OneAttempt`: of the NICKs of the bot
and the refusals of them one is under way at most, it is about the nickname the
bot goes by, and there is none once the server has taken it.

`EventLoopProofs`, for any finite set of workers, any descriptors, connections,
acts of the peers and length of the event list, in four invariants.

* `IInv`: a message is for a descriptor, workers refer to clients that were
  accepted, and no descriptor belongs to two clients that are referred to
  (`SlotsOK`).  With `AnswersItsOwn` this gives `ClosesItsOwn`.
* `ReaderInv` opens the change list.  `Eff` is what a change does to one knote,
  `Local` what a list does; a list may be cut anywhere (`LocalConcat`), and to
  apply one twice is to apply it once (`Reapplied`).  The last is what makes it
  safe that `get_event` hands kevent the list a second time when the first call
  returned errors.  `AppliedFacts` ties `Local` to the kernel's table: of a client
  somebody refers to the descriptor is open, so no change for it fails with EBADF.
  `Coming` is the knote once everything registered has been applied, `Soon` the
  knote when kevent next looks.  A step leaves `Coming` alone or applies one change
  to it (`KnoteSteps`).  Then `OneMessage`: a READ event is in one place, the batch,
  main's hands, the queue or one worker.  `Disarmed`: while it is passed on the
  knote is off in both senses, so no scan makes another.  `OneReader` follows,
  and with `Roles` and `AnswersItsOwn` so does `OneCommand`: no two workers are
  between `recv` and the re-arming for one client.  This is the theorem the modules
  of the commands (`Registration`, `Channels`, `Talk`, `Roster`) stand on, which
  give each client one command at a time.
* `WatchInv`: of a client that stays, `NeverDeaf` says that its event is under way
  or its knote comes on, and `StayWatched` that its knote is not deleted unless its
  removal has begun.  `GoneDeaf` and `Removing` say of the others that the DELETE
  was registered first, so a later ENABLE finds nothing; `TodoShape` that commands
  do their steps in the order of the code.  `NoDeafClient` follows.
* `WriteInv`: `WriteKnote` (only the close of the descriptor takes the WRITE knote
  away), `Newcomers` (an event of the batch is of the client that has the
  descriptor, or of one that is off it, and then the one that has it is untouched),
  and `OutputMoves`: a client with output, or marked for removal, has its event
  under way, a worker that will send, or close, or enable again, a knote that comes
  on, or an ENABLE about to be registered.  `WriteToCome` follows.

The inductive invariants were checked by TLC on small instances before they were
proved.  What is assumed is on the constants, and named in the modules:
`WorkersAssumption` and `MsgsAssumption` (finitely many workers, at least one),
`NamesAssumption`, `ModeArgsAssumption`, `ChannelsAssumption` (there is a name; the
values for "none" are none), `RosterAssumption` (a client has a nickname of its own
at the start), `TalkAssumption`, `BotAssumption` (the tries differ, and there is
one), `ConstantsAssumption` of `EventLoop` (finitely many workers, descriptors
are numbers, the event list has a place), `FramingAssumption` (CR, LF, NUL and the
other bytes differ, a piece has a byte), and `ParserAssumption` (lines are shorter
than `npos`, commands are words).

Only model-checked:

* the liveness properties (`EveryMessageHandled`, `JoinReturns`, `InputIsRead`,
  `RemovedIsClosed`, `LinesServed`, `BotRegisters`, `QuietsDown`), and
  `ENABLED` in them, which are beyond the prover.

## Not modelled

* PING, and the texts of replies: a reply is a line with its numeric, to its
  receiver.  The mode string that MODE without letters answers with.
* USER given again by a registered client in `Roster` and `Talk`: it may enter the
  client into the nickname list again, and tells the channel nothing.
* The conversion of the client id to `int` in `t_msg` (`Worker.cpp:50`): the
  models number a handful of connections.
* A QUIT told in every channel two clients share: `leave_all_channel` tells each
  channel, `Roster` and `Talk` have one.
* Start-up (`main.cpp`, `Server::init`): the initial states.
* `Logger` and `Event`: not in the Makefile's sources, used by nothing.
* The reference counts of `SharedPtr`: the models have the set of holders.

## Plan

1. Done: `MessagePool`, `WorkQueue`, `EventLoop`, `NickDirectory`,
   `Registration`, `Channels`, `ModeArgs`, `LineStream`, `Framing`, `LineParser`,
   `Roster`, `Talk`, `Bot`.
2. Done: proofs of all invariants of `WorkQueue`, `EventLoop`, `Registration`,
   `Channels`, `ModeArgs`, `Roster`, `Talk`, `LineParser` and `Bot`, of the action
   properties of `Registration` and `LineParser`, and of four refinements:
   `WorkQueue` of `MessagePool`, `Registration` of `NickDirectory`, `Bot` of
   `Registration`, `Framing` of `LineStream`.
3. To do: nothing of what the runs check is left to the prover but liveness.  A
   `mode_set` whose letters are steps of `Channels`, and the errors of `kevent` as a
   property, would be the next to model.
