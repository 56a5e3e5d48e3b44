------------------------------ MODULE EventLoop ------------------------------
(***************************************************************************)
(* The event loop of the server: Server::run and Eventq on the main        *)
(* thread, the worker threads that read, run commands and write, and the   *)
(* client list and the client buffers they share.                          *)
(*                                                                         *)
(* Threads never register events with the kernel themselves: reg_event     *)
(* appends to _change_list and triggers a user event, and the main thread  *)
(* hands the whole list to kevent the next time round get_event.  Between  *)
(* the append and that call the descriptor may be closed, and given to     *)
(* another client.                                                         *)
(*                                                                         *)
(* Sockets and knotes are the kernel's (external, as src/ uses them).  A   *)
(* client object lives, and its descriptor stays open, while _cl_list or a *)
(* thread's ClientRef refers to it (SharedPtr.hpp).  A line is a unit of   *)
(* input and a reply a unit of output; what a line says is abstracted to   *)
(* what it does to clients: nothing, output to a live client, or leaving.  *)
(* The queue between main and the workers is the pool WorkQueue implements.*)
(***************************************************************************)
EXTENDS Naturals, Sequences, FiniteSets

CONSTANTS
  Workers,     \* the worker threads
  Fds,         \* descriptors accept can return, a set of numbers
  MaxClients,  \* bound on the connections made over the whole run
  MaxActs,     \* bound on what the peers do: lines sent, ends of connections
  EvNum        \* ACCEPT_EV_NUM, the events one kevent call can return

ASSUME ConstantsAssumption ==
  /\ IsFiniteSet(Workers) /\ Fds \subseteq Nat
  /\ MaxClients \in Nat /\ MaxActs \in Nat /\ EvNum \in Nat \ {0}

Ids  == 1..MaxClients     \* _client_id_cnt is incremented before use
None == 0                 \* no client

VARIABLES
  \* the kernel and the peers
  backlog,    \* connections made and not yet accepted
  fdOf,       \* the descriptor accept gave each client
  peer,       \* the state of the other end of each connection
  rx,         \* lines received by the kernel and not yet read
  quota,      \* how much the peers may still do
  knote,      \* the READ and WRITE knotes of each socket
  trigger,    \* NOTE_TRIGGER is pending on the user event
  \* the main thread
  changes,    \* Eventq::_change_list
  tmpList,    \* tmp_list of get_event
  mpc,        \* where the main thread is
  errs,       \* EV_ERROR entries of ev_list still to look at
  batch,      \* other entries of ev_list still to look at
  regMsg,     \* the message reg_msg is about to push
  \* shared between main and the workers
  msgQ,       \* _msgQ._messageQ
  clList,     \* _cl_list
  idCnt,      \* _client_id_cnt
  ustate,     \* _user_state; NEW is NEEDREG, NEEDNICK; LIVE is AVAIL_USER, OPERATOR
  inBuf,      \* lines in _input_buf
  outBuf,     \* units in _output_buf
  \* the workers
  wpc,        \* where each worker is
  msg,        \* curr_msg
  opCl,       \* op_cl
  todo        \* what the current command has left to do

kernelVars == <<backlog, fdOf, peer, rx, quota, knote, trigger>>
mainVars   == <<tmpList, mpc, errs, batch, regMsg>>
clientVars == <<clList, idCnt, ustate, inBuf, outBuf>>
workerVars == <<wpc, msg, opCl, todo>>
vars == <<kernelVars, mainVars, clientVars, workerVars, changes, msgQ>>

Filters == {"READ", "WRITE"}
NoMsg == [fd |-> 0, filt |-> "NONE", id |-> None]
Absent == [st |-> "absent", udata |-> None]

Init ==
  /\ backlog = 0 /\ quota = MaxActs /\ trigger = FALSE
  /\ fdOf = [c \in Ids |-> 0]
  /\ peer = [c \in Ids |-> "open"]
  /\ rx = [c \in Ids |-> 0]
  /\ knote = [c \in Ids |-> [f \in Filters |-> Absent]]
  /\ changes = <<>> /\ tmpList = <<>> /\ errs = <<>> /\ batch = {}
  /\ mpc = "take" /\ regMsg = NoMsg /\ msgQ = <<>>
  /\ clList = [fd \in Fds |-> None] /\ idCnt = 0
  /\ ustate = [c \in Ids |-> "NEW"]
  /\ inBuf = [c \in Ids |-> 0] /\ outBuf = [c \in Ids |-> 0]
  /\ wpc = [w \in Workers |-> "idle"] /\ msg = [w \in Workers |-> NoMsg]
  /\ opCl = [w \in Workers |-> None] /\ todo = [w \in Workers |-> <<>>]

Accepted == 1..idCnt

(* The client object of c exists while something refers to it; its         *)
(* destructor closes the descriptor, and the kernel drops the knotes.      *)
MutantHeld(c) == \E fd \in Fds : clList[fd] = c
Held(c) ==
  \/ \E fd \in Fds : clList[fd] = c
  \/ \E w \in Workers : \/ opCl[w] = c
                        \/ \E i \in DOMAIN todo[w] : todo[w][i].cl = c

Open(fd) == {c \in Accepted : fdOf[c] = fd /\ Held(c)}

------------------------------------------------------------------------------
(* Eventq.                                                                 *)

Change(fd, filt, op, id) == [fd |-> fd, filt |-> filt, op |-> op, udata |-> id]

(* reg_event: append, then _forced_trigger.  Main seeing the append before *)
(* the trigger is main seeing both and finding the trigger still pending.  *)
RegEvents(s) ==
  /\ changes' = changes \o s
  /\ trigger' = TRUE

(* Every change a client's thread registers carries the client's id.       *)
MutantUdata(c) == None
Udata(c) == c

(* One entry of the change list, as kevent applies it.                     *)
ApplyChange(acc, ch) ==
  LET owner == CHOOSE c \in Open(ch.fd) : TRUE
      old   == acc.knote[owner][ch.filt].st
      set(st) == [acc EXCEPT !.knote[owner][ch.filt] =
                    [st |-> st, udata |-> ch.udata]]
      fail(e) == [acc EXCEPT !.errs = Append(@, [fd |-> ch.fd, errno |-> e])]
  IN IF Open(ch.fd) = {} THEN fail("EBADF")
     ELSE IF ch.op = "addEnable" THEN set("on")
     ELSE IF ch.op = "addDisable" THEN set("off")
     ELSE IF old = "absent" THEN fail("ENOENT")
     ELSE CASE ch.op = "enable"  -> set("on")
            [] ch.op = "disable" -> set("off")
            [] ch.op = "delete"  ->
                 [acc EXCEPT !.knote[owner][ch.filt] = Absent]

Applied(kn, s) ==
  LET after[n \in 0..Len(s)] ==
        IF n = 0 THEN [knote |-> kn, errs |-> <<>>]
                 ELSE ApplyChange(after[n - 1], s[n])
  IN after[Len(s)]

(* get_event, top of the loop: take the list.  tmp_list is not cleared     *)
(* when the list is empty, so a second turn hands kevent the same changes  *)
(* again.                                                                  *)
Take ==
  /\ mpc = "take"
  /\ tmpList' = IF changes = <<>> THEN tmpList ELSE changes
  /\ changes' = <<>>
  /\ mpc' = "apply"
  /\ UNCHANGED <<kernelVars, errs, batch, regMsg, clientVars, workerVars, msgQ>>

(* kevent, the changes.  Errors fill the event list and end the call; more *)
(* of them than the list holds make it fail.                               *)
Apply ==
  /\ mpc = "apply"
  /\ LET r == Applied(knote, tmpList)
     IN /\ knote' = r.knote
        /\ IF Len(r.errs) > EvNum
             THEN mpc' = "failed" /\ errs' = <<>>
             ELSE /\ errs' = r.errs
                  /\ mpc' = IF r.errs = <<>> THEN "scan" ELSE "dispatch"
  /\ UNCHANGED <<backlog, fdOf, peer, rx, quota, trigger, tmpList, batch,
                 regMsg, clientVars, workerVars, changes, msgQ>>

Event(filt, fd, id) == [filt |-> filt, fd |-> fd, id |-> id]

Armed(c, filt) == Held(c) /\ knote[c][filt].st = "on"

Readable(c) == rx[c] > 0 \/ peer[c] # "open"

Ready ==
  (IF backlog > 0 THEN {Event("LISTEN", 0, None)} ELSE {})
    \cup {Event("READ", fdOf[c], knote[c]["READ"].udata) :
            c \in {c \in Accepted : Armed(c, "READ") /\ Readable(c)}}

Writable ==
  {Event("WRITE", fdOf[c], knote[c]["WRITE"].udata) :
     c \in {c \in Accepted : Armed(c, "WRITE")}}

(* kevent, the events: all that are active, up to the size of the list.  A *)
(* WRITE event is missing while the peer is slow.  get_event goes round    *)
(* when only the user event came; otherwise it returns, and run skips the  *)
(* user event.                                                             *)
Notify == Event("USER", 0, None)

Scan ==
  /\ mpc = "scan"
  /\ \E slow \in SUBSET Writable :
       LET active == Ready \cup (Writable \ slow)
                       \cup (IF trigger THEN {Notify} ELSE {})
       IN /\ active # {}
          /\ \E b \in SUBSET active :
               /\ Cardinality(b) = IF Cardinality(active) <= EvNum
                                     THEN Cardinality(active) ELSE EvNum
               /\ batch' = b \ {Notify}
               /\ trigger' = (trigger /\ Notify \notin b)
               /\ mpc' = IF b = {Notify} THEN "take" ELSE "dispatch"
  /\ UNCHANGED <<backlog, fdOf, peer, rx, quota, knote, tmpList, errs, regMsg,
                 clientVars, workerVars, changes, msgQ>>

------------------------------------------------------------------------------
(* Server::run, the loop over ev_list.                                     *)

(* close_client under _cl_list_lock, for whoever the list has at fd.       *)
CloseAt(fd) ==
  LET c == clList[fd]
  IN /\ clList' = [clList EXCEPT ![fd] = None]
     /\ ustate' = IF c = None THEN ustate ELSE [ustate EXCEPT ![c] = "CLOSE"]
     /\ inBuf'  = IF c = None THEN inBuf  ELSE [inBuf  EXCEPT ![c] = 0]
     /\ outBuf' = IF c = None THEN outBuf ELSE [outBuf EXCEPT ![c] = 0]

(* EV_ERROR on a client's descriptor: ENOENT is ignored, anything else     *)
(* removes and closes the client.                                          *)
DispatchError ==
  /\ mpc = "dispatch" /\ errs # <<>>
  /\ errs' = Tail(errs)
  /\ IF Head(errs).errno = "ENOENT"
       THEN UNCHANGED <<changes, trigger, clientVars>>
       ELSE /\ RegEvents(<<Change(Head(errs).fd, "READ", "delete", None)>>)
            /\ CloseAt(Head(errs).fd)
            /\ UNCHANGED idCnt
  /\ UNCHANGED <<backlog, fdOf, peer, rx, quota, knote, tmpList, mpc, batch,
                 regMsg, workerVars, msgQ>>

FreeFds == {fd \in Fds : Open(fd) = {}}

(* accept and add_client: the lowest free descriptor, the next id, the     *)
(* list entry, then the two registrations.  With no descriptor left accept *)
(* fails and the connection stays in the backlog.                          *)
DispatchAccept ==
  /\ mpc = "dispatch" /\ errs = <<>>
  /\ Event("LISTEN", 0, None) \in batch
  /\ batch' = batch \ {Event("LISTEN", 0, None)}
  /\ IF FreeFds = {}
       THEN UNCHANGED <<backlog, fdOf, idCnt, clList, changes, trigger>>
       ELSE LET fd == CHOOSE f \in FreeFds : \A g \in FreeFds : f <= g
                id == idCnt + 1
            IN /\ backlog' = backlog - 1
               /\ idCnt' = id
               /\ fdOf' = [fdOf EXCEPT ![id] = fd]
               /\ clList' = [clList EXCEPT ![fd] = IF @ = None THEN id ELSE @]
               /\ RegEvents(<<Change(fd, "READ", "addEnable", id),
                              Change(fd, "WRITE", "addDisable", id)>>)
  /\ UNCHANGED <<peer, rx, quota, knote, tmpList, mpc, errs, regMsg,
                 ustate, inBuf, outBuf, workerVars, msgQ>>

(* reg_msg for a READ or WRITE event: first the DISABLE of its knote, then *)
(* the message to the workers.                                             *)
MutantDisabling(e) == UNCHANGED <<changes, trigger>>
Disabling(e) == RegEvents(<<Change(e.fd, e.filt, "disable", e.id)>>)

DispatchDisable ==
  /\ mpc = "dispatch" /\ errs = <<>>
  /\ \E e \in batch :
       /\ e.filt \in Filters
       /\ batch' = batch \ {e}
       /\ Disabling(e)
       /\ regMsg' = e
  /\ mpc' = "push"
  /\ UNCHANGED <<backlog, fdOf, peer, rx, quota, knote, tmpList, errs,
                 clientVars, workerVars, msgQ>>

DispatchPush ==
  /\ mpc = "push"
  /\ msgQ' = Append(msgQ, regMsg)
  /\ regMsg' = NoMsg
  /\ mpc' = "dispatch"
  /\ UNCHANGED <<kernelVars, tmpList, errs, batch, clientVars, workerVars,
                 changes>>

(* The list is done: get_event is called again with a fresh tmp_list.      *)
DispatchDone ==
  /\ mpc = "dispatch" /\ errs = <<>> /\ batch = {}
  /\ mpc' = "take"
  /\ tmpList' = <<>>
  /\ UNCHANGED <<kernelVars, errs, batch, regMsg, clientVars, workerVars,
                 changes, msgQ>>
------------------------------------------------------------------------------
(* A worker thread.                                                        *)

Goto(w, to) == wpc' = [wpc EXCEPT ![w] = to]

(* The message at the head of the queue.                                   *)
Pop(w) ==
  /\ wpc[w] = "idle" /\ msgQ # <<>>
  /\ msg' = [msg EXCEPT ![w] = Head(msgQ)]
  /\ msgQ' = Tail(msgQ)
  /\ Goto(w, "find")
  /\ UNCHANGED <<kernelVars, mainVars, clientVars, opCl, todo, changes>>

(* Lines 94 to 96: find_client by descriptor, then the id of the client it *)
(* found against the id of the event.                                      *)
SameClient(c, id) == c = id

Find(w) ==
  /\ wpc[w] = "find"
  /\ LET c == clList[msg[w].fd]
         found == c # None /\ ustate[c] # "CLOSE"
     IN /\ opCl' = [opCl EXCEPT ![w] = IF found THEN c ELSE None]
        /\ Goto(w, IF found /\ SameClient(c, msg[w].id) THEN "check" ELSE "release")
  /\ UNCHANGED <<kernelVars, mainVars, clientVars, msg, todo, changes, msgQ>>

(* Lines 97 to 99.                                                         *)
Check(w) ==
  /\ wpc[w] = "check"
  /\ Goto(w, IF msg[w].filt = "WRITE" THEN "send"
             ELSE IF ustate[opCl[w]] = "UNAVAIL" THEN "release" ELSE "recv")
  /\ UNCHANGED <<kernelVars, mainVars, clientVars, msg, opCl, todo, changes,
                 msgQ>>

(* remove_client: DELETE of the READ knote, then the state change.         *)
Removal(c) == <<[op |-> "delete", cl |-> c], [op |-> "mark", cl |-> c]>>
(* add_output: append to the buffer, then ENABLE of the WRITE knote.       *)
MutantOutput(c) == <<[op |-> "enable", cl |-> c], [op |-> "append", cl |-> c]>>
Output(c)  == <<[op |-> "append", cl |-> c], [op |-> "enable", cl |-> c]>>
(* QUIT, and the refusals of a client without the password: removal first, *)
(* then the last reply, whose write closes the client.                     *)
MutantLeaving(c) == Removal(c)
Leaving(c) == Removal(c) \o Output(c)

(* client_read: some of the lines that are there, the end of the stream,   *)
(* or an error, after which the loop goes on to what is buffered.          *)
MutantAfterError == "release"
AfterError == "lines"

Recv(w) ==
  /\ wpc[w] = "recv"
  /\ \/ /\ rx[opCl[w]] > 0
        /\ \E n \in 1..rx[opCl[w]] :
             /\ rx' = [rx EXCEPT ![opCl[w]] = @ - n]
             /\ inBuf' = [inBuf EXCEPT ![opCl[w]] = @ + n]
        /\ Goto(w, "lines")
        /\ UNCHANGED <<todo, peer>>
     \/ /\ rx[opCl[w]] = 0 /\ peer[opCl[w]] \in {"shut", "gone"}
        /\ todo' = [todo EXCEPT ![w] =
              Append(Removal(opCl[w]), [op |-> "close", cl |-> opCl[w]])]
        /\ Goto(w, "bye")
        /\ UNCHANGED <<rx, inBuf, peer>>
     \/ /\ rx[opCl[w]] = 0 /\ peer[opCl[w]] \in {"open", "reset"}
        /\ peer' = [peer EXCEPT ![opCl[w]] = IF @ = "reset" THEN "gone" ELSE @]
        /\ Goto(w, AfterError)
        /\ UNCHANGED <<rx, inBuf, todo>>
  /\ UNCHANGED <<backlog, fdOf, quota, knote, trigger, mainVars, clList, idCnt,
                 ustate, outBuf, msg, opCl, changes, msgQ>>

(* get_input_buffer and cmd_proc: the next line and what its command does. *)
(* The NICK or USER that completes the registration.                        *)
Registering(c) == <<[op |-> "register", cl |-> c]>> \o Output(c)

(* An empty line ends the loop like an empty buffer, whatever is buffered  *)
(* behind it.  A client being removed or closed has its commands ignored.  *)
(* A command finds another client by a nickname or in a channel, so only   *)
(* one that is registered.                                                 *)
Effects(c) ==
  CASE ustate[c] = "NEW"  -> {<<>>, Output(c), Registering(c), Leaving(c)}
    [] ustate[c] = "LIVE" ->
         {<<>>, Leaving(c)}
           \cup {Output(d) : d \in {d \in Accepted : /\ clList[fdOf[d]] = d
                                                    /\ ustate[d] = "LIVE"}}
    [] OTHER -> {<<>>}

Line(w) ==
  LET c == opCl[w]
  IN /\ wpc[w] = "lines"
     /\ IF inBuf[c] = 0
          THEN Goto(w, "rearm") /\ UNCHANGED <<inBuf, todo>>
          ELSE /\ inBuf' = [inBuf EXCEPT ![c] = @ - 1]
               /\ \/ Goto(w, "rearm") /\ UNCHANGED todo
                  \/ \E e \in Effects(c) :
                       /\ todo' = [todo EXCEPT ![w] = e]
                       /\ Goto(w, IF e = <<>> THEN "lines" ELSE "cmd")
     /\ UNCHANGED <<kernelVars, mainVars, clList, idCnt, ustate, outBuf, msg,
                    opCl, changes, msgQ>>

(* One step of a command or of the handling of a disconnection.  The       *)
(* lookups of remove_client and close_client are by descriptor.            *)
Perform(op, c) ==
  LET at == clList[fdOf[c]]
  IN \/ /\ op = "delete"
        /\ RegEvents(<<Change(fdOf[c], "READ", "delete", None)>>)
        /\ UNCHANGED <<clList, ustate, inBuf, outBuf>>
     \/ /\ op = "mark"
        /\ ustate' = IF at = None THEN ustate ELSE [ustate EXCEPT ![at] = "UNAVAIL"]
        /\ UNCHANGED <<changes, trigger, clList, inBuf, outBuf>>
     \/ /\ op = "register"
        /\ ustate' = [ustate EXCEPT ![c] = "LIVE"]
        /\ UNCHANGED <<changes, trigger, clList, inBuf, outBuf>>
     \/ /\ op = "append"
        /\ outBuf' = [outBuf EXCEPT ![c] = @ + 1]
        /\ UNCHANGED <<changes, trigger, clList, ustate, inBuf>>
     \/ /\ op = "enable"
        /\ RegEvents(<<Change(fdOf[c], "WRITE", "enable", Udata(c))>>)
        /\ UNCHANGED <<clList, ustate, inBuf, outBuf>>
     \/ /\ op = "close"
        /\ CloseAt(fdOf[c])
        /\ UNCHANGED <<changes, trigger>>

Do(w) ==
  /\ wpc[w] \in {"cmd", "bye"}
  /\ Perform(Head(todo[w]).op, Head(todo[w]).cl)
  /\ todo' = [todo EXCEPT ![w] = Tail(@)]
  /\ IF Len(todo[w]) > 1 THEN UNCHANGED wpc
       ELSE Goto(w, IF wpc[w] = "cmd" THEN "lines" ELSE "release")
  /\ UNCHANGED <<backlog, fdOf, peer, rx, quota, knote, mainVars, idCnt, msg,
                 opCl, msgQ>>

(* Lines 116 and 117: a client that is not UNAVAIL_USER is read again; one *)
(* that is closed by now counts as not UNAVAIL_USER.                       *)
Rearm(w) ==
  LET c == opCl[w]
  IN /\ wpc[w] = "rearm"
     /\ IF ustate[c] # "UNAVAIL"
          THEN RegEvents(<<Change(fdOf[c], "READ", "enable", Udata(c))>>)
          ELSE UNCHANGED <<changes, trigger>>
     /\ Goto(w, "release")
     /\ UNCHANGED <<backlog, fdOf, peer, rx, quota, knote, mainVars, clientVars,
                    msg, opCl, todo, msgQ>>

(* client_write: some of the buffer, or nothing when the peer is gone.     *)
Send(w) ==
  LET c == opCl[w]
  IN /\ wpc[w] = "send"
     /\ \E n \in IF outBuf[c] > 0 /\ peer[c] \in {"open", "shut"}
                  THEN 1..outBuf[c] ELSE {0} :
          outBuf' = [outBuf EXCEPT ![c] = @ - n]
     /\ Goto(w, "sent")
     /\ UNCHANGED <<kernelVars, mainVars, clList, idCnt, ustate, inBuf, msg,
                    opCl, todo, changes, msgQ>>

(* Lines 122 and 123: a removed client is closed once its output is out.   *)
Sent(w) ==
  /\ wpc[w] = "sent"
  /\ Goto(w, IF ustate[opCl[w]] = "UNAVAIL" /\ outBuf[opCl[w]] = 0
               THEN "close" ELSE "more")
  /\ UNCHANGED <<kernelVars, mainVars, clientVars, msg, opCl, todo, changes,
                 msgQ>>

CloseSent(w) ==
  /\ wpc[w] = "close"
  /\ CloseAt(fdOf[opCl[w]])
  /\ Goto(w, "more")
  /\ UNCHANGED <<kernelVars, mainVars, idCnt, msg, opCl, todo, changes, msgQ>>

(* Lines 124 and 125: output that is left is sent when the socket is       *)
(* writable again.                                                         *)
More(w) ==
  LET c == opCl[w]
  IN /\ wpc[w] = "more"
     /\ IF outBuf[c] > 0 /\ ustate[c] # "CLOSE"
          THEN RegEvents(<<Change(fdOf[c], "WRITE", "enable", Udata(c))>>)
          ELSE UNCHANGED <<changes, trigger>>
     /\ Goto(w, "release")
     /\ UNCHANGED <<backlog, fdOf, peer, rx, quota, knote, mainVars, clientVars,
                    msg, opCl, todo, msgQ>>

(* Line 80: op_cl is dropped, and with the last reference the socket.      *)
Release(w) ==
  /\ wpc[w] = "release"
  /\ opCl' = [opCl EXCEPT ![w] = None]
  /\ msg' = [msg EXCEPT ![w] = NoMsg]
  /\ Goto(w, "idle")
  /\ UNCHANGED <<kernelVars, mainVars, clientVars, todo, changes, msgQ>>

------------------------------------------------------------------------------
(* The peers.                                                              *)

Connect ==
  /\ idCnt + backlog < MaxClients
  /\ backlog' = backlog + 1
  /\ UNCHANGED <<fdOf, peer, rx, quota, knote, trigger, mainVars, clientVars,
                 workerVars, changes, msgQ>>

PeerSend(c) ==
  /\ Held(c) /\ peer[c] = "open" /\ quota > 0
  /\ quota' = quota - 1
  /\ rx' = [rx EXCEPT ![c] = @ + 1]
  /\ UNCHANGED <<backlog, fdOf, peer, knote, trigger, mainVars, clientVars,
                 workerVars, changes, msgQ>>

(* The peer ends its stream, or resets the connection, which loses what    *)
(* was not read.                                                           *)
PeerShut(c) ==
  /\ Held(c) /\ peer[c] = "open" /\ quota > 0
  /\ quota' = quota - 1
  /\ peer' = [peer EXCEPT ![c] = "shut"]
  /\ UNCHANGED <<backlog, fdOf, rx, knote, trigger, mainVars, clientVars,
                 workerVars, changes, msgQ>>

PeerReset(c) ==
  /\ Held(c) /\ peer[c] \in {"open", "shut"} /\ quota > 0
  /\ quota' = quota - 1
  /\ peer' = [peer EXCEPT ![c] = "reset"]
  /\ rx' = [rx EXCEPT ![c] = 0]
  /\ UNCHANGED <<backlog, fdOf, knote, trigger, mainVars, clientVars,
                 workerVars, changes, msgQ>>

------------------------------------------------------------------------------
MainNext ==
  \/ Take \/ Apply \/ Scan \/ DispatchError \/ DispatchAccept
  \/ DispatchDisable \/ DispatchPush \/ DispatchDone

WorkerNext(w) ==
  \/ Pop(w) \/ Find(w) \/ Check(w) \/ Recv(w) \/ Line(w) \/ Do(w) \/ Rearm(w)
  \/ Send(w) \/ Sent(w) \/ CloseSent(w) \/ More(w) \/ Release(w)

PeerNext ==
  \/ Connect
  \/ \E c \in Accepted : PeerSend(c) \/ PeerShut(c) \/ PeerReset(c)

Next == MainNext \/ (\E w \in Workers : WorkerNext(w)) \/ PeerNext

Spec == Init /\ [][Next]_vars

(* Threads are scheduled.  For main that includes that a kevent with       *)
(* nothing but a WRITE event to come returns it in the end: a peer that    *)
(* keeps its connection open drains it.                                    *)
FairSpec ==
  /\ Spec
  /\ WF_vars(MainNext)
  /\ \A w \in Workers : WF_vars(WorkerNext(w))

------------------------------------------------------------------------------
(* Properties.                                                             *)

(* The clients in the list, and the events of a client and filter that are *)
(* on their way: returned by kevent, queued, or in the hands of a worker   *)
(* that has not yet registered its last change.                            *)
Listed == {c \in Accepted : clList[fdOf[c]] = c}

Staying(c) == ustate[c] \in {"NEW", "LIVE"}

InHand(filt, c) ==
  {w \in Workers : /\ msg[w].filt = filt /\ msg[w].id = c
                   /\ wpc[w] \notin {"idle", "release"}}

InFlight(filt, c) ==
  LET is(m) == m.filt = filt /\ m.id = c
  IN Cardinality({e \in batch : is(e)}) + (IF is(regMsg) THEN 1 ELSE 0)
       + Cardinality({i \in DOMAIN msgQ : is(msgQ[i])})
       + Cardinality(InHand(filt, c))

(* A knote will be enabled once the changes on their way are applied.      *)
Pending == (IF mpc = "apply" THEN tmpList ELSE <<>>) \o changes
WillFire(filt, c) == Applied(knote, Pending).knote[c][filt].st = "on"

StillToDo(w, c) == \E i \in DOMAIN todo[w] : todo[w][i].cl = c

(* At most one READ event of a client is ever on its way, so its commands  *)
(* never run in two workers at once: nothing else protects the registration*)
(* state and the input buffer between get_input_buffer and cmd_proc.  The  *)
(* delay between reg_event and kevent, which leaves the knote enabled      *)
(* after the message is queued, does not break this.                       *)
OneReader == \A c \in Accepted : InFlight("READ", c) <= 1

(* A client that is not being removed is always going to be read: its READ *)
(* knote is enabled, or will be when the pending changes are applied, or   *)
(* an event of it is on its way.  No order of the DISABLE of main, the     *)
(* ENABLE of a worker and the registrations of a new client on the same    *)
(* descriptor leaves it deaf.                                              *)
NoDeafClient ==
  \A c \in Listed : Staying(c) =>
     InFlight("READ", c) > 0 \/ WillFire("READ", c)

(* Buffered output always has a write to come: the ENABLE of add_output,   *)
(* the DISABLE of reg_msg and the re-arming of a worker that could not     *)
(* send it all never cancel out.  So has a removed client, whose READ knote*)
(* is deleted and which only a write closes, even when its output is out   *)
(* already: without one its descriptor would leak.                         *)
WriteToCome ==
  \A c \in Listed : (outBuf[c] > 0 \/ ustate[c] = "UNAVAIL") =>
     \/ InFlight("WRITE", c) > 0
     \/ WillFire("WRITE", c)
     \/ \E w \in Workers : StillToDo(w, c)

(* remove_client and close_client look the client up again by descriptor:  *)
(* the worker that calls them finds the client it means or none, never one *)
(* that was accepted on the same descriptor since.                         *)
ClosesItsOwn ==
  \A w \in Workers :
    /\ wpc[w] = "close" => clList[fdOf[opCl[w]]] \in {opCl[w], None}
    /\ \A i \in DOMAIN todo[w] : todo[w][i].op \in {"mark", "close"} =>
          clList[fdOf[todo[w][i].cl]] \in {todo[w][i].cl, None}

(* Server.cpp:90: the errors that the delay of reg_event brings about are  *)
(* ENOENT, and are not considered.                                         *)
DelayedErrorsAreENOENT ==
  \A i \in DOMAIN errs : errs[i].errno = "ENOENT"

(* Main is answering the error of a change with another change for the     *)
(* same closed descriptor.  When that goes on for ever main is caught: it  *)
(* never gets to an event again.                                           *)
Spinning == \E i \in DOMAIN errs : errs[i].errno = "EBADF"
Caught == []<>Spinning

(* What a client sends is read, whatever the other clients and the workers *)
(* do, unless it is removed: the errors of a descriptor that was closed,   *)
(* its reuse and the events of the others delay it at most, as long as     *)
(* main is not caught in those errors for good.  (That a client with input *)
(* always gets to where it has none is that it has none again and again.)  *)
Unread(c) == c \in Accepted /\ Staying(c) /\ rx[c] > 0
InputIsRead == Caught \/ \A c \in Ids : []<>(~ Unread(c))

(* A removed client is closed in the end, unless its peer is gone, when    *)
(* the write is tried for ever, or main is caught as above.                *)
Unclosed(c) == ustate[c] = "UNAVAIL" /\ peer[c] \notin {"reset", "gone"}
RemovedIsClosed == Caught \/ \A c \in Ids : []<>(~ Unclosed(c))
==============================================================================
