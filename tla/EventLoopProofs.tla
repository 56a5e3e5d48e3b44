---------------------------- MODULE EventLoopProofs ----------------------------
(***************************************************************************)
(* For any workers, descriptors and connections:                           *)
(*   - a worker handles a message for the client it is meant for, and      *)
(*     closes no other client (Invariance; NobodyElseIsClosed);            *)
(*   - no two workers receive from one client at a time                    *)
(*     (ReaderInvariance; OneReaderAtATime);                               *)
(*   - a client that stays on the list does not go deaf (WatchInvariance;  *)
(*     NobodyGoesDeaf);                                                    *)
(*   - output that was buffered, and the close of a removed client, have   *)
(*     a write to come (WriteInvariance; OutputIsWritten).                 *)
(*                                                                         *)
(* Each theorem rests on an inductive invariant, and each invariant on     *)
(* the ones before it: IInv, ReaderInv, WatchInv, WriteInv.  The hard      *)
(* part is that what the workers order by update_change is applied by      *)
(* main later, all at once, and, after an error, a second time.  So the    *)
(* last three look at one knote and at what the changes under way will     *)
(* make of it (Coming), or what kevent makes of them when it next looks    *)
(* for events (Soon).                                                      *)
(***************************************************************************)
EXTENDS EventLoop, SequenceTheorems, FiniteSetTheorems, WellFoundedInduction, TLAPS

WorkerPcs == {"idle", "find", "check", "recv", "lines", "cmd", "bye", "rearm",
              "send", "sent", "close", "more", "release"}

Ops == [op : {"delete", "mark", "register", "append", "enable", "close"}, cl : Ids]

(* The ranges of the variables that say who refers to whom.                *)
TypeOK ==
  /\ backlog \in Nat /\ idCnt \in Nat /\ idCnt + backlog <= MaxClients
  /\ fdOf \in [Ids -> Fds \cup {0}] /\ clList \in [Fds -> Ids \cup {None}]
  /\ wpc \in [Workers -> WorkerPcs] /\ opCl \in [Workers -> Ids \cup {None}]
  /\ todo \in [Workers -> Seq(Ops)] /\ DOMAIN msg = Workers

(* A message, from the event on, is for a descriptor of clients.           *)
MessagesOK ==
  /\ \A e \in batch : IF e.filt \in Filters THEN e.fd \in Fds
                      ELSE e = Event("LISTEN", 0, None) => backlog > 0
  /\ mpc = "push" => regMsg.fd \in Fds
  /\ msgQ \in Seq({m \in {msgQ[i] : i \in DOMAIN msgQ} : m.fd \in Fds})
  /\ \A w \in Workers : wpc[w] = "find" => msg[w].fd \in Fds

(* Workers refer to clients that were accepted.                            *)
WorkersOK ==
  \A w \in Workers :
    /\ opCl[w] # None => opCl[w] \in Accepted
    /\ wpc[w] \notin {"idle", "find", "release"} => opCl[w] # None
    /\ wpc[w] \in {"cmd", "bye"} <=> todo[w] # <<>>
    /\ \A i \in DOMAIN todo[w] : todo[w][i].cl \in Accepted

(* The list has every client at its descriptor, and no descriptor belongs  *)
(* to two clients that are referred to.                                    *)
SlotsOK ==
  /\ \A c \in Accepted : fdOf[c] \in Fds
  /\ \A fd \in Fds : clList[fd] # None =>
       clList[fd] \in Accepted /\ fdOf[clList[fd]] = fd
  /\ \A c, d \in Accepted : fdOf[c] = fdOf[d] /\ Held(c) /\ Held(d) => c = d

(* A worker goes on only with the client that its message is about.        *)
AnswersItsOwn ==
  \A w \in Workers :
    wpc[w] \notin {"idle", "find", "release"} => opCl[w] = msg[w].id

IInv == TypeOK /\ MessagesOK /\ WorkersOK /\ SlotsOK /\ AnswersItsOwn

(* Before the first connection.                                            *)
LEMMA InitIInv == Init => IInv
<1> SUFFICES ASSUME Init PROVE IInv
  OBVIOUS
<1> USE ConstantsAssumption DEF Init, Ids, None
<1>1. TypeOK
  BY DEF TypeOK, WorkerPcs
<1>2. MessagesOK
  <2>1. msgQ \in Seq({m \in {msgQ[i] : i \in DOMAIN msgQ} : m.fd \in Fds})
    BY EmptySeq
  <2> QED
    BY <2>1 DEF MessagesOK
<1>3. WorkersOK
  BY DEF WorkersOK, Accepted
<1>4. SlotsOK
  BY DEF SlotsOK, Accepted
<1>5. AnswersItsOwn
  BY DEF AnswersItsOwn
<1> QED
  BY <1>1, <1>2, <1>3, <1>4, <1>5 DEF IInv

------------------------------------------------------------------------------

(* While no client is accepted or looked up, nobody is referred to that    *)
(* was not before.                                                         *)
LEMMA SlotsKept ==
  ASSUME SlotsOK, fdOf' = fdOf, idCnt' = idCnt,
         \A fd \in Fds : clList'[fd] \in {clList[fd], None},
         \A c \in Accepted : Held(c)' => Held(c)
  PROVE  SlotsOK'
<1>1. Accepted' = Accepted
  BY DEF Accepted
<1> QED
  BY <1>1 DEF SlotsOK

(* A client that is referred to after such a step was referred to          *)
(* before: where the list only lost entries and the workers took on        *)
(* nobody else.                                                            *)
LEMMA HeldKept ==
  ASSUME \A fd \in Fds : clList'[fd] \in {clList[fd], None},
         NEW c \in Accepted, TypeOK, WorkersOK,
         \A w \in Workers :
           /\ opCl'[w] = c => Held(c)
           /\ \A i \in DOMAIN todo'[w] : todo'[w][i].cl = c => Held(c)
  PROVE  Held(c)' => Held(c)
<1>1. c # None
  BY DEF TypeOK, Accepted, Ids, None
<1> QED
  BY <1>1 DEF Held

(* The steps that change nothing of who refers to whom.                    *)
LEMMA SlotsFrame ==
  ASSUME IInv, UNCHANGED <<fdOf, clList, idCnt, opCl, todo>>
  PROVE  SlotsOK'
BY DEF IInv, SlotsOK, Accepted, Held

(* close_client takes an entry from the list.                              *)
LEMMA CloseAtFacts ==
  ASSUME TypeOK, NEW fd, CloseAt(fd)
  PROVE  /\ clList' \in [Fds -> Ids \cup {None}]
         /\ \A f \in Fds : clList'[f] \in {clList[f], None}
BY DEF CloseAt, TypeOK

(* The sequences of steps that commands consist of, written out.           *)
LEMMA JoinedSteps ==
  ASSUME NEW S, NEW a \in S, NEW b \in S, NEW c \in S, NEW d \in S
  PROVE  <<a, b>> \o <<c, d>> = <<a, b, c, d>> /\ <<a>> \o <<b, c>> = <<a, b, c>>
<1> DEFINE x == <<a, b>>
           y == <<c, d>>
           z == <<a, b, c, d>>
           p == <<a>>
           q == <<b, c>>
           r == <<a, b, c>>
<1>1. /\ x \in Seq(S) /\ y \in Seq(S) /\ z \in Seq(S)
      /\ Len(x) = 2 /\ Len(y) = 2 /\ Len(z) = 4
      /\ x[1] = a /\ x[2] = b /\ y[1] = c /\ y[2] = d
      /\ z[1] = a /\ z[2] = b /\ z[3] = c /\ z[4] = d
  OBVIOUS
<1>2. /\ p \in Seq(S) /\ q \in Seq(S) /\ r \in Seq(S)
      /\ Len(p) = 1 /\ Len(q) = 2 /\ Len(r) = 3
      /\ p[1] = a /\ q[1] = b /\ q[2] = c /\ r[1] = a /\ r[2] = b /\ r[3] = c
  OBVIOUS
<1> HIDE DEF x, y, z, p, q, r
<1>3. x \o y = z
  <2>1. /\ x \o y \in Seq(S) /\ Len(x \o y) = Len(x) + Len(y)
        /\ \A i \in 1..Len(x) + Len(y) :
             (x \o y)[i] = IF i <= Len(x) THEN x[i] ELSE y[i - Len(x)]
    <3>1. x \in Seq(S) /\ y \in Seq(S)
      BY <1>1
    <3> QED
      BY <3>1, ConcatProperties
  <2>2. Len(x \o y) = 4 /\ \A i \in 1..4 : (x \o y)[i] = z[i]
    BY <1>1, <2>1
  <2> QED
    BY <1>1, <2>1, <2>2, SeqEqual
<1>4. p \o q = r
  <2>1. /\ p \o q \in Seq(S) /\ Len(p \o q) = Len(p) + Len(q)
        /\ \A i \in 1..Len(p) + Len(q) :
             (p \o q)[i] = IF i <= Len(p) THEN p[i] ELSE q[i - Len(p)]
    <3>1. p \in Seq(S) /\ q \in Seq(S)
      BY <1>2
    <3> QED
      BY <3>1, ConcatProperties
  <2>2. Len(p \o q) = 3 /\ \A i \in 1..3 : (p \o q)[i] = r[i]
    BY <1>2, <2>1
  <2> QED
    BY <1>2, <2>1, <2>2, SeqEqual
<1> QED
  BY <1>3, <1>4 DEF x, y, z, p, q, r

Step(op, c) == [op |-> op, cl |-> c]

(* The operations that the sequences of a command and of a removal are     *)
(* made of.                                                                *)
LEMMA Commands ==
  ASSUME NEW c \in Ids
  PROVE  /\ Output(c) = <<Step("append", c), Step("enable", c)>>
         /\ Registering(c) = <<Step("register", c), Step("append", c), Step("enable", c)>>
         /\ Leaving(c) = <<Step("delete", c), Step("mark", c),
                           Step("append", c), Step("enable", c)>>
         /\ Append(Removal(c), [op |-> "close", cl |-> c])
              = <<Step("delete", c), Step("mark", c), Step("close", c)>>
<1>1. \A o \in {"delete", "mark", "register", "append", "enable", "close"} :
        Step(o, c) \in Ops
  BY DEF Step, Ops
<1>2. Registering(c) = <<Step("register", c), Step("append", c), Step("enable", c)>>
  <2> DEFINE a == Step("register", c)
             b == Step("append", c)
             d == Step("enable", c)
  <2>1. a \in Ops /\ b \in Ops /\ d \in Ops
    BY <1>1
  <2>2. Registering(c) = <<a>> \o <<b, d>>
    BY DEF Registering, Output, Step
  <2> HIDE DEF a, b, d
  <2>3. <<a>> \o <<b, d>> = <<a, b, d>>
    BY <2>1, JoinedSteps
  <2> QED
    BY <2>2, <2>3 DEF a, b, d
<1>3. Leaving(c) = <<Step("delete", c), Step("mark", c),
                     Step("append", c), Step("enable", c)>>
  <2> DEFINE a == Step("delete", c)
             b == Step("mark", c)
             d == Step("append", c)
             e == Step("enable", c)
  <2>1. a \in Ops /\ b \in Ops /\ d \in Ops /\ e \in Ops
    BY <1>1
  <2>2. Leaving(c) = <<a, b>> \o <<d, e>>
    BY DEF Leaving, Removal, Output, Step
  <2> HIDE DEF a, b, d, e
  <2>3. <<a, b>> \o <<d, e>> = <<a, b, d, e>> /\ <<a>> \o <<b, d>> = <<a, b, d>>
    BY <2>1, JoinedSteps
  <2> QED
    BY <2>2, <2>3 DEF a, b, d, e
<1>4. Append(Removal(c), [op |-> "close", cl |-> c])
        = <<Step("delete", c), Step("mark", c), Step("close", c)>>
  <2> DEFINE x == <<Step("delete", c), Step("mark", c)>>
             y == <<Step("delete", c), Step("mark", c), Step("close", c)>>
             z == Step("close", c)
  <2>1. x \in Seq(Ops) /\ y \in Seq(Ops) /\ z \in Ops /\ Len(x) = 2 /\ Len(y) = 3
    <3> DEFINE p == Step("delete", c)
               q == Step("mark", c)
    <3>1. p \in Ops /\ q \in Ops /\ z \in Ops
      BY <1>1
    <3> HIDE DEF p, q, z
    <3>2. /\ <<p, q>> \in Seq(Ops) /\ <<p, q, z>> \in Seq(Ops)
          /\ Len(<<p, q>>) = 2 /\ Len(<<p, q, z>>) = 3
      BY <3>1
    <3> QED
      BY <3>1, <3>2 DEF p, q, z
  <2>2. y[1] = x[1] /\ y[2] = x[2] /\ y[3] = z
    OBVIOUS
  <2>3. Append(Removal(c), [op |-> "close", cl |-> c]) = Append(x, z)
    BY DEF Removal, Step
  <2> HIDE DEF x, y, z
  <2>4. /\ Append(x, z) \in Seq(Ops) /\ Len(Append(x, z)) = Len(x) + 1
        /\ \A i \in 1..Len(x) : Append(x, z)[i] = x[i]
        /\ Append(x, z)[Len(x) + 1] = z
    <3>1. x \in Seq(Ops) /\ z \in Ops
      BY <2>1
    <3> QED
      BY <3>1
  <2>5. \A i \in 1..3 : Append(x, z)[i] = y[i]
    <3>1. /\ Append(x, z)[1] = x[1] /\ Append(x, z)[2] = x[2] /\ Append(x, z)[3] = z
          /\ 1..3 = {1, 2, 3}
      BY <2>1, <2>4
    <3> QED
      BY <2>2, <3>1
  <2>6. Append(x, z) = y
    BY <2>1, <2>4, <2>5, SeqEqual
  <2> QED
    BY <2>3, <2>6 DEF x, y, z
<1> QED
  BY <1>2, <1>3, <1>4 DEF Output, Step

(* What a command or the handling of a disconnection has to do is for the  *)
(* client itself or one on the list.                                       *)
LEMMA TodoFacts ==
  ASSUME IInv, NEW c \in Accepted
  PROVE  /\ Append(Removal(c), [op |-> "close", cl |-> c]) \in Seq(Ops) \ {<<>>}
         /\ \A i \in DOMAIN Append(Removal(c), [op |-> "close", cl |-> c]) :
              Append(Removal(c), [op |-> "close", cl |-> c])[i].cl = c
         /\ \A e \in Effects(c) :
              /\ e \in Seq(Ops)
              /\ \A i \in DOMAIN e :
                   /\ e[i].cl \in Accepted
                   /\ e[i].cl = c \/ \E fd \in Fds : clList[fd] = e[i].cl
<1>1. Accepted \subseteq Ids
  BY ConstantsAssumption DEF IInv, TypeOK, Accepted, Ids
<1>2. \A d \in Accepted :
        /\ Output(d) \in Seq(Ops) /\ Registering(d) \in Seq(Ops) /\ Leaving(d) \in Seq(Ops)
        /\ \A i \in DOMAIN Output(d) : Output(d)[i].cl = d
        /\ \A i \in DOMAIN Registering(d) : Registering(d)[i].cl = d
        /\ \A i \in DOMAIN Leaving(d) : Leaving(d)[i].cl = d
  <2> SUFFICES ASSUME NEW d \in Accepted
               PROVE  /\ Output(d) \in Seq(Ops) /\ Registering(d) \in Seq(Ops)
                      /\ Leaving(d) \in Seq(Ops)
                      /\ \A i \in DOMAIN Output(d) : Output(d)[i].cl = d
                      /\ \A i \in DOMAIN Registering(d) : Registering(d)[i].cl = d
                      /\ \A i \in DOMAIN Leaving(d) : Leaving(d)[i].cl = d
    OBVIOUS
  <2>1. d \in Ids
    BY <1>1
  <2>2. \A o \in {"delete", "mark", "register", "append", "enable", "close"} :
          Step(o, d) \in Ops /\ Step(o, d).cl = d
    BY <2>1 DEF Step, Ops
  <2> DEFINE o == Output(d)
             g == Registering(d)
             l == Leaving(d)
  <2>3. /\ o = <<Step("append", d), Step("enable", d)>>
        /\ g = <<Step("register", d), Step("append", d), Step("enable", d)>>
        /\ l = <<Step("delete", d), Step("mark", d), Step("append", d), Step("enable", d)>>
    BY <2>1, Commands
  <2> HIDE DEF o, g, l
  <2>4. o \in Seq(Ops) /\ \A i \in DOMAIN o : o[i].cl = d
    BY <2>2, <2>3
  <2>5. g \in Seq(Ops) /\ \A i \in DOMAIN g : g[i].cl = d
    BY <2>2, <2>3
  <2>6. l \in Seq(Ops) /\ \A i \in DOMAIN l : l[i].cl = d
    BY <2>2, <2>3
  <2> QED
    BY <2>4, <2>5, <2>6 DEF o, g, l
<1>3. /\ Append(Removal(c), [op |-> "close", cl |-> c]) \in Seq(Ops) \ {<<>>}
      /\ \A i \in DOMAIN Append(Removal(c), [op |-> "close", cl |-> c]) :
           Append(Removal(c), [op |-> "close", cl |-> c])[i].cl = c
  <2>1. c \in Ids
    BY <1>1
  <2>2. \A o \in {"delete", "mark", "close"} : Step(o, c) \in Ops /\ Step(o, c).cl = c
    BY <2>1 DEF Step, Ops
  <2> DEFINE s == Append(Removal(c), [op |-> "close", cl |-> c])
  <2>3. s = <<Step("delete", c), Step("mark", c), Step("close", c)>>
    BY <2>1, Commands
  <2> HIDE DEF s
  <2>4. s \in Seq(Ops) \ {<<>>} /\ \A i \in DOMAIN s : s[i].cl = c
    BY <2>2, <2>3
  <2> QED
    BY <2>4 DEF s
<1>4. ASSUME NEW e \in Effects(c)
      PROVE  /\ e \in Seq(Ops)
             /\ \A i \in DOMAIN e :
                  /\ e[i].cl \in Accepted
                  /\ e[i].cl = c \/ \E fd \in Fds : clList[fd] = e[i].cl
  <2>1. CASE e = <<>>
    BY <2>1
  <2>2. CASE e \in {Output(c), Registering(c), Leaving(c)}
    BY <1>2, <2>2
  <2>3. CASE \E d \in Accepted : clList[fdOf[d]] = d /\ e = Output(d)
    <3>1. PICK d \in Accepted : clList[fdOf[d]] = d /\ e = Output(d)
      BY <2>3
    <3>2. fdOf[d] \in Fds
      BY DEF IInv, SlotsOK
    <3> QED
      BY <1>2, <3>1, <3>2
  <2> QED
    BY <1>4, <2>1, <2>2, <2>3 DEF Effects
<1> QED
  BY <1>3, <1>4

(* The natural numbers are well-founded.                                   *)
LEMMA Smallest ==
  ASSUME NEW T, T \subseteq Nat, T # {}
  PROVE  \E m \in T : \A n \in T : m <= n
<1> DEFINE R == {ss \in Nat \X Nat : ss[1] < ss[2]}
<1>1. IsWellFoundedOn(R, Nat)
  BY NatLessThanWellFounded DEF OpToRel
<1>2. PICK m \in T : \A n \in T : ~ (<<n, m>> \in R)
  <2> HIDE DEF R
  <2> QED
    BY <1>1, WFMin
<1>3. ASSUME NEW n \in T PROVE m <= n
  <2>1. ~ (<<n, m>> \in R) /\ <<n, m>> \in Nat \X Nat
    BY <1>2
  <2>2. ~ (n < m)
    BY <2>1
  <2> QED
    BY <2>2
<1> QED
  BY <1>3

(* accept returns a descriptor that nobody holds open, and its place in    *)
(* the list is free.                                                       *)
LEMMA AcceptFacts ==
  ASSUME IInv, DispatchAccept
  PROVE  \/ UNCHANGED <<backlog, fdOf, idCnt, clList>>
         \/ \E fd \in Fds :
              /\ Open(fd) = {} /\ clList[fd] = None
              /\ idCnt' = idCnt + 1 /\ idCnt + 1 \in Ids
              /\ backlog' = backlog - 1 /\ backlog > 0
              /\ fdOf' = [fdOf EXCEPT ![idCnt + 1] = fd]
              /\ clList' = [clList EXCEPT ![fd] = idCnt + 1]
<1> USE ConstantsAssumption
<1>1. CASE FreeFds = {}
  BY <1>1 DEF DispatchAccept
<1>2. CASE FreeFds # {}
  <2> DEFINE fd == CHOOSE f \in FreeFds : \A g \in FreeFds : f <= g
  <2>1. fd \in FreeFds
    <3>1. FreeFds \subseteq Nat
      BY DEF FreeFds
    <3> QED
      BY <1>2, <3>1, Smallest
  <2>2. fd \in Fds /\ Open(fd) = {}
    BY <2>1 DEF FreeFds
  <2>3. /\ backlog' = backlog - 1 /\ idCnt' = idCnt + 1
        /\ fdOf' = [fdOf EXCEPT ![idCnt + 1] = fd]
        /\ clList' = [clList EXCEPT ![fd] = IF @ = None THEN idCnt + 1 ELSE @]
    BY <1>2 DEF DispatchAccept
  <2>4. clList[fd] = None
    BY <2>2 DEF IInv, SlotsOK, Open, Held
  <2>5. Event("LISTEN", 0, None) \in batch /\ Event("LISTEN", 0, None).filt \notin Filters
    BY DEF DispatchAccept, Event, Filters
  <2>6. backlog > 0
    BY <2>5 DEF IInv, MessagesOK
  <2>7. idCnt + 1 \in Ids
    BY <2>6 DEF IInv, TypeOK, Ids
  <2>8. clList' = [clList EXCEPT ![fd] = idCnt + 1]
    BY <2>3, <2>4
  <2> HIDE DEF fd
  <2> QED
    BY <2>2, <2>3, <2>4, <2>6, <2>7, <2>8
<1> QED
  BY <1>1, <1>2

(* A step keeps the ranges.                                                *)
LEMMA TypeStep == IInv /\ [Next]_vars => TypeOK'
<1> SUFFICES ASSUME IInv, [Next]_vars PROVE TypeOK'
  OBVIOUS
<1>0. TypeOK /\ WorkersOK /\ SlotsOK
  BY DEF IInv
<1> USE ConstantsAssumption DEF kernelVars, mainVars, clientVars, workerVars
<1>1. CASE Take \/ Apply \/ Scan \/ DispatchDisable \/ DispatchPush \/ DispatchDone
  BY <1>0, <1>1 DEF Take, Apply, Scan, DispatchDisable, DispatchPush, DispatchDone, TypeOK
<1>2. CASE DispatchError
  <2>1. CASE CloseAt(Head(errs).fd) /\ UNCHANGED idCnt
    <3>1. clList' \in [Fds -> Ids \cup {None}]
      BY <1>0, <2>1, CloseAtFacts
    <3> QED
      BY <1>0, <1>2, <2>1, <3>1 DEF DispatchError, TypeOK
  <2>2. CASE UNCHANGED clientVars
    BY <1>0, <1>2, <2>2 DEF DispatchError, TypeOK
  <2> QED
    BY <1>2, <2>1, <2>2 DEF DispatchError
<1>3. CASE DispatchAccept
  <2>1. UNCHANGED <<wpc, opCl, todo, msg>>
    BY <1>3 DEF DispatchAccept
  <2>2. CASE UNCHANGED <<backlog, fdOf, idCnt, clList>>
    BY <1>0, <2>1, <2>2 DEF TypeOK
  <2>3. ASSUME NEW fd \in Fds,
               /\ idCnt' = idCnt + 1 /\ idCnt + 1 \in Ids
               /\ backlog' = backlog - 1 /\ backlog > 0
               /\ fdOf' = [fdOf EXCEPT ![idCnt + 1] = fd]
               /\ clList' = [clList EXCEPT ![fd] = idCnt + 1]
        PROVE  TypeOK'
    BY <1>0, <2>1, <2>3 DEF TypeOK
  <2> QED
    BY <1>3, <2>2, <2>3, AcceptFacts
<1>4. ASSUME NEW w \in Workers,
             \/ Pop(w) \/ Check(w) \/ Rearm(w) \/ Send(w) \/ Sent(w) \/ More(w) \/ Release(w)
      PROVE  TypeOK'
  <2>1. wpc' \in [Workers -> WorkerPcs]
    BY <1>0, <1>4 DEF Pop, Check, Rearm, Send, Sent, More, Release, Goto, TypeOK, WorkerPcs
  <2>2. /\ UNCHANGED <<backlog, idCnt, fdOf, clList, todo>>
        /\ opCl' \in [Workers -> Ids \cup {None}] /\ DOMAIN msg' = Workers
    BY <1>0, <1>4 DEF Pop, Check, Rearm, Send, Sent, More, Release, TypeOK
  <2> QED
    BY <1>0, <2>1, <2>2 DEF TypeOK
<1>5. ASSUME NEW w \in Workers, Find(w) PROVE TypeOK'
  <2>1. clList[msg[w].fd] \in Ids \cup {None}
    BY <1>0, <1>5 DEF Find, IInv, MessagesOK, TypeOK
  <2> QED
    BY <1>0, <1>5, <2>1 DEF Find, Goto, TypeOK, WorkerPcs
<1>6. ASSUME NEW w \in Workers, Recv(w) \/ Line(w) PROVE TypeOK'
  <2>1. opCl[w] \in Accepted
    BY <1>0, <1>6 DEF WorkersOK, Recv, Line
  <2>2. /\ \/ todo' = todo
           \/ todo' = [todo EXCEPT ![w] =
                         Append(Removal(opCl[w]), [op |-> "close", cl |-> opCl[w]])]
           \/ \E e \in Effects(opCl[w]) : todo' = [todo EXCEPT ![w] = e]
        /\ wpc' \in [Workers -> WorkerPcs]
        /\ UNCHANGED <<backlog, idCnt, fdOf, clList, opCl, msg>>
    <3>1. ASSUME NEW p \in WorkerPcs, Goto(w, p) PROVE wpc' \in [Workers -> WorkerPcs]
      BY <1>0, <3>1 DEF Goto, TypeOK
    <3>2. {"lines", "bye", "rearm", "cmd"} \subseteq WorkerPcs /\ AfterError \in WorkerPcs
      BY DEF AfterError, WorkerPcs
    <3>3. CASE Recv(w)
      <4>1. Goto(w, "lines") \/ Goto(w, "bye") \/ Goto(w, AfterError)
        BY <3>3 DEF Recv
      <4> QED
        BY <3>1, <3>2, <3>3, <4>1 DEF Recv
    <3>4. CASE Line(w)
      <4>1. Goto(w, "rearm") \/ Goto(w, "lines") \/ Goto(w, "cmd")
        BY <3>4 DEF Line
      <4> QED
        BY <3>1, <3>2, <3>4, <4>1 DEF Line
    <3> QED
      BY <1>6, <3>3, <3>4
  <2>3. todo' \in [Workers -> Seq(Ops)]
    <3> DEFINE c == opCl[w]
               z == Append(Removal(c), [op |-> "close", cl |-> c])
    <3>1. z \in Seq(Ops) /\ \A e \in Effects(c) : e \in Seq(Ops)
      BY <2>1, TodoFacts, Zenon
    <3>2. \/ todo' = todo \/ todo' = [todo EXCEPT ![w] = z]
          \/ \E e \in Effects(c) : todo' = [todo EXCEPT ![w] = e]
      BY <2>2
    <3>3. todo \in [Workers -> Seq(Ops)]
      BY <1>0 DEF TypeOK
    <3> HIDE DEF c, z
    <3> QED
      BY <3>1, <3>2, <3>3
  <2> QED
    BY <1>0, <2>2, <2>3 DEF TypeOK
<1>7. ASSUME NEW w \in Workers, Do(w) PROVE TypeOK'
  <2>1. todo[w] \in Seq(Ops) /\ todo[w] # <<>>
    BY <1>0, <1>7 DEF Do, TypeOK, WorkersOK
  <2>2. todo' \in [Workers -> Seq(Ops)]
    BY <1>0, <1>7, <2>1 DEF Do, TypeOK
  <2>3. clList' \in [Fds -> Ids \cup {None}]
    <3>1. clList' = clList \/ CloseAt(fdOf[Head(todo[w]).cl])
      BY <1>7 DEF Do, Perform
    <3> QED
      BY <1>0, <3>1, CloseAtFacts DEF TypeOK
  <2>4. wpc' \in [Workers -> WorkerPcs]
    BY <1>0, <1>7 DEF Do, Goto, TypeOK, WorkerPcs
  <2> QED
    BY <1>0, <1>7, <2>2, <2>3, <2>4 DEF Do, TypeOK
<1>8. ASSUME NEW w \in Workers, CloseSent(w) PROVE TypeOK'
  <2>1. clList' \in [Fds -> Ids \cup {None}]
    BY <1>0, <1>8, CloseAtFacts DEF CloseSent
  <2> QED
    BY <1>0, <1>8, <2>1 DEF CloseSent, Goto, TypeOK, WorkerPcs
<1>9. CASE Connect
  BY <1>0, <1>9 DEF Connect, TypeOK
<1>10. CASE \E c \in Accepted : PeerSend(c) \/ PeerShut(c) \/ PeerReset(c)
  BY <1>0, <1>10 DEF PeerSend, PeerShut, PeerReset, TypeOK
<1>11. CASE UNCHANGED vars
  BY <1>0, <1>11 DEF vars, TypeOK
<1> QED
  BY <1>1, <1>2, <1>3, <1>4, <1>5, <1>6, <1>7, <1>8, <1>9, <1>10, <1>11
  DEF Next, MainNext, WorkerNext, PeerNext

(* A step of another thread leaves a worker's references as they are.      *)
LEMMA WorkersKept ==
  ASSUME TypeOK, WorkersOK, UNCHANGED <<wpc, opCl, todo>>, idCnt' \in {idCnt, idCnt + 1}
  PROVE  WorkersOK'
<1>1. Accepted \subseteq Accepted'
  BY DEF TypeOK, Accepted
<1> QED
  BY <1>1 DEF WorkersOK

(* Workers go on to refer to accepted clients.                             *)
LEMMA WorkersStep == IInv /\ [Next]_vars => WorkersOK'
<1> SUFFICES ASSUME IInv, [Next]_vars PROVE WorkersOK'
  OBVIOUS
<1>0. TypeOK /\ WorkersOK /\ SlotsOK /\ \A c \in Accepted : c # None
  BY DEF IInv, Accepted, None
<1> USE ConstantsAssumption DEF kernelVars, mainVars, clientVars, workerVars
<1>1. CASE Take \/ Apply \/ Scan \/ DispatchDisable \/ DispatchPush \/ DispatchDone
           \/ DispatchError
  BY <1>0, <1>1, WorkersKept DEF Take, Apply, Scan, DispatchDisable, DispatchPush,
                                 DispatchDone, DispatchError
<1>2. CASE DispatchAccept
  <2>1. UNCHANGED <<wpc, opCl, todo>>
    BY <1>2 DEF DispatchAccept
  <2> QED
    BY <1>0, <1>2, <2>1, AcceptFacts, WorkersKept
<1>3. ASSUME NEW w \in Workers,
             \/ Pop(w) \/ Check(w) \/ Rearm(w) \/ Send(w) \/ Sent(w) \/ More(w) \/ Release(w)
             \/ CloseSent(w)
      PROVE  WorkersOK'
  <2>1. /\ idCnt' = idCnt /\ todo' = todo
        /\ \A v \in Workers \ {w} : wpc'[v] = wpc[v] /\ opCl'[v] = opCl[v]
        /\ wpc[w] \notin {"cmd", "bye"} /\ wpc'[w] \notin {"cmd", "bye"}
        /\ opCl'[w] = opCl[w] \/ (opCl'[w] = None /\ wpc'[w] = "idle")
        /\ wpc[w] \in {"idle", "find", "release"} => wpc'[w] \in {"find", "idle"}
    <3>1. CASE Pop(w) \/ Release(w)
      BY <1>0, <3>1 DEF Pop, Release, Goto, TypeOK
    <3>2. CASE Check(w) \/ Rearm(w) \/ Send(w)
      BY <1>0, <3>2 DEF Check, Rearm, Send, Goto, TypeOK
    <3>3. CASE Sent(w) \/ More(w) \/ CloseSent(w)
      BY <1>0, <3>3 DEF Sent, More, CloseSent, Goto, TypeOK
    <3> QED
      BY <1>3, <3>1, <3>2, <3>3
  <2>2. Accepted' = Accepted
    BY <2>1 DEF Accepted
  <2> QED
    BY <1>0, <2>1, <2>2 DEF WorkersOK
<1>4. ASSUME NEW w \in Workers, Find(w) PROVE WorkersOK'
  <2>1. clList[msg[w].fd] # None => clList[msg[w].fd] \in Accepted
    BY <1>0, <1>4 DEF Find, IInv, MessagesOK, SlotsOK
  <2>2. /\ idCnt' = idCnt /\ todo' = todo /\ wpc[w] = "find"
        /\ \A v \in Workers \ {w} : wpc'[v] = wpc[v] /\ opCl'[v] = opCl[v]
        /\ opCl'[w] \in {clList[msg[w].fd], None}
        /\ wpc'[w] = "release" \/ (wpc'[w] = "check" /\ opCl'[w] # None)
    BY <1>0, <1>4 DEF Find, Goto, TypeOK
  <2>3. Accepted' = Accepted
    BY <2>2 DEF Accepted
  <2> QED
    BY <1>0, <2>1, <2>2, <2>3 DEF WorkersOK
<1>5. ASSUME NEW w \in Workers, Recv(w) \/ Line(w) PROVE WorkersOK'
  <2>1. opCl[w] \in Accepted /\ todo[w] = <<>>
    BY <1>0, <1>5 DEF WorkersOK, Recv, Line
  <2>2. /\ idCnt' = idCnt /\ opCl' = opCl
        /\ \A v \in Workers \ {w} : wpc'[v] = wpc[v] /\ todo'[v] = todo[v]
        /\ wpc'[w] \notin {"idle", "find"}
        /\ \/ todo' = todo /\ wpc'[w] \in {"lines", "rearm"}
           \/ todo'[w] = Append(Removal(opCl[w]), [op |-> "close", cl |-> opCl[w]])
                /\ wpc'[w] = "bye"
           \/ \E e \in Effects(opCl[w]) :
                todo'[w] = e /\ wpc'[w] = IF e = <<>> THEN "lines" ELSE "cmd"
    <3>1. CASE Recv(w)
      BY <1>0, <3>1 DEF Recv, Goto, AfterError, TypeOK
    <3>2. CASE Line(w)
      BY <1>0, <3>2 DEF Line, Goto, TypeOK
    <3> QED
      BY <1>5, <3>1, <3>2
  <2>3. Accepted' = Accepted
    BY <2>2 DEF Accepted
  <2>4. /\ wpc'[w] \in {"cmd", "bye"} <=> todo'[w] # <<>>
        /\ \A i \in DOMAIN todo'[w] : todo'[w][i].cl \in Accepted
    <3>1. CASE todo' = todo /\ wpc'[w] \in {"lines", "rearm"}
      BY <2>1, <3>1
    <3>2. CASE /\ todo'[w] = Append(Removal(opCl[w]), [op |-> "close", cl |-> opCl[w]])
               /\ wpc'[w] = "bye"
      BY <2>1, <3>2, TodoFacts
    <3>3. CASE \E e \in Effects(opCl[w]) :
                 todo'[w] = e /\ wpc'[w] = IF e = <<>> THEN "lines" ELSE "cmd"
      BY <2>1, <3>3, TodoFacts
    <3> QED
      BY <2>2, <3>1, <3>2, <3>3
  <2> QED
    BY <1>0, <2>1, <2>2, <2>3, <2>4 DEF WorkersOK
<1>6. ASSUME NEW w \in Workers, Do(w) PROVE WorkersOK'
  <2>1. /\ todo[w] \in Seq(Ops) /\ todo[w] # <<>> /\ opCl[w] # None
        /\ \A i \in DOMAIN todo[w] : todo[w][i].cl \in Accepted
    BY <1>0, <1>6 DEF Do, TypeOK, WorkersOK
  <2>2. /\ idCnt' = idCnt /\ opCl' = opCl
        /\ \A v \in Workers \ {w} : wpc'[v] = wpc[v] /\ todo'[v] = todo[v]
        /\ todo'[w] = Tail(todo[w]) /\ wpc[w] \in {"cmd", "bye"}
        /\ wpc'[w] = IF Len(todo[w]) > 1 THEN wpc[w]
                     ELSE IF wpc[w] = "cmd" THEN "lines" ELSE "release"
    BY <1>0, <1>6 DEF Do, Goto, TypeOK
  <2> DEFINE left == Tail(todo[w])
  <2>3. /\ left \in Seq(Ops) /\ Len(left) = Len(todo[w]) - 1 /\ Len(todo[w]) \in Nat \ {0}
        /\ \A i \in 1..Len(left) : left[i] = todo[w][i + 1]
        /\ DOMAIN todo[w] = 1..Len(todo[w]) /\ DOMAIN left = 1..Len(left)
    BY <2>1, HeadTailProperties, EmptySeq, LenProperties
  <2>4. \A i \in DOMAIN left : left[i].cl \in Accepted
    <3> HIDE DEF left
    <3> QED
      BY <2>1, <2>3
  <2>5. wpc'[w] \in {"cmd", "bye"} <=> left # <<>>
    <3> HIDE DEF left
    <3>1. left # <<>> <=> Len(todo[w]) > 1
      BY <2>3, EmptySeq
    <3> QED
      BY <2>2, <3>1
  <2>6. Accepted' = Accepted
    BY <2>2 DEF Accepted
  <2> QED
    BY <1>0, <2>1, <2>2, <2>4, <2>5, <2>6 DEF WorkersOK
<1>7. CASE Connect
  BY <1>0, <1>7, WorkersKept DEF Connect
<1>8. CASE \E c \in Accepted : PeerSend(c) \/ PeerShut(c) \/ PeerReset(c)
  BY <1>0, <1>8, WorkersKept DEF PeerSend, PeerShut, PeerReset
<1>9. CASE UNCHANGED vars
  BY <1>0, <1>9, WorkersKept DEF vars
<1> QED
  BY <1>1, <1>2, <1>3, <1>4, <1>5, <1>6, <1>7, <1>8, <1>9
  DEF Next, MainNext, WorkerNext, PeerNext

(* Messages go on to be for descriptors of clients.                        *)
LEMMA MessagesStep == IInv /\ [Next]_vars => MessagesOK'
<1> SUFFICES ASSUME IInv, [Next]_vars PROVE MessagesOK'
  OBVIOUS
<1>0. TypeOK /\ MessagesOK /\ SlotsOK
  BY DEF IInv
<1>q. \A w \in Workers : wpc[w] = "find" => msg[w].fd \in Fds
  BY <1>0 DEF MessagesOK
<1> USE ConstantsAssumption DEF kernelVars, mainVars, clientVars, workerVars
<1>1. CASE Take \/ Apply \/ DispatchError \/ DispatchDone
  <2>1. /\ UNCHANGED <<msgQ, backlog, wpc, msg>> /\ batch' = batch
        /\ mpc' # "push"
    BY <1>1 DEF Take, Apply, DispatchError, DispatchDone
  <2> QED
    BY <1>0, <2>1 DEF MessagesOK
<1>2. CASE Scan
  <2>1. /\ UNCHANGED <<msgQ, backlog, wpc, msg>> /\ mpc' # "push"
        /\ batch' \subseteq Ready \cup Writable
    BY <1>2 DEF Scan
  <2>2. \A e \in Ready \cup Writable :
          IF e.filt \in Filters THEN e.fd \in Fds
                                ELSE e = Event("LISTEN", 0, None) => backlog > 0
    BY <1>0 DEF Ready, Writable, Event, Filters, SlotsOK, TypeOK
  <2> QED
    BY <1>0, <2>1, <2>2 DEF MessagesOK
<1>3. CASE DispatchAccept
  <2>1. /\ UNCHANGED <<msgQ, regMsg, wpc, msg, mpc>> /\ mpc = "dispatch"
        /\ batch' = batch \ {Event("LISTEN", 0, None)}
    BY <1>3 DEF DispatchAccept
  <2> QED
    BY <1>0, <2>1 DEF MessagesOK
<1>4. CASE DispatchDisable
  <2>1. /\ UNCHANGED <<msgQ, backlog, wpc, msg>>
        /\ \E e \in batch : e.filt \in Filters /\ batch' = batch \ {e} /\ regMsg' = e
    BY <1>4 DEF DispatchDisable
  <2> QED
    BY <1>0, <2>1 DEF MessagesOK
<1>5. CASE DispatchPush
  <2>1. /\ UNCHANGED <<batch, backlog, wpc, msg>> /\ mpc' # "push"
        /\ msgQ' = Append(msgQ, regMsg) /\ regMsg.fd \in Fds
    BY <1>0, <1>5 DEF DispatchPush, MessagesOK
  <2> DEFINE S == {m \in {msgQ[i] : i \in DOMAIN msgQ} : m.fd \in Fds}
             T == {m \in {msgQ'[i] : i \in DOMAIN msgQ'} : m.fd \in Fds}
  <2>2. msgQ \in Seq(S)
    BY <1>0 DEF MessagesOK
  <2>3. msgQ \in Seq(S \cup {regMsg})
    <3> HIDE DEF S
    <3> QED
      BY <2>2, SeqMonotonic
  <2>4. S \cup {regMsg} \subseteq T
    <3>1. /\ DOMAIN msgQ = 1..Len(msgQ) /\ Len(msgQ) \in Nat /\ DOMAIN msgQ' = 1..Len(msgQ) + 1
          /\ \A i \in 1..Len(msgQ) : msgQ'[i] = msgQ[i]
          /\ msgQ'[Len(msgQ) + 1] = regMsg
      <4> HIDE DEF S
      <4> QED
        BY <2>1, <2>3
    <3> QED
      BY <2>1, <3>1
  <2>5. msgQ' \in Seq(T)
    <3> HIDE DEF S, T
    <3>1. msgQ' \in Seq(S \cup {regMsg})
      BY <2>1, <2>3
    <3> QED
      BY <2>4, <3>1, SeqMonotonic
  <2> QED
    BY <1>0, <2>1, <2>5 DEF MessagesOK
<1>6. ASSUME NEW w \in Workers, Pop(w) PROVE MessagesOK'
  <2>1. /\ UNCHANGED <<batch, backlog, regMsg, mpc>> /\ msgQ # <<>>
        /\ msgQ' = Tail(msgQ) /\ msg' = [msg EXCEPT ![w] = Head(msgQ)]
        /\ \A v \in Workers \ {w} : wpc'[v] = wpc[v]
    BY <1>0, <1>6 DEF Pop, Goto, TypeOK
  <2> DEFINE S == {m \in {msgQ[i] : i \in DOMAIN msgQ} : m.fd \in Fds}
             T == {m \in {msgQ'[i] : i \in DOMAIN msgQ'} : m.fd \in Fds}
  <2>2. msgQ \in Seq(S)
    BY <1>0 DEF MessagesOK
  <2>3. Head(msgQ) \in S /\ msgQ' \in Seq(S)
    <3> HIDE DEF S
    <3> QED
      BY <2>1, <2>2, HeadTailProperties
  <2>4. \A i \in 1..Len(msgQ') : msgQ'[i] \in T
    <3>1. \A i \in 1..Len(msgQ') : msgQ'[i] \in S
      <4> HIDE DEF S
      <4> QED
        BY <2>3, ElementOfSeq
    <3>2. DOMAIN msgQ' = 1..Len(msgQ')
      <4> HIDE DEF S
      <4> QED
        BY <2>3, LenProperties
    <3> QED
      BY <3>1, <3>2
  <2>5. msgQ' \in Seq(T)
    <3>1. Len(msgQ') \in Nat /\ msgQ' \in [1..Len(msgQ') -> S]
      <4> HIDE DEF S
      <4> QED
        BY <2>3, LenProperties
    <3> HIDE DEF S, T
    <3>2. msgQ' \in [1..Len(msgQ') -> T]
      BY <2>4, <3>1
    <3> QED
      BY <3>1, <3>2
  <2>6. \A v \in Workers : wpc'[v] = "find" => msg'[v].fd \in Fds
    BY <1>0, <1>q, <2>1, <2>3 DEF TypeOK
  <2> QED
    BY <1>0, <2>1, <2>5, <2>6 DEF MessagesOK
<1>7. ASSUME NEW w \in Workers,
             \/ Find(w) \/ Check(w) \/ Recv(w) \/ Line(w) \/ Do(w) \/ Rearm(w)
             \/ Send(w) \/ Sent(w) \/ CloseSent(w) \/ More(w) \/ Release(w)
      PROVE  MessagesOK'
  <2>1. /\ UNCHANGED <<batch, msgQ, regMsg, mpc, backlog>>
        /\ \A v \in Workers : msg'[v] = msg[v] \/ wpc'[v] # "find"
        /\ \A v \in Workers : wpc'[v] = wpc[v] \/ wpc'[v] # "find"
    <3>1. CASE Find(w) \/ Check(w) \/ Rearm(w)
      BY <1>0, <3>1 DEF Find, Check, Rearm, Goto, TypeOK
    <3>2. CASE Recv(w)
      BY <1>0, <3>2 DEF Recv, Goto, AfterError, TypeOK
    <3>3. CASE Line(w)
      BY <1>0, <3>3 DEF Line, Goto, TypeOK
    <3>4. CASE Do(w)
      BY <1>0, <3>4 DEF Do, Goto, TypeOK
    <3>5. CASE Send(w) \/ Sent(w) \/ CloseSent(w) \/ More(w)
      BY <1>0, <3>5 DEF Send, Sent, CloseSent, More, Goto, TypeOK
    <3>6. CASE Release(w)
      BY <1>0, <3>6 DEF Release, Goto, TypeOK
    <3> QED
      BY <1>7, <3>1, <3>2, <3>3, <3>4, <3>5, <3>6
  <2> QED
    BY <1>0, <2>1 DEF MessagesOK
<1>8. CASE Connect
  BY <1>0, <1>8 DEF Connect, MessagesOK, TypeOK
<1>9. CASE \E c \in Accepted : PeerSend(c) \/ PeerShut(c) \/ PeerReset(c)
  BY <1>0, <1>9 DEF PeerSend, PeerShut, PeerReset, MessagesOK
<1>10. CASE UNCHANGED vars
  BY <1>0, <1>10 DEF vars, MessagesOK
<1> QED
  BY <1>1, <1>2, <1>3, <1>4, <1>5, <1>6, <1>7, <1>8, <1>9, <1>10
  DEF Next, MainNext, WorkerNext, PeerNext

(* Who is referred to once is not referred to again after the last         *)
(* reference is gone.                                                      *)
LEMMA HeldStep ==
  ASSUME IInv, [Next]_vars
  PROVE  \A c \in Accepted : Held(c)' => Held(c)
<1>0. /\ TypeOK /\ WorkersOK /\ SlotsOK
      /\ \A c \in Accepted : c # None /\ c \in Ids
  BY ConstantsAssumption DEF IInv, TypeOK, Accepted, None, Ids
<1> USE DEF kernelVars, mainVars, clientVars, workerVars
<1>1. CASE UNCHANGED <<clList, opCl, todo>>
  BY <1>1 DEF Held
<1>2. CASE MainNext \/ PeerNext \/ UNCHANGED vars
  <2>1. CASE DispatchError
    <3>1. /\ UNCHANGED <<opCl, todo>>
          /\ CloseAt(Head(errs).fd) \/ UNCHANGED clList
      BY <2>1 DEF DispatchError
    <3>2. \A fd \in Fds : clList'[fd] \in {clList[fd], None}
      BY <1>0, <3>1, CloseAtFacts
    <3> QED
      BY <1>0, <3>1, <3>2 DEF Held
  <2>2. CASE DispatchAccept
    <3>1. UNCHANGED <<opCl, todo>>
      BY <2>2 DEF DispatchAccept
    <3>2. \/ clList' = clList
          \/ \E fd \in Fds : clList' = [clList EXCEPT ![fd] = idCnt + 1]
      BY <2>2, AcceptFacts
    <3>3. idCnt + 1 \notin Accepted
      BY <1>0 DEF Accepted, TypeOK
    <3> QED
      BY <1>0, <3>1, <3>2, <3>3 DEF Held, TypeOK
  <2>3. CASE \/ Take \/ Apply \/ Scan \/ DispatchDisable \/ DispatchPush \/ DispatchDone
             \/ Connect \/ UNCHANGED vars
    BY <1>1, <2>3 DEF Take, Apply, Scan, DispatchDisable, DispatchPush, DispatchDone,
                      Connect, vars
  <2>4. CASE \E c \in Accepted : PeerSend(c) \/ PeerShut(c) \/ PeerReset(c)
    BY <1>1, <2>4 DEF PeerSend, PeerShut, PeerReset
  <2> QED
    BY <1>2, <2>1, <2>2, <2>3, <2>4 DEF MainNext, PeerNext
<1>3. ASSUME NEW w \in Workers,
             \/ Pop(w) \/ Check(w) \/ Rearm(w) \/ Send(w) \/ Sent(w) \/ More(w)
      PROVE  \A c \in Accepted : Held(c)' => Held(c)
  BY <1>1, <1>3 DEF Pop, Check, Rearm, Send, Sent, More
<1>4. ASSUME NEW w \in Workers,
             \/ Find(w) \/ Recv(w) \/ Line(w) \/ Do(w) \/ CloseSent(w) \/ Release(w)
      PROVE  \A c \in Accepted : Held(c)' => Held(c)
  <2>2. \A fd \in Fds : clList'[fd] \in {clList[fd], None}
    <3>1. clList' = clList \/ \E fd : CloseAt(fd)
      <4>1. CASE Find(w) \/ CloseSent(w) \/ Release(w)
        BY <4>1 DEF Find, CloseSent, Release
      <4>2. CASE Recv(w) \/ Line(w)
        BY <4>2 DEF Recv, Line
      <4>3. CASE Do(w)
        BY <4>3 DEF Do, Perform
      <4> QED
        BY <1>4, <4>1, <4>2, <4>3
    <3> QED
      BY <1>0, <3>1, CloseAtFacts
  <2>3. ASSUME NEW c \in Accepted, NEW v \in Workers
        PROVE  /\ opCl'[v] = c => Held(c)
               /\ \A i \in DOMAIN todo'[v] : todo'[v][i].cl = c => Held(c)
    <3>1. CASE Find(w)
      <4>1. todo' = todo /\ opCl'[v] \in {opCl[v], clList[msg[w].fd], None}
        BY <1>0, <3>1 DEF Find, TypeOK
      <4>2. msg[w].fd \in Fds
        BY <3>1 DEF Find, IInv, MessagesOK
      <4> QED
        BY <1>0, <4>1, <4>2 DEF Held
    <3>2. CASE CloseSent(w) \/ Release(w)
      <4>1. todo' = todo /\ opCl'[v] \in {opCl[v], None}
        BY <1>0, <3>2 DEF CloseSent, Release, TypeOK
      <4> QED
        BY <1>0, <4>1 DEF Held
    <3>3. CASE Recv(w) \/ Line(w)
      <4>1. opCl[w] \in Accepted /\ opCl' = opCl
        BY <1>0, <3>3 DEF WorkersOK, Recv, Line
      <4>2. \/ todo'[v] = todo[v]
            \/ todo'[v] = Append(Removal(opCl[w]), [op |-> "close", cl |-> opCl[w]])
            \/ \E e \in Effects(opCl[w]) : todo'[v] = e
        BY <1>0, <3>3 DEF Recv, Line, TypeOK
      <4>3. CASE todo'[v] = todo[v]
        BY <4>1, <4>3 DEF Held
      <4>4. CASE todo'[v] = Append(Removal(opCl[w]), [op |-> "close", cl |-> opCl[w]])
        BY <4>1, <4>4, TodoFacts DEF Held
      <4>5. CASE \E e \in Effects(opCl[w]) : todo'[v] = e
        <5>1. PICK e \in Effects(opCl[w]) : todo'[v] = e
          BY <4>5
        <5>2. \A i \in DOMAIN e : e[i].cl = opCl[w] \/ \E fd \in Fds : clList[fd] = e[i].cl
          BY <4>1, TodoFacts
        <5> QED
          BY <4>1, <5>1, <5>2 DEF Held
      <4> QED
        BY <4>2, <4>3, <4>4, <4>5
    <3>4. CASE Do(w)
      <4>1. opCl' = opCl /\ (todo'[v] = todo[v] \/ (v = w /\ todo'[v] = Tail(todo[v])))
        BY <1>0, <3>4 DEF Do, TypeOK
      <4>2. \A i \in DOMAIN todo'[v] : \E j \in DOMAIN todo[v] : todo'[v][i] = todo[v][j]
        <5>1. CASE todo'[v] = todo[v]
          BY <5>1
        <5>2. CASE v = w /\ todo'[v] = Tail(todo[v])
          <6> DEFINE s == todo[v]
                     t == Tail(todo[v])
          <6>1. s \in Seq(Ops) /\ s # <<>>
            BY <1>0, <3>4, <5>2 DEF Do, TypeOK, WorkersOK
          <6>2. /\ t \in Seq(Ops) /\ Len(t) = Len(s) - 1 /\ Len(s) \in Nat \ {0}
                /\ \A i \in 1..Len(t) : t[i] = s[i + 1]
                /\ DOMAIN s = 1..Len(s) /\ DOMAIN t = 1..Len(t)
            BY <6>1, HeadTailProperties, EmptySeq, LenProperties
          <6> HIDE DEF s, t
          <6>3. \A i \in DOMAIN t : i + 1 \in DOMAIN s /\ t[i] = s[i + 1]
            BY <6>2
          <6> QED
            BY <5>2, <6>3 DEF s, t
        <5> QED
          BY <4>1, <5>1, <5>2
      <4> QED
        BY <4>1, <4>2 DEF Held
    <3> QED
      BY <1>4, <3>1, <3>2, <3>3, <3>4
  <2> QED
    BY <1>0, <2>2, <2>3, HeldKept
<1> QED
  BY <1>2, <1>3, <1>4 DEF Next, WorkerNext

(* No descriptor comes to belong to two clients that are referred to.      *)
LEMMA SlotsStep == IInv /\ [Next]_vars => SlotsOK'
<1> SUFFICES ASSUME IInv, [Next]_vars PROVE SlotsOK'
  OBVIOUS
<1>0. /\ TypeOK /\ WorkersOK /\ SlotsOK
      /\ \A c \in Accepted : c # None /\ c \in Ids
  BY ConstantsAssumption DEF IInv, TypeOK, Accepted, None, Ids
<1> USE ConstantsAssumption DEF kernelVars, mainVars, clientVars, workerVars
<1>1. ASSUME fdOf' = fdOf, idCnt' = idCnt, clList' = clList \/ \E fd : CloseAt(fd)
      PROVE  SlotsOK'
  <2>1. \A fd \in Fds : clList'[fd] \in {clList[fd], None}
    BY <1>0, <1>1, CloseAtFacts
  <2> QED
    BY <1>0, <1>1, <2>1, HeldStep, SlotsKept
<1>2. CASE \/ Take \/ Apply \/ Scan \/ DispatchDisable \/ DispatchPush \/ DispatchDone
           \/ DispatchError \/ Connect \/ UNCHANGED vars
  BY <1>1, <1>2 DEF Take, Apply, Scan, DispatchDisable, DispatchPush, DispatchDone,
                    DispatchError, Connect, vars
<1>3. CASE \E c \in Accepted : PeerSend(c) \/ PeerShut(c) \/ PeerReset(c)
  BY <1>1, <1>3 DEF PeerSend, PeerShut, PeerReset
<1>4. CASE DispatchAccept
  <2>1. UNCHANGED <<opCl, todo>>
    BY <1>4 DEF DispatchAccept
  <2>2. CASE UNCHANGED <<backlog, fdOf, idCnt, clList>>
    BY <2>1, <2>2, SlotsFrame
  <2>3. ASSUME NEW fd \in Fds,
               /\ Open(fd) = {} /\ clList[fd] = None
               /\ idCnt' = idCnt + 1 /\ idCnt + 1 \in Ids
               /\ fdOf' = [fdOf EXCEPT ![idCnt + 1] = fd]
               /\ clList' = [clList EXCEPT ![fd] = idCnt + 1]
        PROVE  SlotsOK'
    <3>1. /\ Accepted' = Accepted \cup {idCnt + 1} /\ idCnt + 1 \notin Accepted
          /\ idCnt + 1 # None
      BY <1>0, <2>3 DEF TypeOK, Accepted, None
    <3>2. /\ \A c \in Accepted : fdOf'[c] = fdOf[c]
          /\ fdOf'[idCnt + 1] = fd
          /\ \A f \in Fds : clList'[f] = IF f = fd THEN idCnt + 1 ELSE clList[f]
      BY <1>0, <2>3, <3>1 DEF TypeOK
    <3>3. \A c \in Accepted : Held(c)' => Held(c)
      BY HeldStep
    <3>4. \A c \in Accepted : Held(c) => fdOf[c] # fd
      BY <2>3 DEF Open
    <3>5. \A c \in Accepted' : fdOf'[c] \in Fds
      BY <1>0, <3>1, <3>2 DEF SlotsOK
    <3>6. \A f \in Fds : clList'[f] # None =>
            clList'[f] \in Accepted' /\ fdOf'[clList'[f]] = f
      BY <1>0, <3>1, <3>2 DEF SlotsOK
    <3>7. \A c, d \in Accepted' : fdOf'[c] = fdOf'[d] /\ Held(c)' /\ Held(d)' => c = d
      <4> SUFFICES ASSUME NEW c \in Accepted', NEW d \in Accepted',
                          fdOf'[c] = fdOf'[d], Held(c)', Held(d)', c # d
                   PROVE  FALSE
        OBVIOUS
      <4>1. CASE c \in Accepted /\ d \in Accepted
        BY <1>0, <3>2, <3>3, <4>1 DEF SlotsOK
      <4>2. CASE c = idCnt + 1 /\ d \in Accepted
        BY <3>2, <3>3, <3>4, <4>2
      <4>3. CASE c \in Accepted /\ d = idCnt + 1
        BY <3>2, <3>3, <3>4, <4>3
      <4> QED
        BY <3>1, <4>1, <4>2, <4>3
    <3> QED
      BY <3>5, <3>6, <3>7 DEF SlotsOK
  <2> QED
    BY <1>4, <2>2, <2>3, AcceptFacts
<1>5. ASSUME NEW w \in Workers, WorkerNext(w) PROVE SlotsOK'
  <2>1. CASE Pop(w) \/ Find(w) \/ Check(w) \/ Recv(w) \/ Line(w)
    BY <1>1, <2>1 DEF Pop, Find, Check, Recv, Line
  <2>2. CASE Do(w)
    BY <1>1, <2>2 DEF Do, Perform
  <2>3. CASE \/ Rearm(w) \/ Send(w) \/ Sent(w) \/ CloseSent(w) \/ More(w) \/ Release(w)
    BY <1>1, <2>3 DEF Rearm, Send, Sent, CloseSent, More, Release
  <2> QED
    BY <1>5, <2>1, <2>2, <2>3 DEF WorkerNext
<1> QED
  BY <1>2, <1>3, <1>4, <1>5 DEF Next, MainNext, PeerNext

(* A worker goes on with the client that its message is for.               *)
LEMMA AnswersStep == IInv /\ [Next]_vars => AnswersItsOwn'
<1> SUFFICES ASSUME IInv, [Next]_vars PROVE AnswersItsOwn'
  OBVIOUS
<1>0. TypeOK /\ AnswersItsOwn
  BY DEF IInv
<1> USE DEF kernelVars, mainVars, clientVars, workerVars
<1>1. CASE MainNext
  BY <1>0, <1>1 DEF MainNext, Take, Apply, Scan, DispatchError, DispatchAccept,
                    DispatchDisable, DispatchPush, DispatchDone, AnswersItsOwn
<1>2. ASSUME NEW w \in Workers, Find(w) PROVE AnswersItsOwn'
  BY <1>0, <1>2 DEF Find, SameClient, Goto, AnswersItsOwn, TypeOK
<1>3. ASSUME NEW w \in Workers, Pop(w) \/ Release(w) PROVE AnswersItsOwn'
  BY <1>0, <1>3 DEF Pop, Release, Goto, AnswersItsOwn, TypeOK
<1>4. ASSUME NEW w \in Workers,
             \/ Check(w) \/ Recv(w) \/ Line(w) \/ Do(w) \/ Rearm(w)
             \/ Send(w) \/ Sent(w) \/ CloseSent(w) \/ More(w)
      PROVE  AnswersItsOwn'
  <2>1. /\ UNCHANGED <<opCl, msg>> /\ wpc[w] \notin {"idle", "find", "release"}
        /\ \A v \in Workers \ {w} : wpc'[v] = wpc[v]
    <3>1. CASE Check(w) \/ Rearm(w) \/ Send(w)
      BY <1>0, <3>1 DEF Check, Rearm, Send, Goto, TypeOK
    <3>2. CASE Recv(w) \/ Line(w)
      BY <1>0, <3>2 DEF Recv, Line, Goto, TypeOK
    <3>3. CASE Do(w)
      BY <1>0, <3>3 DEF Do, Goto, TypeOK
    <3>4. CASE Sent(w) \/ CloseSent(w) \/ More(w)
      BY <1>0, <3>4 DEF Sent, CloseSent, More, Goto, TypeOK
    <3> QED
      BY <1>4, <3>1, <3>2, <3>3, <3>4
  <2> QED
    BY <1>0, <2>1 DEF AnswersItsOwn
<1>5. CASE PeerNext
  BY <1>0, <1>5 DEF PeerNext, Connect, PeerSend, PeerShut, PeerReset, AnswersItsOwn
<1>6. CASE UNCHANGED vars
  BY <1>0, <1>6 DEF vars, AnswersItsOwn
<1> QED
  BY <1>1, <1>2, <1>3, <1>4, <1>5, <1>6 DEF Next, WorkerNext

------------------------------------------------------------------------------

(* The invariant of all reachable states.                                  *)
THEOREM Invariance == Spec => []IInv
<1>1. IInv /\ [Next]_vars => IInv'
  BY TypeStep, MessagesStep, WorkersStep, SlotsStep, AnswersStep DEF IInv
<1> QED
  BY <1>1, InitIInv, PTL DEF Spec

(* ClosesItsOwn: what remove_client and close_client find again by its     *)
(* descriptor is the client that the worker means, or nobody.              *)
THEOREM NobodyElseIsClosed == Spec => []ClosesItsOwn
<1>1. ASSUME IInv, NEW c \in Accepted, Held(c) PROVE clList[fdOf[c]] \in {c, None}
  <2>1. fdOf[c] \in Fds /\ (clList[fdOf[c]] # None =>
          clList[fdOf[c]] \in Accepted /\ fdOf[clList[fdOf[c]]] = fdOf[c])
    BY <1>1 DEF IInv, SlotsOK
  <2>2. clList[fdOf[c]] # None => Held(clList[fdOf[c]])
    BY <2>1 DEF Held
  <2> QED
    BY <1>1, <2>1, <2>2 DEF IInv, SlotsOK
<1>2. IInv => ClosesItsOwn
  <2> SUFFICES ASSUME IInv, NEW w \in Workers
               PROVE  /\ wpc[w] = "close" => clList[fdOf[opCl[w]]] \in {opCl[w], None}
                      /\ \A i \in DOMAIN todo[w] : todo[w][i].op \in {"mark", "close"} =>
                           clList[fdOf[todo[w][i].cl]] \in {todo[w][i].cl, None}
    BY DEF ClosesItsOwn
  <2>1. wpc[w] = "close" => opCl[w] \in Accepted /\ Held(opCl[w])
    BY DEF IInv, WorkersOK, Held
  <2>2. \A i \in DOMAIN todo[w] : todo[w][i].cl \in Accepted /\ Held(todo[w][i].cl)
    BY DEF IInv, WorkersOK, Held
  <2> QED
    BY <1>1, <2>1, <2>2
<1> QED
  BY <1>2, Invariance, PTL

------------------------------------------------------------------------------

(***************************************************************************)
(* One knote: what a list of changes makes of it, that the list may be     *)
(* split anywhere, and that to apply it twice is to apply it once.         *)
(***************************************************************************)

(* What a list of changes does to one knote of a descriptor that stays     *)
(* open.                                                                   *)
Eff(k, ch, fd, f) ==
  IF ch.fd # fd \/ ch.filt # f THEN k
  ELSE IF ch.op = "addEnable" THEN [st |-> "on", udata |-> ch.udata]
  ELSE IF ch.op = "addDisable" THEN [st |-> "off", udata |-> ch.udata]
  ELSE IF k.st = "absent" THEN k
  ELSE CASE ch.op = "enable"  -> [st |-> "on", udata |-> ch.udata]
         [] ch.op = "disable" -> [st |-> "off", udata |-> ch.udata]
         [] ch.op = "delete"  -> Absent

Local(k, s, fd, f) ==
  LET g[n \in 0..Len(s)] == IF n = 0 THEN k ELSE Eff(g[n - 1], s[n], fd, f)
  IN g[Len(s)]

Knotes  == {Absent} \cup [st : {"on", "off"}, udata : Ids \cup {None}]
Changes == [fd : Fds, filt : Filters, udata : Ids \cup {None},
            op : {"addEnable", "addDisable", "enable", "disable", "delete"}]
Errors  == [fd : Fds, errno : {"EBADF", "ENOENT"}]

(* Induction over the positions of a sequence, with the set of the         *)
(* positions for which something holds.                                    *)
LEMMA Upwards ==
  ASSUME NEW m \in Nat, NEW T, 0 \in T, \A n \in 0..m : n < m /\ n \in T => n + 1 \in T
  PROVE  \A n \in 0..m : n \in T
<1> DEFINE U == {n \in 0..m : n \notin T}
<1>1. CASE U = {}
  BY <1>1
<1>2. CASE U # {}
  <2>1. PICK n \in U : \A o \in U : n <= o
    <3>1. U \subseteq Nat
      OBVIOUS
    <3> HIDE DEF U
    <3> QED
      BY <1>2, <3>1, Smallest
  <2>2. n # 0 /\ n - 1 \in 0..m /\ n - 1 \notin U
    BY <2>1
  <2>3. n - 1 \in T /\ n - 1 < m
    BY <2>2
  <2>4. (n - 1) + 1 \in T
    BY <2>2, <2>3
  <2> QED
    BY <2>1, <2>4
<1> QED
  BY <1>1, <1>2

(* The function that Local takes its value from exists.                    *)
Run(g, k, s, fd, f) ==
  g = [n \in 0..Len(s) |-> IF n = 0 THEN k ELSE Eff(g[n - 1], s[n], fd, f)]

(* There is such a function for every sequence of changes.                 *)
LEMMA RunExists ==
  ASSUME NEW k, NEW s, Len(s) \in Nat, NEW fd, NEW f
  PROVE  \E g : Run(g, k, s, fd, f)
<1> DEFINE P(m, g) == g = [n \in 0..m |-> IF n = 0 THEN k ELSE Eff(g[n - 1], s[n], fd, f)]
           T == {m \in 0..Len(s) : \E g : P(m, g)}
<1>1. 0 \in T
  <2> DEFINE h == [n \in 0..0 |-> k]
  <2>1. P(0, h)
    OBVIOUS
  <2>2. \E q : P(0, q)
    <3> HIDE DEF h, P
    <3> QED
      BY <2>1
  <2> QED
    BY <2>2
<1>2. ASSUME NEW m \in 0..Len(s), m < Len(s), m \in T PROVE m + 1 \in T
  <2>1. PICK g : P(m, g)
    BY <1>2
  <2> DEFINE h == [n \in 0..m + 1 |-> IF n = m + 1 THEN Eff(g[m], s[m + 1], fd, f) ELSE g[n]]
  <2>2. \A n \in 0..m : h[n] = g[n]
    OBVIOUS
  <2>3. \A n \in 0..m + 1 : h[n] = IF n = 0 THEN k ELSE Eff(h[n - 1], s[n], fd, f)
    <3> SUFFICES ASSUME NEW n \in 0..m + 1
                 PROVE  h[n] = IF n = 0 THEN k ELSE Eff(h[n - 1], s[n], fd, f)
      OBVIOUS
    <3>1. CASE n = m + 1
      <4>1. n # 0 /\ h[n - 1] = g[m] /\ h[n] = Eff(g[m], s[n], fd, f)
        BY <2>2, <3>1
      <4> QED
        BY <4>1
    <3>2. CASE n # m + 1
      <4>1. n \in 0..m
        BY <3>2
      <4>2. g[n] = IF n = 0 THEN k ELSE Eff(g[n - 1], s[n], fd, f)
        BY <2>1, <4>1
      <4>3. h[n] = g[n] /\ (n # 0 => h[n - 1] = g[n - 1])
        BY <2>2, <4>1
      <4> QED
        BY <4>2, <4>3
    <3> QED
      BY <3>1, <3>2
  <2>4. P(m + 1, h)
    <3>1. h = [n \in 0..m + 1 |-> h[n]]
      OBVIOUS
    <3> HIDE DEF h
    <3> QED
      BY <2>3, <3>1
  <2>5. m + 1 \in 0..Len(s) /\ \E q : P(m + 1, q)
    <3>1. m + 1 \in 0..Len(s)
      BY <1>2
    <3> HIDE DEF h, P
    <3> QED
      BY <2>4, <3>1
  <2> QED
    BY <2>5
<1>3. Len(s) \in T
  <2> HIDE DEF T
  <2>1. \A n \in 0..Len(s) : n \in T
    BY <1>1, <1>2, Upwards
  <2> QED
    BY <2>1
<1> QED
  BY <1>3 DEF Run

(* Two sequences have the same first m changes.                            *)
SameTo(m, s, t) ==
  /\ m \in Nat /\ Len(s) \in Nat /\ Len(t) \in Nat /\ m <= Len(s) /\ m <= Len(t)
  /\ \A n \in 1..m : s[n] = t[n]

(* Two runs over the same changes from the same knote are the same.        *)
LEMMA RunsAgree ==
  ASSUME NEW k, NEW s, NEW t, NEW fd, NEW f, NEW g, NEW h, NEW m,
         SameTo(m, s, t), Run(g, k, s, fd, f), Run(h, k, t, fd, f)
  PROVE  g[m] = h[m]
<1> USE DEF SameTo
<1> DEFINE T == {n \in 0..m : g[n] = h[n]}
<1>0. /\ \A n \in 0..Len(s) : g[n] = IF n = 0 THEN k ELSE Eff(g[n - 1], s[n], fd, f)
      /\ \A n \in 0..Len(t) : h[n] = IF n = 0 THEN k ELSE Eff(h[n - 1], t[n], fd, f)
  BY DEF Run
<1>1. 0 \in T
  BY <1>0
<1>2. ASSUME NEW n \in 0..m, n < m, n \in T PROVE n + 1 \in T
  <2>1. n + 1 \in 1..m /\ n + 1 \in 0..Len(s) /\ n + 1 \in 0..Len(t) /\ (n + 1) - 1 = n
    BY <1>2
  <2>2. g[n + 1] = Eff(g[n], s[n + 1], fd, f) /\ h[n + 1] = Eff(h[n], t[n + 1], fd, f)
    BY <1>0, <2>1
  <2> QED
    BY <1>2, <2>1, <2>2
<1>3. m \in T
  <2> HIDE DEF T
  <2>1. \A n \in 0..m : n \in T
    BY <1>1, <1>2, Upwards
  <2> QED
    BY <2>1
<1> QED
  BY <1>3

(* Hence Local is the last value of any run.                               *)
LEMMA LocalRun ==
  ASSUME NEW k, NEW s, Len(s) \in Nat, NEW fd, NEW f, NEW g, Run(g, k, s, fd, f)
  PROVE  Local(k, s, fd, f) = g[Len(s)]
<1> DEFINE h == CHOOSE h : Run(h, k, s, fd, f)
<1>1. Run(h, k, s, fd, f)
  BY RunExists
<1>2. Local(k, s, fd, f) = h[Len(s)]
  BY DEF Local, Run
<1> HIDE DEF h
<1>3. SameTo(Len(s), s, s)
  BY DEF SameTo
<1> QED
  BY <1>1, <1>2, <1>3, RunsAgree

(* No change leaves the knote as it was.                                   *)
LEMMA LocalEmpty ==
  ASSUME NEW k, NEW fd, NEW f
  PROVE  Local(k, <<>>, fd, f) = k
<1>1. Len(<<>>) = 0
  OBVIOUS
<1>2. PICK g : Run(g, k, <<>>, fd, f)
  BY <1>1, RunExists
<1>3. g[0] = k
  BY <1>1, <1>2 DEF Run
<1> QED
  BY <1>1, <1>2, <1>3, LocalRun

(* One change more.                                                        *)
LEMMA LocalOne ==
  ASSUME NEW k, NEW s, NEW t, Len(s) \in Nat, Len(t) = Len(s) + 1,
         \A n \in 1..Len(s) : t[n] = s[n], NEW fd, NEW f
  PROVE  Local(k, t, fd, f) = Eff(Local(k, s, fd, f), t[Len(t)], fd, f)
<1>1. PICK g : Run(g, k, s, fd, f)
  BY RunExists
<1>2. PICK h : Run(h, k, t, fd, f)
  <2>1. Len(t) \in Nat
    OBVIOUS
  <2> QED
    BY <2>1, RunExists
<1>3. g[Len(s)] = h[Len(s)]
  <2>1. SameTo(Len(s), s, t)
    BY DEF SameTo
  <2> QED
    BY <1>1, <1>2, <2>1, RunsAgree
<1>4. h[Len(t)] = Eff(h[Len(s)], t[Len(t)], fd, f)
  BY <1>2 DEF Run
<1> QED
  BY <1>1, <1>2, <1>3, <1>4, LocalRun

------------------------------------------------------------------------------

(* Two lists of changes, one after the other.                              *)
Joined(u, s, t) ==
  /\ Len(s) \in Nat /\ Len(t) \in Nat /\ Len(u) = Len(s) + Len(t)
  /\ \A n \in 1..Len(s) : u[n] = s[n]
  /\ \A n \in 1..Len(t) : u[Len(s) + n] = t[n]

(* Changes one after the other: the second part starts from what the       *)
(* first one left.                                                         *)
LEMMA LocalConcat ==
  ASSUME NEW k, NEW s, NEW t, NEW u, NEW fd, NEW f, Joined(u, s, t)
  PROVE  Local(k, u, fd, f) = Local(Local(k, s, fd, f), t, fd, f)
<1> DEFINE l == Local(k, s, fd, f)
<1>0. Len(u) \in Nat /\ Len(s) \in Nat /\ Len(t) \in Nat /\ Len(s) <= Len(u)
  BY DEF Joined
<1>1. PICK g : Run(g, k, u, fd, f)
  BY <1>0, RunExists
<1>2. PICK h : Run(h, l, t, fd, f)
  <2> HIDE DEF l
  <2> QED
    BY <1>0, RunExists
<1>3. Local(k, u, fd, f) = g[Len(u)]
  BY <1>0, <1>1, LocalRun
<1>4. Local(l, t, fd, f) = h[Len(t)]
  <2> HIDE DEF l
  <2> QED
    BY <1>0, <1>2, LocalRun
<1>5. g[Len(s)] = l
  <2>1. PICK q : Run(q, k, s, fd, f)
    BY <1>0, RunExists
  <2>2. SameTo(Len(s), u, s)
    BY <1>0 DEF Joined, SameTo
  <2>3. g[Len(s)] = q[Len(s)]
    BY <1>1, <2>1, <2>2, RunsAgree
  <2> QED
    BY <1>0, <2>1, <2>3, LocalRun
<1> HIDE DEF l
<1> DEFINE T == {n \in 0..Len(t) : g[Len(s) + n] = h[n]}
<1>6. /\ \A n \in 0..Len(u) : g[n] = IF n = 0 THEN k ELSE Eff(g[n - 1], u[n], fd, f)
      /\ \A n \in 0..Len(t) : h[n] = IF n = 0 THEN l ELSE Eff(h[n - 1], t[n], fd, f)
  BY <1>1, <1>2 DEF Run
<1>7. 0 \in T
  BY <1>0, <1>5, <1>6
<1>8. ASSUME NEW n \in 0..Len(t), n < Len(t), n \in T PROVE n + 1 \in T
  <2>0. Len(u) = Len(s) + Len(t)
    BY DEF Joined
  <2>1. /\ n + 1 \in 1..Len(t) /\ n + 1 \in 0..Len(t) /\ (n + 1) - 1 = n
        /\ Len(s) + (n + 1) \in 1..Len(u) /\ (Len(s) + (n + 1)) - 1 = Len(s) + n
    BY <1>0, <1>8, <2>0
  <2>2. /\ g[Len(s) + (n + 1)] = Eff(g[Len(s) + n], u[Len(s) + (n + 1)], fd, f)
        /\ h[n + 1] = Eff(h[n], t[n + 1], fd, f)
    BY <1>6, <2>1
  <2>3. u[Len(s) + (n + 1)] = t[n + 1]
    BY <2>1 DEF Joined
  <2> QED
    BY <1>8, <2>1, <2>2, <2>3
<1>9. Len(t) \in T
  <2> HIDE DEF T
  <2>1. \A n \in 0..Len(t) : n \in T
    BY <1>0, <1>7, <1>8, Upwards
  <2> QED
    BY <1>0, <2>1
<1>10. Len(u) = Len(s) + Len(t)
  BY DEF Joined
<1> QED
  BY <1>3, <1>4, <1>9, <1>10 DEF l

(* A change leaves a knote alone, or leads all to one, or enables or       *)
(* disables those that are there.                                          *)
LEMMA EffKinds ==
  ASSUME NEW ch \in Changes, NEW fd, NEW f
  PROVE  /\ \A k \in Knotes : Eff(k, ch, fd, f) \in Knotes
         /\ \/ \A k \in Knotes : Eff(k, ch, fd, f) = k
            \/ \E v \in Knotes : \A k \in Knotes : Eff(k, ch, fd, f) = v
            \/ /\ Eff(Absent, ch, fd, f) = Absent
               /\ \E v \in Knotes \ {Absent} :
                    \A k \in Knotes \ {Absent} : Eff(k, ch, fd, f) = v
<1> DEFINE on == [st |-> "on", udata |-> ch.udata]
           off == [st |-> "off", udata |-> ch.udata]
<1>1. on \in Knotes \ {Absent} /\ off \in Knotes \ {Absent} /\ Absent \in Knotes
  BY DEF Changes, Knotes, Absent
<1>2. Absent.st = "absent" /\ \A k \in Knotes \ {Absent} : k.st # "absent"
  BY DEF Knotes, Absent
<1> HIDE DEF on, off
<1>3. \A k \in Knotes : Eff(k, ch, fd, f) =
        IF ch.fd # fd \/ ch.filt # f THEN k
        ELSE IF ch.op = "addEnable" THEN on ELSE IF ch.op = "addDisable" THEN off
        ELSE IF k = Absent THEN k
        ELSE IF ch.op = "enable" THEN on ELSE IF ch.op = "disable" THEN off ELSE Absent
  <2> SUFFICES ASSUME NEW k \in Knotes
               PROVE  Eff(k, ch, fd, f) =
                 IF ch.fd # fd \/ ch.filt # f THEN k
                 ELSE IF ch.op = "addEnable" THEN on ELSE IF ch.op = "addDisable" THEN off
                 ELSE IF k = Absent THEN k
                 ELSE IF ch.op = "enable" THEN on ELSE IF ch.op = "disable" THEN off ELSE Absent
    OBVIOUS
  <2>1. ch.op \in {"addEnable", "addDisable", "enable", "disable", "delete"}
    BY DEF Changes
  <2>2. k.st = "absent" <=> k = Absent
    BY <1>2
  <2> QED
    <3>1. CASE ch.fd # fd \/ ch.filt # f
      BY <3>1 DEF Eff
    <3>2. CASE ch.fd = fd /\ ch.filt = f /\ ch.op \in {"addEnable", "addDisable"}
      BY <3>2 DEF Eff, on, off
    <3>3. CASE ch.fd = fd /\ ch.filt = f /\ ch.op = "enable"
      BY <2>2, <3>3 DEF Eff, on
    <3>4. CASE ch.fd = fd /\ ch.filt = f /\ ch.op = "disable"
      BY <2>2, <3>4 DEF Eff, off
    <3>5. CASE ch.fd = fd /\ ch.filt = f /\ ch.op = "delete"
      BY <2>2, <3>5 DEF Eff
    <3> QED
      BY <2>1, <3>1, <3>2, <3>3, <3>4, <3>5
<1> QED
  BY <1>1, <1>3

(* A list of changes that is applied once more changes nothing.            *)
LEMMA Reapplied ==
  ASSUME NEW s, Len(s) \in Nat, \A i \in 1..Len(s) : s[i] \in Changes, NEW fd, NEW f,
         NEW k \in Knotes
  PROVE  /\ Local(k, s, fd, f) \in Knotes
         /\ Local(Local(k, s, fd, f), s, fd, f) = Local(k, s, fd, f)
<1> DEFINE G == [q \in Knotes |-> CHOOSE g : Run(g, q, s, fd, f)]
           Same(n) == \A q \in Knotes : G[q][n] = q
           One(n) == \E v \in Knotes : \A q \in Knotes : G[q][n] = v
           Some(n) == /\ G[Absent][n] = Absent
                      /\ \E v \in Knotes \ {Absent} :
                           \A q \in Knotes \ {Absent} : G[q][n] = v
           T == {n \in 0..Len(s) : /\ \A q \in Knotes : G[q][n] \in Knotes
                                   /\ Same(n) \/ One(n) \/ Some(n)}
<1>1. \A q \in Knotes : Run(G[q], q, s, fd, f)
  BY RunExists
<1>2. \A q \in Knotes : \A n \in 0..Len(s) :
        G[q][n] = IF n = 0 THEN q ELSE Eff(G[q][n - 1], s[n], fd, f)
  <2> SUFFICES ASSUME NEW q \in Knotes, NEW n \in 0..Len(s)
               PROVE  G[q][n] = IF n = 0 THEN q ELSE Eff(G[q][n - 1], s[n], fd, f)
    OBVIOUS
  <2> HIDE DEF G
  <2> DEFINE g == G[q]
  <2>1. Run(g, q, s, fd, f)
    BY <1>1
  <2> HIDE DEF g
  <2>2. g[n] = IF n = 0 THEN q ELSE Eff(g[n - 1], s[n], fd, f)
    BY <2>1 DEF Run
  <2> QED
    BY <2>2 DEF g
<1>3. Absent \in Knotes
  BY DEF Knotes
<1> HIDE DEF G
<1>4. 0 \in T
  BY <1>2
<1>5. ASSUME NEW n \in 0..Len(s), n < Len(s), n \in T PROVE n + 1 \in T
  <2> DEFINE e(q) == Eff(q, s[n + 1], fd, f)
  <2>1. n + 1 \in 1..Len(s) /\ n + 1 \in 0..Len(s) /\ n + 1 # 0 /\ (n + 1) - 1 = n
    BY <1>5
  <2>2. \A q \in Knotes : G[q][n + 1] = e(G[q][n])
    BY <1>2, <2>1
  <2>3. s[n + 1] \in Changes
    BY <2>1
  <2>0. ASSUME NEW ch \in Changes
        PROVE  /\ \A q \in Knotes : Eff(q, ch, fd, f) \in Knotes
               /\ \/ \A q \in Knotes : Eff(q, ch, fd, f) = q
                  \/ \E v \in Knotes : \A q \in Knotes : Eff(q, ch, fd, f) = v
                  \/ Eff(Absent, ch, fd, f) = Absent /\ \E v \in Knotes \ {Absent} :
                       \A q \in Knotes \ {Absent} : Eff(q, ch, fd, f) = v
    BY EffKinds, SMTT(30)
  <2>4. /\ \A q \in Knotes : e(q) \in Knotes
        /\ \/ \A q \in Knotes : e(q) = q
           \/ \E v \in Knotes : \A q \in Knotes : e(q) = v
           \/ e(Absent) = Absent /\ \E v \in Knotes \ {Absent} :
                                      \A q \in Knotes \ {Absent} : e(q) = v
    BY <2>0, <2>3
  <2>5. \A q \in Knotes : G[q][n] \in Knotes /\ G[q][n + 1] \in Knotes
    BY <1>5, <2>2, <2>4
  <2> HIDE DEF e
  <2>6. Same(n) \/ One(n) \/ Some(n)
    BY <1>5
  <2>7. CASE \A q \in Knotes : e(q) = q
    <3>1. \A q \in Knotes : G[q][n + 1] = G[q][n]
      BY <2>2, <2>5, <2>7
    <3>2. Same(n + 1) \/ One(n + 1) \/ Some(n + 1)
      BY <1>3, <2>6, <3>1
    <3> QED
      BY <2>1, <2>5, <3>2
  <2>8. CASE \E v \in Knotes : \A q \in Knotes : e(q) = v
    <3>1. One(n + 1)
      BY <2>2, <2>5, <2>8
    <3> QED
      BY <2>1, <2>5, <3>1
  <2>9. CASE e(Absent) = Absent /\ \E v \in Knotes \ {Absent} :
                                     \A q \in Knotes \ {Absent} : e(q) = v
    <3>1. CASE Same(n)
      <4>1. Some(n + 1)
        BY <1>3, <2>2, <2>9, <3>1
      <4> QED
        BY <2>1, <2>5, <4>1
    <3>2. CASE One(n)
      <4>0. PICK v \in Knotes : \A q \in Knotes : G[q][n] = v
        BY <3>2
      <4>2. e(v) \in Knotes /\ \A q \in Knotes : G[q][n + 1] = e(v)
        BY <1>3, <2>2, <2>5, <4>0
      <4>1. One(n + 1)
        BY <4>2
      <4> QED
        BY <2>1, <2>5, <4>1
    <3>3. CASE Some(n)
      <4>1. Some(n + 1)
        BY <1>3, <2>2, <2>9, <3>3
      <4> QED
        BY <2>1, <2>5, <4>1
    <3> QED
      BY <2>6, <3>1, <3>2, <3>3
  <2> QED
    BY <2>4, <2>7, <2>8, <2>9
<1>6. Len(s) \in T
  <2> HIDE DEF T
  <2>1. \A n \in 0..Len(s) : n \in T
    BY <1>4, <1>5, Upwards
  <2> QED
    BY <2>1
<1>7. \A q \in Knotes : Local(q, s, fd, f) = G[q][Len(s)]
  BY <1>1, LocalRun
<1>8. Local(k, s, fd, f) \in Knotes
  BY <1>6, <1>7
<1>9. G[G[k][Len(s)]][Len(s)] = G[k][Len(s)]
  BY <1>3, <1>6
<1> QED
  BY <1>7, <1>8, <1>9

------------------------------------------------------------------------------

(* The tables of knotes, and what kevent answers to a list of changes.     *)
KnoteTables == [Ids -> [Filters -> Knotes]]
Answers == [knote : KnoteTables, errs : Seq(Errors)]

(* kevent's work on one change is Eff on each knote of the clients that    *)
(* are referred to, and an EBADF is only reported for a descriptor         *)
(* nobody has open.                                                        *)
LEMMA AppliedOne ==
  ASSUME IInv, NEW acc \in Answers, NEW ch \in Changes
  PROVE  /\ ApplyChange(acc, ch) \in Answers
         /\ \A c \in Accepted : Held(c) => \A f \in Filters :
              ApplyChange(acc, ch).knote[c][f] = Eff(acc.knote[c][f], ch, fdOf[c], f)
         /\ \/ ApplyChange(acc, ch).errs = acc.errs
            \/ \E e \in Errors : /\ ApplyChange(acc, ch).errs = Append(acc.errs, e)
                                 /\ e.errno = "EBADF" => Open(e.fd) = {}
<1> DEFINE owner == CHOOSE c \in Open(ch.fd) : TRUE
           old == acc.knote[owner][ch.filt].st
           set(st) == [acc EXCEPT !.knote[owner][ch.filt] = [st |-> st, udata |-> ch.udata]]
           fail(e) == [acc EXCEPT !.errs = Append(@, [fd |-> ch.fd, errno |-> e])]
           del == [acc EXCEPT !.knote[owner][ch.filt] = Absent]
           r == ApplyChange(acc, ch)
<1>1. /\ ch.fd \in Fds /\ ch.filt \in Filters /\ ch.udata \in Ids \cup {None}
      /\ ch.op \in {"addEnable", "addDisable", "enable", "disable", "delete"}
      /\ acc.knote \in [Ids -> [Filters -> Knotes]] /\ acc.errs \in Seq(Errors)
      /\ acc = [knote |-> acc.knote, errs |-> acc.errs]
  BY DEF Answers, Changes, KnoteTables
<1>2. Accepted \subseteq Ids
  BY ConstantsAssumption DEF IInv, TypeOK, Accepted, Ids
<1>3. r = IF Open(ch.fd) = {} THEN fail("EBADF")
          ELSE IF ch.op = "addEnable" THEN set("on")
          ELSE IF ch.op = "addDisable" THEN set("off")
          ELSE IF old = "absent" THEN fail("ENOENT")
          ELSE IF ch.op = "enable" THEN set("on")
          ELSE IF ch.op = "disable" THEN set("off") ELSE del
  <2> HIDE DEF set, fail, del
  <2>1. CASE ch.op = "addEnable" \/ ch.op = "addDisable" \/ old = "absent" \/ Open(ch.fd) = {}
    BY <1>1, <2>1 DEF ApplyChange, set, fail, del
  <2>2. CASE ch.op = "enable" /\ old # "absent"
    BY <2>2 DEF ApplyChange, set, fail, del
  <2>3. CASE ch.op = "disable" /\ old # "absent"
    BY <2>3 DEF ApplyChange, set, fail, del
  <2>4. CASE ch.op = "delete" /\ old # "absent"
    BY <2>4 DEF ApplyChange, set, fail, del
  <2> QED
    BY <1>1, <2>1, <2>2, <2>3, <2>4
<1>4. ASSUME NEW e \in {"EBADF", "ENOENT"}
      PROVE  /\ fail(e) \in Answers /\ fail(e).knote = acc.knote
             /\ [fd |-> ch.fd, errno |-> e] \in Errors
             /\ fail(e).errs = Append(acc.errs, [fd |-> ch.fd, errno |-> e])
  <2> DEFINE q == [fd |-> ch.fd, errno |-> e]
             l == Append(acc.errs, q)
  <2>1. q \in Errors
    BY <1>1 DEF Errors
  <2>2. l \in Seq(Errors)
    <3> HIDE DEF q
    <3> QED
      BY <1>1, <2>1
  <2>3. fail(e) = [knote |-> acc.knote, errs |-> l]
    <3>1. fail(e) = [acc EXCEPT !.errs = l]
      OBVIOUS
    <3> HIDE DEF l, fail
    <3>2. PICK k, x : acc = [knote |-> k, errs |-> x] /\ k = acc.knote
      BY <1>1
    <3>3. [[knote |-> k, errs |-> x] EXCEPT !.errs = l] = [knote |-> k, errs |-> l]
      OBVIOUS
    <3> QED
      BY <3>1, <3>2, <3>3
  <2> HIDE DEF l, fail
  <2>4. fail(e) \in Answers /\ fail(e).knote = acc.knote /\ fail(e).errs = l
    <3>1. acc.knote \in KnoteTables
      BY <1>1 DEF KnoteTables
    <3>2. [knote |-> acc.knote, errs |-> l] \in Answers
      BY <2>2, <3>1 DEF Answers
    <3>3. /\ [knote |-> acc.knote, errs |-> l].knote = acc.knote
          /\ [knote |-> acc.knote, errs |-> l].errs = l
      OBVIOUS
    <3> QED
      BY <2>3, <3>2, <3>3, Zenon
  <2> QED
    BY <2>1, <2>4 DEF l
<1>5. ASSUME NEW k \in Knotes, owner \in Accepted,
             NEW q, q = [acc EXCEPT !.knote[owner][ch.filt] = k]
      PROVE  /\ q \in Answers /\ q.errs = acc.errs
             /\ \A c \in Ids : \A f \in Filters :
                  q.knote[c][f] = IF c = owner /\ f = ch.filt THEN k ELSE acc.knote[c][f]
  <2> HIDE DEF owner
  <2>1. /\ q.errs = acc.errs /\ q = [knote |-> q.knote, errs |-> q.errs]
        /\ q.knote = [acc.knote EXCEPT ![owner][ch.filt] = k]
    BY <1>1, <1>5
  <2>2. owner \in Ids
    BY <1>2, <1>5
  <2>3. q.knote \in KnoteTables /\ \A c \in Ids : \A f \in Filters :
          q.knote[c][f] = IF c = owner /\ f = ch.filt THEN k ELSE acc.knote[c][f]
    BY <1>1, <1>5, <2>1, <2>2 DEF KnoteTables
  <2> QED
    BY <1>1, <2>1, <2>3 DEF Answers
<1>6. /\ Absent \in Knotes
      /\ \A st \in {"on", "off"} : [st |-> st, udata |-> ch.udata] \in Knotes
  BY <1>1 DEF Knotes
<1>7. ASSUME NEW c \in Accepted, Held(c), ch.fd = fdOf[c] PROVE owner = c
  <2>1. c \in Open(ch.fd)
    BY <1>7 DEF Open
  <2>2. owner \in Open(ch.fd)
    BY <2>1
  <2>3. owner \in Accepted /\ fdOf[owner] = ch.fd /\ Held(owner)
    BY <2>2 DEF Open
  <2> QED
    BY <1>7, <2>3 DEF IInv, SlotsOK
<1>8. Open(ch.fd) # {} => owner \in Accepted /\ fdOf[owner] = ch.fd
  BY DEF Open
<1>9. \A c \in Accepted : Held(c) /\ ch.fd = fdOf[c] => c \in Open(ch.fd)
  BY DEF Open
<1> HIDE DEF owner, r
<1>10. CASE Open(ch.fd) = {}
  <2>1. r = fail("EBADF")
    BY <1>3, <1>10
  <2>2. \A c \in Accepted : Held(c) => ch.fd # fdOf[c]
    BY <1>9, <1>10
  <2> HIDE DEF fail
  <2> QED
    BY <1>4, <1>10, <2>1, <2>2 DEF Eff, r
<1>11. CASE Open(ch.fd) # {} /\ old = "absent" /\ ch.op \in {"enable", "disable", "delete"}
  <2>1. r = fail("ENOENT")
    BY <1>3, <1>11
  <2>2. \A c \in Accepted : Held(c) => \A f \in Filters :
          ch.fd = fdOf[c] /\ ch.filt = f => acc.knote[c][f].st = "absent"
    BY <1>7, <1>11
  <2> HIDE DEF fail
  <2> QED
    BY <1>4, <1>11, <2>1, <2>2 DEF Eff, r
<1>12. CASE Open(ch.fd) # {} /\ (ch.op = "addEnable" \/ (ch.op = "enable" /\ old # "absent"))
  <2>1. r = set("on")
    BY <1>3, <1>12
  <2> DEFINE k == [st |-> "on", udata |-> ch.udata]
  <2>2. /\ r \in Answers /\ r.errs = acc.errs
        /\ \A c \in Ids : \A f \in Filters :
             r.knote[c][f] = IF c = owner /\ f = ch.filt THEN k ELSE acc.knote[c][f]
    BY <1>5, <1>6, <1>8, <1>12, <2>1
  <2>3. ASSUME NEW c \in Accepted, Held(c), NEW f \in Filters
        PROVE  r.knote[c][f] = Eff(acc.knote[c][f], ch, fdOf[c], f)
    BY <1>2, <1>7, <1>8, <1>12, <2>2, <2>3 DEF Eff
  <2> QED
    BY <2>2, <2>3 DEF r
<1>13. CASE Open(ch.fd) # {} /\ (ch.op = "addDisable" \/ (ch.op = "disable" /\ old # "absent"))
  <2>1. r = set("off")
    BY <1>3, <1>13
  <2> DEFINE k == [st |-> "off", udata |-> ch.udata]
  <2>2. /\ r \in Answers /\ r.errs = acc.errs
        /\ \A c \in Ids : \A f \in Filters :
             r.knote[c][f] = IF c = owner /\ f = ch.filt THEN k ELSE acc.knote[c][f]
    BY <1>5, <1>6, <1>8, <1>13, <2>1
  <2>3. ASSUME NEW c \in Accepted, Held(c), NEW f \in Filters
        PROVE  r.knote[c][f] = Eff(acc.knote[c][f], ch, fdOf[c], f)
    BY <1>2, <1>7, <1>8, <1>13, <2>2, <2>3 DEF Eff
  <2> QED
    BY <2>2, <2>3 DEF r
<1>14. CASE Open(ch.fd) # {} /\ ch.op = "delete" /\ old # "absent"
  <2>1. r = del
    BY <1>3, <1>14
  <2>2. /\ r \in Answers /\ r.errs = acc.errs
        /\ \A c \in Ids : \A f \in Filters :
             r.knote[c][f] = IF c = owner /\ f = ch.filt THEN Absent ELSE acc.knote[c][f]
    BY <1>5, <1>6, <1>8, <1>14, <2>1
  <2>3. ASSUME NEW c \in Accepted, Held(c), NEW f \in Filters
        PROVE  r.knote[c][f] = Eff(acc.knote[c][f], ch, fdOf[c], f)
    BY <1>2, <1>7, <1>8, <1>14, <2>2, <2>3 DEF Eff
  <2> QED
    BY <2>2, <2>3 DEF r
<1> QED
  BY <1>1, <1>10, <1>11, <1>12, <1>13, <1>14

(* kevent, the whole list: to a knote of a descriptor that stays open it   *)
(* does what Local says, and EBADF is said of closed descriptors only.     *)
Whole(a, kn, s) ==
  a = [n \in 0..Len(s) |-> IF n = 0 THEN [knote |-> kn, errs |-> <<>>]
                                    ELSE ApplyChange(a[n - 1], s[n])]

(* There is such a function for every table of knotes and sequence of      *)
(* changes.                                                                *)
LEMMA WholeExists ==
  ASSUME NEW kn, NEW s, Len(s) \in Nat
  PROVE  \E a : Whole(a, kn, s)
<1> DEFINE P(m, a) == a = [n \in 0..m |-> IF n = 0 THEN [knote |-> kn, errs |-> <<>>]
                                          ELSE ApplyChange(a[n - 1], s[n])]
           T == {m \in 0..Len(s) : \E a : P(m, a)}
<1>1. 0 \in T
  <2> DEFINE h == [n \in 0..0 |-> [knote |-> kn, errs |-> <<>>]]
  <2>1. P(0, h)
    OBVIOUS
  <2>2. \E q : P(0, q)
    <3> HIDE DEF h, P
    <3> QED
      BY <2>1
  <2> QED
    BY <2>2
<1>2. ASSUME NEW m \in 0..Len(s), m < Len(s), m \in T PROVE m + 1 \in T
  <2>1. PICK a : P(m, a)
    BY <1>2
  <2> DEFINE h == [n \in 0..m + 1 |-> IF n = m + 1 THEN ApplyChange(a[m], s[m + 1]) ELSE a[n]]
             v(n) == IF n = 0 THEN [knote |-> kn, errs |-> <<>>]
                              ELSE ApplyChange(h[n - 1], s[n])
  <2>2. \A n \in 0..m : h[n] = a[n]
    OBVIOUS
  <2>3. \A n \in 0..m + 1 : h[n] = v(n)
    <3> SUFFICES ASSUME NEW n \in 0..m + 1 PROVE h[n] = v(n)
      OBVIOUS
    <3>1. CASE n = m + 1
      <4>1. n # 0 /\ h[n - 1] = a[m] /\ h[n] = ApplyChange(a[m], s[n])
        BY <2>2, <3>1
      <4> QED
        BY <4>1
    <3>2. CASE n # m + 1
      <4>1. n \in 0..m
        BY <3>2
      <4>2. a[n] = IF n = 0 THEN [knote |-> kn, errs |-> <<>>]
                           ELSE ApplyChange(a[n - 1], s[n])
        BY <2>1, <4>1
      <4>3. h[n] = a[n] /\ (n # 0 => h[n - 1] = a[n - 1])
        BY <2>2, <4>1
      <4> QED
        BY <4>2, <4>3
    <3> QED
      BY <3>1, <3>2
  <2>4. P(m + 1, h)
    <3>1. h = [n \in 0..m + 1 |-> h[n]]
      OBVIOUS
    <3> HIDE DEF h
    <3> QED
      BY <2>3, <3>1
  <2>5. m + 1 \in 0..Len(s) /\ \E q : P(m + 1, q)
    <3>1. m + 1 \in 0..Len(s)
      BY <1>2
    <3> HIDE DEF h, P
    <3> QED
      BY <2>4, <3>1
  <2> QED
    BY <2>5
<1>3. Len(s) \in T
  <2> HIDE DEF T
  <2>1. \A n \in 0..Len(s) : n \in T
    BY <1>1, <1>2, Upwards
  <2> QED
    BY <2>1
<1> QED
  BY <1>3 DEF Whole

ClosedErrors(s) == \A i \in DOMAIN s : s[i].errno = "EBADF" => Open(s[i].fd) = {}

(* What kevent makes of a list of changes, seen from one client: Local     *)
(* over the whole list. This is where the kernel's table and the           *)
(* calculus of one knote meet.                                             *)
LEMMA AppliedFacts ==
  ASSUME IInv, NEW kn \in KnoteTables, NEW s, Len(s) \in Nat,
         \A i \in 1..Len(s) : s[i] \in Changes
  PROVE  /\ Applied(kn, s) \in Answers /\ ClosedErrors(Applied(kn, s).errs)
         /\ \A c \in Accepted : Held(c) => \A f \in Filters :
              Applied(kn, s).knote[c][f] = Local(kn[c][f], s, fdOf[c], f)
<1> DEFINE a == CHOOSE a : Whole(a, kn, s)
           G == [c \in Ids |-> [f \in Filters |->
                   CHOOSE g : Run(g, kn[c][f], s, fdOf[c], f)]]
           T == {n \in 0..Len(s) :
                   /\ a[n] \in Answers /\ ClosedErrors(a[n].errs)
                   /\ \A c \in Accepted : Held(c) => \A f \in Filters :
                        a[n].knote[c][f] = G[c][f][n]}
<1>0. Accepted \subseteq Ids
  BY ConstantsAssumption DEF IInv, TypeOK, Accepted, Ids
<1>1. Whole(a, kn, s)
  BY WholeExists
<1>2. Applied(kn, s) = a[Len(s)]
  BY DEF Applied, Whole
<1>3. \A c \in Ids : \A f \in Filters : Run(G[c][f], kn[c][f], s, fdOf[c], f)
  BY RunExists
<1> HIDE DEF a, G
<1>4. \A n \in 0..Len(s) : a[n] = IF n = 0 THEN [knote |-> kn, errs |-> <<>>]
                                           ELSE ApplyChange(a[n - 1], s[n])
  BY <1>1 DEF Whole
<1>5. \A c \in Ids : \A f \in Filters : \A n \in 0..Len(s) :
        G[c][f][n] = IF n = 0 THEN kn[c][f] ELSE Eff(G[c][f][n - 1], s[n], fdOf[c], f)
  <2> SUFFICES ASSUME NEW c \in Ids, NEW f \in Filters, NEW n \in 0..Len(s)
               PROVE  G[c][f][n] = IF n = 0 THEN kn[c][f]
                                   ELSE Eff(G[c][f][n - 1], s[n], fdOf[c], f)
    OBVIOUS
  <2> DEFINE g == G[c][f]
  <2>1. Run(g, kn[c][f], s, fdOf[c], f)
    BY <1>3
  <2> HIDE DEF g
  <2>2. g[n] = IF n = 0 THEN kn[c][f] ELSE Eff(g[n - 1], s[n], fdOf[c], f)
    BY <2>1 DEF Run
  <2> QED
    BY <2>2 DEF g
<1>6. 0 \in T
  <2>1. a[0] = [knote |-> kn, errs |-> <<>>]
    BY <1>4
  <2>2. <<>> \in Seq(Errors)
    BY EmptySeq
  <2>3. a[0] \in Answers /\ ClosedErrors(a[0].errs)
    BY <2>1, <2>2 DEF Answers, ClosedErrors
  <2> QED
    BY <1>0, <1>5, <2>1, <2>3
<1>7. ASSUME NEW n \in 0..Len(s), n < Len(s), n \in T PROVE n + 1 \in T
  <2>1. /\ n + 1 \in 1..Len(s) /\ n + 1 \in 0..Len(s) /\ n + 1 # 0 /\ (n + 1) - 1 = n
        /\ s[n + 1] \in Changes
    BY <1>7
  <2>2. a[n + 1] = ApplyChange(a[n], s[n + 1])
    BY <1>4, <2>1
  <2>3. a[n] \in Answers /\ ClosedErrors(a[n].errs)
    BY <1>7
  <2>4. /\ a[n + 1] \in Answers
        /\ \A c \in Accepted : Held(c) => \A f \in Filters :
             a[n + 1].knote[c][f] = Eff(a[n].knote[c][f], s[n + 1], fdOf[c], f)
        /\ \/ a[n + 1].errs = a[n].errs
           \/ \E e \in Errors : /\ a[n + 1].errs = Append(a[n].errs, e)
                                /\ e.errno = "EBADF" => Open(e.fd) = {}
    <3> DEFINE acc == a[n]
               ch == s[n + 1]
               r == a[n + 1]
    <3>1. acc \in Answers /\ ch \in Changes
      BY <2>1, <2>3
    <3>2. r = ApplyChange(acc, ch)
      BY <2>2
    <3> HIDE DEF acc, ch, r
    <3> DEFINE q == ApplyChange(acc, ch)
    <3>3. /\ q \in Answers
          /\ \A c \in Accepted : Held(c) => \A f \in Filters :
               q.knote[c][f] = Eff(acc.knote[c][f], ch, fdOf[c], f)
          /\ \/ q.errs = acc.errs
             \/ \E e \in Errors : /\ q.errs = Append(acc.errs, e)
                                  /\ e.errno = "EBADF" => Open(e.fd) = {}
      BY <3>1, AppliedOne
    <3>4. r = q
      BY <3>2
    <3> HIDE DEF q
    <3> QED
      BY <3>3, <3>4 DEF acc, ch, r
  <2>5. \A c \in Accepted : Held(c) => \A f \in Filters :
             a[n + 1].knote[c][f] = G[c][f][n + 1]
    BY <1>0, <1>5, <1>7, <2>1, <2>4
  <2>6. ClosedErrors(a[n + 1].errs)
    <3>1. CASE a[n + 1].errs = a[n].errs
      BY <2>3, <3>1
    <3>2. ASSUME NEW e \in Errors, a[n + 1].errs = Append(a[n].errs, e),
                 e.errno = "EBADF" => Open(e.fd) = {}
          PROVE  ClosedErrors(a[n + 1].errs)
      <4> DEFINE l == a[n].errs
                 m == a[n + 1].errs
      <4>1. l \in Seq(Errors) /\ m = Append(l, e)
        BY <2>3, <3>2 DEF Answers
      <4> HIDE DEF l, m
      <4>2. \A i \in DOMAIN m : m[i] = e \/ (i \in DOMAIN l /\ m[i] = l[i])
        BY <4>1
      <4>3. ClosedErrors(l)
        BY <2>3 DEF l
      <4>4. ClosedErrors(m)
        BY <3>2, <4>2, <4>3 DEF ClosedErrors
      <4> QED
        BY <4>4 DEF m
    <3> QED
      BY <2>4, <3>1, <3>2
  <2> QED
    BY <2>1, <2>4, <2>5, <2>6
<1>8. Len(s) \in T
  <2> HIDE DEF T
  <2>1. \A n \in 0..Len(s) : n \in T
    BY <1>6, <1>7, Upwards
  <2> QED
    BY <2>1
<1>9. \A c \in Ids : \A f \in Filters : Local(kn[c][f], s, fdOf[c], f) = G[c][f][Len(s)]
  BY <1>3, LocalRun
<1> QED
  BY <1>0, <1>2, <1>8, <1>9

------------------------------------------------------------------------------

(***************************************************************************)
(* The knotes while the server runs: each step either leaves what is       *)
(* coming as it was or registers one change.                               *)
(***************************************************************************)

(* What a knote is to kevent when it next looks for events, and what it    *)
(* will be when all changes that are on their way are applied.             *)
Known(c, f) ==
  IF mpc = "apply" THEN Local(knote[c][f], tmpList, fdOf[c], f) ELSE knote[c][f]

Coming(c, f) == Local(Known(c, f), changes, fdOf[c], f)

Soon(c, f) == IF mpc \in {"apply", "scan"} THEN Known(c, f) ELSE Coming(c, f)

(* The variables of the knotes and the changes, and the errors of changes. *)
KernelOK ==
  /\ knote \in KnoteTables
  /\ changes \in Seq(Changes) /\ tmpList \in Seq(Changes) /\ errs \in Seq(Errors)
  /\ ClosedErrors(errs)
  /\ errs # <<>> => mpc = "dispatch"
  /\ mpc \in {"take", "apply", "scan"} => batch = {}
  /\ mpc # "push" => regMsg = NoMsg

(* The list that kevent may be handed again changes nothing.               *)
Settled ==
  mpc \in {"take", "scan"} => \A c \in Accepted : Held(c) => \A f \in Filters :
    Local(knote[c][f], tmpList, fdOf[c], f) = knote[c][f]

KnotesOK == KernelOK /\ Settled

(* A step that registers nothing for the clients that are referred to, and *)
(* one that registers a change.                                            *)
Quietly ==
  \A c \in Accepted : Held(c) => \A f \in Filters :
    Coming(c, f)' = Coming(c, f) /\ Soon(c, f)' \in {Soon(c, f), Coming(c, f)}

Registers(ch) ==
  \A c \in Accepted : Held(c) => \A f \in Filters :
    /\ Coming(c, f)' = Eff(Coming(c, f), ch, fdOf[c], f)
    /\ Soon(c, f)' \in {Soon(c, f), Coming(c, f)'}

(* What the provers have to be told of a sequence.                         *)
LEMMA SeqFacts ==
  ASSUME NEW S, NEW s \in Seq(S)
  PROVE  Len(s) \in Nat /\ DOMAIN s = 1..Len(s) /\ \A i \in 1..Len(s) : s[i] \in S
BY LenProperties, ElementOfSeq

(* A list with one more element.                                           *)
LEMMA AppendOne ==
  ASSUME NEW S, NEW s \in Seq(S), NEW x \in S
  PROVE  /\ s \o <<x>> \in Seq(S) /\ Len(s \o <<x>>) = Len(s) + 1
         /\ \A n \in 1..Len(s) : (s \o <<x>>)[n] = s[n]
         /\ (s \o <<x>>)[Len(s) + 1] = x
<1> DEFINE t == <<x>>
<1>1. t \in Seq(S) /\ Len(t) = 1 /\ t[1] = x
  OBVIOUS
<1>2. Len(s) \in Nat
  BY LenProperties
<1> HIDE DEF t
<1>3. /\ s \o t \in Seq(S) /\ Len(s \o t) = Len(s) + Len(t)
      /\ \A i \in 1..Len(s) + Len(t) :
           (s \o t)[i] = IF i <= Len(s) THEN s[i] ELSE t[i - Len(s)]
  BY <1>1, ConcatProperties
<1>4. s \o t \in Seq(S) /\ Len(s \o t) = Len(s) + 1
  BY <1>1, <1>3
<1>5. \A n \in 1..Len(s) : (s \o t)[n] = s[n]
  BY <1>1, <1>2, <1>3
<1>6. (s \o t)[Len(s) + 1] = x
  BY <1>1, <1>2, <1>3
<1> QED
  BY <1>4, <1>5, <1>6 DEF t

(* A step that puts one change at the end of the list, and leaves the      *)
(* kernel alone, registers it.                                             *)
LEMMA OneMoreChange ==
  ASSUME KernelOK, NEW ch \in Changes, changes' = changes \o <<ch>>,
         UNCHANGED <<knote, fdOf, tmpList>>,
         mpc' = mpc \/ (\A p \in {mpc, mpc'} : p \notin {"apply", "scan"})
  PROVE  Registers(ch)
<1> SUFFICES ASSUME NEW c \in Accepted, Held(c), NEW f \in Filters
             PROVE  /\ Coming(c, f)' = Eff(Coming(c, f), ch, fdOf[c], f)
                    /\ Soon(c, f)' \in {Soon(c, f), Coming(c, f)'}
  BY DEF Registers
<1>1. Known(c, f)' = Known(c, f)
  BY DEF Known
<1>2. /\ Len(changes) \in Nat /\ Len(changes') = Len(changes) + 1
      /\ \A n \in 1..Len(changes) : changes'[n] = changes[n]
      /\ changes'[Len(changes')] = ch
  BY AppendOne, SeqFacts DEF KernelOK
<1>3. ASSUME NEW k, NEW s, NEW t, s = changes, t = changes'
      PROVE  Local(k, t, fdOf[c], f) = Eff(Local(k, s, fdOf[c], f), ch, fdOf[c], f)
  <2>1. /\ Len(s) \in Nat /\ Len(t) = Len(s) + 1
        /\ \A n \in 1..Len(s) : t[n] = s[n]
        /\ t[Len(t)] = ch
    BY <1>2, <1>3
  <2>2. Local(k, t, fdOf[c], f) = Eff(Local(k, s, fdOf[c], f), t[Len(t)], fdOf[c], f)
    BY <2>1, LocalOne
  <2> QED
    BY <2>1, <2>2
<1>4. Coming(c, f)' = Eff(Coming(c, f), ch, fdOf[c], f)
  BY <1>1, <1>3 DEF Coming
<1> QED
  BY <1>1, <1>4 DEF Soon

(* A step that touches neither the list nor the kernel is quiet.           *)
LEMMA NoMoreChange ==
  ASSUME UNCHANGED <<knote, fdOf, tmpList, changes>>,
         mpc' = mpc \/ (\A p \in {mpc, mpc'} : p \notin {"apply", "scan"})
  PROVE  Quietly
<1>1. \A c, f : Known(c, f)' = Known(c, f)
  BY DEF Known
<1> QED
  BY <1>1 DEF Quietly, Coming, Soon

(* A change of a descriptor that nobody has open.                          *)
LEMMA ClosedIsQuiet ==
  ASSUME NEW ch, Registers(ch), Open(ch.fd) = {}
  PROVE  Quietly
<1>1. \A c \in Accepted : Held(c) => ch.fd # fdOf[c]
  BY DEF Open
<1> QED
  BY <1>1 DEF Registers, Quietly, Eff

(* The turns of the main thread say nothing new of a knote.                *)
LEMMA TakeQuiet ==
  ASSUME IInv, KnotesOK, Take
  PROVE  Quietly
<1> SUFFICES ASSUME NEW c \in Accepted, Held(c), NEW f \in Filters
             PROVE  Coming(c, f)' = Coming(c, f) /\ Soon(c, f)' = Soon(c, f)
  BY DEF Quietly
<1>1. /\ mpc = "take" /\ mpc' = "apply" /\ changes' = <<>>
      /\ tmpList' = (IF changes = <<>> THEN tmpList ELSE changes)
      /\ knote' = knote /\ fdOf' = fdOf
  BY DEF Take, kernelVars
<1>2. Local(knote[c][f], tmpList, fdOf[c], f) = knote[c][f]
  BY <1>1 DEF KnotesOK, Settled
<1>3. /\ Known(c, f) = knote[c][f] /\ Soon(c, f) = Coming(c, f)
      /\ Soon(c, f)' = Known(c, f)'
  BY <1>1 DEF Known, Soon
<1>4. ASSUME NEW k, NEW s, s = <<>> PROVE Local(k, s, fdOf[c], f) = k
  BY <1>4, LocalEmpty
<1>5. Known(c, f)' = Local(knote[c][f], tmpList', fdOf[c], f)
  BY <1>1 DEF Known
<1>6. Coming(c, f)' = Known(c, f)'
  BY <1>1, <1>4 DEF Coming
<1>7. Known(c, f)' = Coming(c, f)
  <2>1. CASE changes = <<>>
    BY <1>1, <1>2, <1>3, <1>4, <1>5, <2>1 DEF Coming
  <2>2. CASE changes # <<>>
    BY <1>1, <1>3, <1>5, <2>2 DEF Coming
  <2> QED
    BY <2>1, <2>2
<1> QED
  BY <1>3, <1>6, <1>7

(* What kevent does to the knotes.                                         *)
LEMMA ApplyFacts ==
  ASSUME IInv, KernelOK, Apply
  PROVE  /\ knote' \in KnoteTables /\ errs' \in Seq(Errors) /\ ClosedErrors(errs')
         /\ \A c \in Accepted : Held(c) => \A f \in Filters :
              knote'[c][f] = Local(knote[c][f], tmpList, fdOf[c], f)
         /\ mpc = "apply" /\ mpc' \in {"scan", "dispatch", "failed"}
         /\ errs' # <<>> => mpc' = "dispatch"
<1> DEFINE r == Applied(knote, tmpList)
<1>1. /\ r \in Answers /\ ClosedErrors(r.errs)
      /\ \A c \in Accepted : Held(c) => \A f \in Filters :
           r.knote[c][f] = Local(knote[c][f], tmpList, fdOf[c], f)
  <2>1. /\ knote \in KnoteTables /\ Len(tmpList) \in Nat
        /\ \A i \in 1..Len(tmpList) : tmpList[i] \in Changes
    BY SeqFacts DEF KernelOK
  <2> QED
    BY <2>1, AppliedFacts
<1>2. /\ knote' = r.knote /\ mpc = "apply"
      /\ \/ mpc' = "failed" /\ errs' = <<>>
         \/ errs' = r.errs /\ mpc' = IF r.errs = <<>> THEN "scan" ELSE "dispatch"
  BY DEF Apply
<1> HIDE DEF r
<1>3. knote' \in KnoteTables /\ r.errs \in Seq(Errors)
  BY <1>1, <1>2 DEF Answers
<1>4. <<>> \in Seq(Errors) /\ ClosedErrors(<<>>)
  BY EmptySeq DEF ClosedErrors
<1>5. errs' \in Seq(Errors) /\ ClosedErrors(errs') /\ (errs' # <<>> => mpc' = "dispatch")
  <2>1. CASE errs' = <<>>
    BY <1>4, <2>1
  <2>2. CASE errs' = r.errs /\ mpc' = IF r.errs = <<>> THEN "scan" ELSE "dispatch"
    BY <1>1, <1>3, <2>2
  <2> QED
    BY <1>2, <2>1, <2>2
<1>6. mpc' \in {"scan", "dispatch", "failed"}
  BY <1>2
<1> QED
  BY <1>1, <1>2, <1>3, <1>5, <1>6

(* kevent takes the list in: what was still to come has come, and          *)
(* nothing else happened to a knote, although the list may be applied      *)
(* twice over.                                                             *)
LEMMA ApplyQuiet ==
  ASSUME IInv, KnotesOK, Apply
  PROVE  Quietly /\ Settled'
<1>1. /\ knote' \in KnoteTables
      /\ \A c \in Accepted : Held(c) => \A f \in Filters :
           knote'[c][f] = Local(knote[c][f], tmpList, fdOf[c], f)
      /\ mpc = "apply" /\ mpc' \in {"scan", "dispatch", "failed"}
  BY ApplyFacts DEF KnotesOK
<1>2. UNCHANGED <<fdOf, tmpList, changes, idCnt, clList, opCl, todo>>
  BY DEF Apply, clientVars, workerVars
<1>3. Quietly
  <2> SUFFICES ASSUME NEW c \in Accepted, Held(c), NEW f \in Filters
               PROVE  /\ Coming(c, f)' = Coming(c, f)
                      /\ Soon(c, f)' \in {Soon(c, f), Coming(c, f)}
    BY DEF Quietly
  <2>1. Known(c, f)' = Known(c, f)
    BY <1>1, <1>2 DEF Known
  <2> QED
    BY <1>1, <1>2, <2>1 DEF Coming, Soon
<1>4. Settled'
  <2>1. Accepted' = Accepted /\ \A c : Held(c)' = Held(c)
    BY <1>2 DEF Accepted, Held
  <2>2. ASSUME NEW c \in Accepted, Held(c), NEW f \in Filters
        PROVE  Local(knote'[c][f], tmpList, fdOf[c], f) = knote'[c][f]
    <3>1. /\ Len(tmpList) \in Nat /\ \A i \in 1..Len(tmpList) : tmpList[i] \in Changes
          /\ knote[c][f] \in Knotes
      <4>1. c \in Ids
        BY ConstantsAssumption DEF IInv, TypeOK, Accepted, Ids
      <4> QED
        BY <4>1, SeqFacts DEF KnotesOK, KernelOK, KnoteTables
    <3>2. knote'[c][f] = Local(knote[c][f], tmpList, fdOf[c], f)
      BY <1>1, <2>2
    <3> QED
      BY <3>1, <3>2, Reapplied
  <2> QED
    BY <1>2, <2>1, <2>2 DEF Settled
<1> QED
  BY <1>3, <1>4

(* To collect the events that fire changes no knote.                       *)
LEMMA ScanQuiet ==
  ASSUME Scan
  PROVE  Quietly
<1>1. /\ UNCHANGED <<knote, fdOf, tmpList, changes>>
      /\ mpc = "scan" /\ mpc' \in {"take", "dispatch"}
  BY DEF Scan, clientVars, workerVars
<1>2. \A c, f : Known(c, f)' = Known(c, f)
  BY <1>1 DEF Known
<1> QED
  BY <1>1, <1>2 DEF Quietly, Coming, Soon

(* The end of the batch changes no knote and leaves nothing half           *)
(* applied.                                                                *)
LEMMA DoneQuiet ==
  ASSUME DispatchDone
  PROVE  Quietly /\ Settled'
<1>1. /\ UNCHANGED <<knote, fdOf, changes>> /\ tmpList' = <<>>
      /\ mpc = "dispatch" /\ mpc' = "take"
  BY DEF DispatchDone, kernelVars
<1>2. \A c, f : Known(c, f)' = Known(c, f)
  BY <1>1 DEF Known
<1>3. Quietly
  BY <1>1, <1>2 DEF Quietly, Coming, Soon
<1>4. ASSUME NEW k, NEW fd, NEW f PROVE Local(k, tmpList', fd, f) = k
  BY <1>1, LocalEmpty
<1> QED
  BY <1>3, <1>4 DEF Settled

------------------------------------------------------------------------------

(* A message names a client and its descriptor.                            *)
Good(m) == m.filt \in Filters /\ m.id \in Accepted /\ m.fd = fdOf[m.id]

MessagesGood ==
  /\ \A e \in batch : e.filt \in Filters => Good(e)
  /\ mpc = "push" => Good(regMsg)
  /\ \A i \in DOMAIN msgQ : Good(msgQ[i])
  /\ \A w \in Workers : wpc[w] # "idle" => Good(msg[w])

(* A change for an accepted client is a change kevent understands.         *)
LEMMA ChangeOK ==
  ASSUME IInv, NEW c \in Accepted, NEW f \in Filters, NEW u \in Ids \cup {None},
         NEW op \in {"addEnable", "addDisable", "enable", "disable", "delete"}
  PROVE  Change(fdOf[c], f, op, u) \in Changes
BY DEF IInv, SlotsOK, Change, Changes

(* Two changes more.                                                       *)
TwoMore(t, s, a, b) ==
  /\ s \in Seq(Changes) /\ t \in Seq(Changes) /\ a \in Changes /\ b \in Changes
  /\ Len(t) = Len(s) + 2 /\ t[Len(s) + 1] = a /\ t[Len(s) + 2] = b
  /\ \A n \in 1..Len(s) : t[n] = s[n]

(* Appending two changes gives a list with two more.                       *)
LEMMA AppendTwo ==
  ASSUME NEW s \in Seq(Changes), NEW a \in Changes, NEW b \in Changes
  PROVE  TwoMore(s \o <<a, b>>, s, a, b)
<1> DEFINE p == <<a, b>>
<1>1. p \in Seq(Changes) /\ Len(p) = 2 /\ p[1] = a /\ p[2] = b /\ Len(s) \in Nat
  BY LenProperties
<1> HIDE DEF p
<1> DEFINE t == s \o p
<1>2. /\ t \in Seq(Changes) /\ Len(t) = Len(s) + Len(p)
      /\ \A i \in 1..Len(s) + Len(p) : t[i] = IF i <= Len(s) THEN s[i] ELSE p[i - Len(s)]
  BY <1>1, ConcatProperties
<1> HIDE DEF t
<1>3. TwoMore(t, s, a, b)
  <2>1. PICK n \in Nat : n = Len(s)
    BY <1>1
  <2>2. Len(t) = n + 2 /\ \A i \in 1..(n + 2) : t[i] = IF i <= n THEN s[i] ELSE p[i - n]
    BY <1>1, <1>2, <2>1
  <2>3. /\ n + 1 \in 1..(n + 2) /\ ~ (n + 1 <= n) /\ (n + 1) - n = 1
        /\ n + 2 \in 1..(n + 2) /\ ~ (n + 2 <= n) /\ (n + 2) - n = 2
        /\ \A i \in 1..n : i \in 1..(n + 2) /\ i <= n
    BY <2>1
  <2>4. t[n + 1] = a /\ t[n + 2] = b /\ \A i \in 1..n : t[i] = s[i]
    BY <1>1, <2>2, <2>3
  <2> QED
    BY <1>2, <2>1, <2>2, <2>4 DEF TwoMore
<1> QED
  BY <1>3 DEF t, p

(* The last two of the changes are applied after all the others.           *)
LEMMA TwoChanges ==
  ASSUME NEW s, NEW t, NEW a, NEW b, TwoMore(t, s, a, b), NEW k, NEW fd, NEW f
  PROVE  Local(k, t, fd, f) = Eff(Eff(Local(k, s, fd, f), a, fd, f), b, fd, f)
<1> DEFINE r == s \o <<a>>
<1>1. /\ Len(r) = Len(s) + 1 /\ Len(s) \in Nat
      /\ \A n \in 1..Len(s) : r[n] = s[n]
      /\ r[Len(s) + 1] = a
  BY AppendOne, SeqFacts DEF TwoMore
<1> HIDE DEF r
<1>2. Len(r) \in Nat /\ Len(t) = Len(r) + 1 /\ t[Len(t)] = b /\ r[Len(r)] = a
  BY <1>1 DEF TwoMore
<1>3. \A n \in 1..Len(r) : t[n] = r[n]
  BY <1>1 DEF TwoMore
<1>4. Local(k, r, fd, f) = Eff(Local(k, s, fd, f), a, fd, f)
  BY <1>1, <1>2, LocalOne
<1>5. Local(k, t, fd, f) = Eff(Local(k, r, fd, f), b, fd, f)
  BY <1>2, <1>3, LocalOne
<1> QED
  BY <1>4, <1>5

(* What accept registers: nothing for those who are there, and for the new *)
(* client a READ knote that is on and a WRITE knote that is off.           *)
LEMMA AcceptQuiet ==
  ASSUME IInv, KnotesOK, DispatchAccept
  PROVE  /\ Quietly
         /\ changes' \in Seq(Changes)
         /\ \/ UNCHANGED <<fdOf, idCnt, clList, changes>>
            \/ \E id \in Ids :
                 /\ id = idCnt + 1 /\ idCnt' = id /\ id \notin Accepted
                 /\ Accepted' = Accepted \cup {id}
                 /\ \A c \in Accepted : fdOf'[c] = fdOf[c]
                 /\ changes' = changes \o <<Change(fdOf'[id], "READ", "addEnable", id),
                                            Change(fdOf'[id], "WRITE", "addDisable", id)>>
                 /\ Open(fdOf'[id]) = {} /\ fdOf'[id] \in Fds
                 /\ clList' = [clList EXCEPT ![fdOf'[id]] = id]
                 /\ \A f \in Filters :
                      /\ Coming(id, f)' = [st |-> IF f = "READ" THEN "on" ELSE "off",
                                           udata |-> id]
                      /\ Soon(id, f)' = Coming(id, f)'
<1>1. UNCHANGED <<knote, tmpList, mpc>> /\ mpc = "dispatch"
  BY DEF DispatchAccept
<1>0. idCnt \in Nat
  BY DEF IInv, TypeOK
<1>2. CASE UNCHANGED <<fdOf, idCnt, clList, changes>>
  BY <1>1, <1>2, NoMoreChange DEF KnotesOK, KernelOK
<1>3. CASE ~ UNCHANGED <<fdOf, idCnt, clList, changes>>
  <2>1. PICK fd \in Fds, id \in Ids :
           /\ id = idCnt + 1
           /\ Open(fd) = {} /\ clList[fd] = None
           /\ idCnt' = id
           /\ fdOf' = [fdOf EXCEPT ![id] = fd]
           /\ clList' = [clList EXCEPT ![fd] = id]
           /\ changes' = changes \o <<Change(fd, "READ", "addEnable", id),
                                      Change(fd, "WRITE", "addDisable", id)>>
    <3>1. FreeFds # {}
      BY <1>3 DEF DispatchAccept
    <3> DEFINE f == CHOOSE f \in FreeFds : \A g \in FreeFds : f <= g
    <3>2. f \in FreeFds
      <4>1. FreeFds \subseteq Nat
        BY ConstantsAssumption DEF FreeFds
      <4> QED
        BY <3>1, <4>1, Smallest
    <3>3. /\ f \in Fds /\ Open(f) = {} /\ idCnt' = idCnt + 1
          /\ fdOf' = [fdOf EXCEPT ![idCnt + 1] = f]
          /\ clList' = [clList EXCEPT ![f] = IF @ = None THEN idCnt + 1 ELSE @]
          /\ changes' = changes \o <<Change(f, "READ", "addEnable", idCnt + 1),
                                     Change(f, "WRITE", "addDisable", idCnt + 1)>>
      BY <3>1, <3>2 DEF DispatchAccept, RegEvents, FreeFds
    <3>4. clList[f] = None
      BY <3>3 DEF IInv, SlotsOK, Open, Held
    <3> HIDE DEF f
    <3>5. idCnt + 1 \in Ids
      <4>1. \/ idCnt' = idCnt
            \/ idCnt + 1 \in Ids
        BY AcceptFacts
      <4> QED
        BY <1>0, <3>3, <4>1
    <3> QED
      BY <3>3, <3>4, <3>5
  <2>2. /\ Accepted' = Accepted \cup {id} /\ id \notin Accepted /\ Accepted \subseteq Ids
        /\ fdOf'[id] = fd /\ \A c \in Accepted : fdOf'[c] = fdOf[c]
    BY <2>1, ConstantsAssumption DEF IInv, TypeOK, Accepted, Ids
  <2> DEFINE a == Change(fd, "READ", "addEnable", id)
             b == Change(fd, "WRITE", "addDisable", id)
  <2>3. a \in Changes /\ b \in Changes /\ a.fd = fd /\ b.fd = fd
    BY <2>1 DEF Change, Changes, Filters
  <2>4. changes \in Seq(Changes)
    BY DEF KnotesOK, KernelOK
  <2>5. /\ changes' \in Seq(Changes)
        /\ \A k, d, f : Local(k, changes', d, f) = Eff(Eff(Local(k, changes, d, f), a, d, f), b, d, f)
    <3>1. changes' = changes \o <<a, b>>
      BY <2>1
    <3> HIDE DEF a, b
    <3>2. a \in Changes /\ b \in Changes
      BY <2>3
    <3>3. TwoMore(changes', changes, a, b)
      BY <2>4, <3>1, <3>2, AppendTwo
    <3> QED
      BY <3>3, TwoChanges DEF TwoMore
  <2>6. Quietly
    <3> SUFFICES ASSUME NEW c \in Accepted, Held(c), NEW f \in Filters
                 PROVE  Coming(c, f)' = Coming(c, f) /\ Soon(c, f)' = Coming(c, f)
      BY DEF Quietly
    <3>1. fdOf[c] # fd /\ fdOf'[c] = fdOf[c]
      BY <2>1, <2>2 DEF Open
    <3>2. Known(c, f)' = knote[c][f] /\ Known(c, f) = knote[c][f]
      BY <1>1 DEF Known
    <3>3. \A k : Eff(k, a, fdOf[c], f) = k /\ Eff(k, b, fdOf[c], f) = k
      BY <2>3, <3>1 DEF Eff
    <3> HIDE DEF a, b
    <3>4. Coming(c, f)' = Coming(c, f)
      BY <2>5, <3>1, <3>2, <3>3 DEF Coming
    <3> QED
      BY <1>1, <3>4 DEF Soon
  <2>7. ASSUME NEW f \in Filters
        PROVE  /\ Coming(id, f)' = [st |-> IF f = "READ" THEN "on" ELSE "off", udata |-> id]
               /\ Soon(id, f)' = Coming(id, f)'
    <3>1. \A k : Eff(Eff(k, a, fd, "READ"), b, fd, "READ") = [st |-> "on", udata |-> id]
      BY DEF Eff, Change
    <3>2. \A k : Eff(Eff(k, a, fd, "WRITE"), b, fd, "WRITE") = [st |-> "off", udata |-> id]
      BY DEF Eff, Change
    <3> HIDE DEF a, b
    <3>3. Coming(id, f)' = Eff(Eff(Local(Known(id, f)', changes, fd, f), a, fd, f), b, fd, f)
      BY <2>2, <2>5 DEF Coming
    <3>4. Coming(id, f)' = [st |-> IF f = "READ" THEN "on" ELSE "off", udata |-> id]
      <4>1. CASE f = "READ"
        BY <3>1, <3>3, <4>1
      <4>2. CASE f = "WRITE"
        BY <3>2, <3>3, <4>2
      <4> QED
        BY <4>1, <4>2 DEF Filters
    <3> QED
      BY <1>1, <3>4 DEF Soon
  <2> HIDE DEF a, b
  <2>8. changes' = changes \o <<Change(fdOf'[id], "READ", "addEnable", id),
                                Change(fdOf'[id], "WRITE", "addDisable", id)>>
    BY <2>1, <2>2
  <2> QED
    BY <2>1, <2>2, <2>5, <2>6, <2>7, <2>8
<1> QED
  BY <1>2, <1>3

------------------------------------------------------------------------------

(* The first of kevent's errors and the rest; a descriptor it calls        *)
(* closed is not open at any client.                                       *)
LEMMA HeadOfErrors ==
  ASSUME KernelOK, errs # <<>>
  PROVE  /\ Head(errs) \in Errors /\ Tail(errs) \in Seq(Errors)
         /\ Head(errs).errno # "ENOENT" => Open(Head(errs).fd) = {}
         /\ ClosedErrors(Tail(errs))
<1> DEFINE s == errs
           t == Tail(errs)
<1>1. s \in Seq(Errors) /\ s # <<>>
  BY DEF KernelOK
<1>2. /\ t \in Seq(Errors) /\ Len(t) = Len(s) - 1 /\ Len(s) \in Nat \ {0}
      /\ \A i \in 1..Len(t) : t[i] = s[i + 1]
      /\ DOMAIN s = 1..Len(s) /\ DOMAIN t = 1..Len(t)
      /\ Head(s) = s[1] /\ Head(s) \in Errors
  BY <1>1, HeadTailProperties, EmptySeq, LenProperties
<1>3. ClosedErrors(s)
  BY DEF KernelOK
<1> HIDE DEF s, t
<1>a. \A i \in DOMAIN s : s[i].errno = "EBADF" => Open(s[i].fd) = {}
  BY <1>3 DEF ClosedErrors
<1>4. ClosedErrors(t)
  <2> SUFFICES ASSUME NEW i \in DOMAIN t, t[i].errno = "EBADF" PROVE Open(t[i].fd) = {}
    BY DEF ClosedErrors
  <2>1. i + 1 \in DOMAIN s /\ t[i] = s[i + 1]
    BY <1>2
  <2> QED
    BY <1>a, <2>1
<1>5. Head(s).errno # "ENOENT" => Open(Head(s).fd) = {}
  <2>1. 1 \in DOMAIN s /\ Head(s) = s[1] /\ Head(s).errno \in {"EBADF", "ENOENT"}
    BY <1>2 DEF Errors
  <2> QED
    BY <1>a, <2>1
<1> QED
  BY <1>2, <1>4, <1>5 DEF s, t

(* What main registers for the clients that are referred to.               *)
LEMMA MainQuiet ==
  ASSUME IInv, KnotesOK,
         \/ Take \/ Apply \/ Scan \/ DispatchError \/ DispatchAccept \/ DispatchPush
         \/ DispatchDone
  PROVE  Quietly /\ changes' \in Seq(Changes)
<1>1. CASE Take \/ Apply \/ Scan \/ DispatchPush \/ DispatchDone
  <2>1. changes' \in Seq(Changes)
    <3>1. changes' \in {changes, <<>>}
      BY <1>1 DEF Take, Apply, Scan, DispatchPush, DispatchDone
    <3>2. <<>> \in Seq(Changes) /\ changes \in Seq(Changes)
      BY EmptySeq DEF KnotesOK, KernelOK
    <3> QED
      BY <3>1, <3>2
  <2>2. CASE DispatchPush
    <3>1. UNCHANGED <<knote, fdOf, tmpList, changes>> /\ mpc = "push" /\ mpc' = "dispatch"
      BY <2>2 DEF DispatchPush, kernelVars
    <3>2. Quietly
      BY <3>1, NoMoreChange
    <3> QED
      BY <2>1, <3>2
  <2> QED
    BY <1>1, <2>1, <2>2, TakeQuiet, ApplyQuiet, ScanQuiet, DoneQuiet
<1>2. CASE DispatchError
  <2>1. UNCHANGED <<knote, fdOf, tmpList, mpc>> /\ errs # <<>>
    BY <1>2 DEF DispatchError
  <2>2. CASE changes' = changes
    BY <2>1, <2>2, NoMoreChange DEF KnotesOK, KernelOK
  <2>3. CASE changes' # changes
    <3> DEFINE ch == Change(Head(errs).fd, "READ", "delete", None)
    <3>1. Head(errs) \in Errors /\ Open(Head(errs).fd) = {} /\ changes' = changes \o <<ch>>
      BY <1>2, <2>1, <2>3, HeadOfErrors DEF KnotesOK, DispatchError, RegEvents
    <3>2. ch \in Changes /\ Open(ch.fd) = {}
      BY <3>1 DEF Errors, Changes, Change, Filters
    <3> HIDE DEF ch
    <3>3. Registers(ch)
      BY <2>1, <3>1, <3>2, OneMoreChange DEF KnotesOK
    <3>4. Quietly
      BY <3>2, <3>3, ClosedIsQuiet
    <3>5. changes \in Seq(Changes)
      BY DEF KnotesOK, KernelOK
    <3>6. changes' \in Seq(Changes)
      BY <3>1, <3>2, <3>5, AppendOne
    <3> QED
      BY <3>4, <3>6
  <2> QED
    BY <2>2, <2>3
<1>3. CASE DispatchAccept
  BY <1>3, AcceptQuiet
<1> QED
  BY <1>1, <1>2, <1>3

(* Main turns an event's knote off before it hands the event to the        *)
(* workers.                                                                *)
LEMMA DisableRegisters ==
  ASSUME IInv, KnotesOK, MessagesGood, DispatchDisable
  PROVE  /\ changes' \in Seq(Changes)
         /\ \E e \in batch :
              /\ Good(e) /\ batch' = batch \ {e} /\ regMsg' = e
              /\ Registers(Change(e.fd, e.filt, "disable", e.id))
              /\ changes' = changes \o <<Change(e.fd, e.filt, "disable", e.id)>>
<1>1. PICK e \in batch :
        /\ e.filt \in Filters /\ batch' = batch \ {e} /\ regMsg' = e
        /\ changes' = changes \o <<Change(e.fd, e.filt, "disable", e.id)>>
        /\ UNCHANGED <<knote, fdOf, tmpList>> /\ mpc = "dispatch" /\ mpc' = "push"
  BY DEF DispatchDisable, Disabling, RegEvents
<1>2. Good(e)
  BY <1>1 DEF MessagesGood
<1>3. e.id \in Accepted /\ e.id \in Ids /\ e.fd = fdOf[e.id]
  BY <1>2, ConstantsAssumption DEF Good, IInv, TypeOK, Accepted, Ids
<1> DEFINE ch == Change(e.fd, e.filt, "disable", e.id)
<1>4. ch \in Changes
  BY <1>1, <1>3, ChangeOK
<1> HIDE DEF ch
<1>5. changes' = changes \o <<ch>>
  BY <1>1 DEF ch
<1>6. Registers(ch)
  BY <1>1, <1>4, <1>5, OneMoreChange DEF KnotesOK
<1>7. changes' \in Seq(Changes)
  BY <1>4, <1>5, AppendOne DEF KnotesOK, KernelOK
<1> QED
  BY <1>1, <1>2, <1>6, <1>7 DEF ch

(* What a worker registers: for a client that is referred to.              *)
WorkerRegisters(w, d, ch) ==
  \/ /\ ch = Change(fdOf[d], "READ", "enable", d)
     /\ Rearm(w) /\ d = opCl[w] /\ ustate[d] # "UNAVAIL"
  \/ /\ ch = Change(fdOf[d], "WRITE", "enable", d)
     /\ More(w) /\ d = opCl[w] /\ outBuf[d] > 0 /\ ustate[d] # "CLOSE"
  \/ /\ ch = Change(fdOf[d], "WRITE", "enable", d)
     /\ Do(w) /\ d = Head(todo[w]).cl /\ Head(todo[w]).op = "enable"
  \/ /\ ch = Change(fdOf[d], "READ", "delete", None)
     /\ Do(w) /\ d = Head(todo[w]).cl /\ Head(todo[w]).op = "delete"

(* The first operation of a worker's command and the rest of them.         *)
LEMMA HeadOfTodo ==
  ASSUME IInv, NEW w \in Workers, wpc[w] \in {"cmd", "bye"}
  PROVE  /\ Head(todo[w]) = todo[w][1] /\ Head(todo[w]) \in Ops
         /\ Head(todo[w]).cl \in Accepted /\ Held(Head(todo[w]).cl)
         /\ todo[w] \in Seq(Ops) /\ Len(todo[w]) \in Nat \ {0} /\ DOMAIN todo[w] = 1..Len(todo[w])
         /\ Tail(todo[w]) \in Seq(Ops) /\ Len(Tail(todo[w])) = Len(todo[w]) - 1
         /\ DOMAIN Tail(todo[w]) = 1..(Len(todo[w]) - 1)
         /\ \A i \in 1..(Len(todo[w]) - 1) : Tail(todo[w])[i] = todo[w][i + 1]
<1> DEFINE s == todo[w]
           t == Tail(todo[w])
<1>1. s \in Seq(Ops) /\ s # <<>>
  BY DEF IInv, TypeOK, WorkersOK
<1>2. /\ t \in Seq(Ops) /\ Len(t) = Len(s) - 1 /\ Len(s) \in Nat \ {0}
      /\ \A i \in 1..Len(t) : t[i] = s[i + 1]
      /\ DOMAIN s = 1..Len(s) /\ DOMAIN t = 1..Len(t)
      /\ Head(s) = s[1] /\ Head(s) \in Ops
  BY <1>1, HeadTailProperties, EmptySeq, LenProperties
<1>3. \A i \in DOMAIN s : s[i].cl \in Accepted /\ Held(s[i].cl)
  BY DEF IInv, WorkersOK, Held
<1> HIDE DEF s, t
<1>4. Head(s).cl \in Accepted /\ Held(Head(s).cl)
  BY <1>2, <1>3
<1>5. /\ DOMAIN t = 1..(Len(s) - 1)
      /\ \A i \in 1..(Len(s) - 1) : t[i] = s[i + 1]
  BY <1>2
<1> QED
  BY <1>1, <1>2, <1>4, <1>5 DEF s, t

(* A worker's step registers one change for one client that is referred    *)
(* to, or none.                                                            *)
LEMMA WorkerChanges ==
  ASSUME IInv, KnotesOK, NEW w \in Workers, WorkerNext(w)
  PROVE  /\ changes' \in Seq(Changes)
         /\ \/ Quietly /\ UNCHANGED changes
            \/ \E d \in Accepted : \E ch \in Changes :
                 /\ Held(d) /\ WorkerRegisters(w, d, ch) /\ Registers(ch)
                 /\ changes' = changes \o <<ch>>
<1>0. UNCHANGED <<knote, fdOf, tmpList, mpc>>
  <2>1. CASE Pop(w) \/ Find(w) \/ Check(w) \/ Rearm(w) \/ Send(w)
    BY <2>1 DEF Pop, Find, Check, Rearm, Send, kernelVars, mainVars
  <2>2. CASE Recv(w) \/ Line(w) \/ Do(w)
    BY <2>2 DEF Recv, Line, Do, kernelVars, mainVars
  <2>3. CASE Sent(w) \/ CloseSent(w) \/ More(w) \/ Release(w)
    BY <2>3 DEF Sent, CloseSent, More, Release, kernelVars, mainVars
  <2> QED
    BY <2>1, <2>2, <2>3 DEF WorkerNext
<1>1. CASE UNCHANGED changes
  BY <1>0, <1>1, NoMoreChange DEF KnotesOK, KernelOK
<1>2. ASSUME NEW d \in Accepted, Held(d), NEW ch \in Changes,
             WorkerRegisters(w, d, ch), changes' = changes \o <<ch>>
      PROVE  /\ changes' \in Seq(Changes)
             /\ \E c \in Accepted : \E q \in Changes :
                  /\ Held(c) /\ WorkerRegisters(w, c, q) /\ Registers(q)
                  /\ changes' = changes \o <<q>>
  <2>1. Registers(ch)
    BY <1>0, <1>2, OneMoreChange DEF KnotesOK
  <2>2. changes' \in Seq(Changes)
    BY <1>2, AppendOne DEF KnotesOK, KernelOK
  <2> QED
    BY <1>2, <2>1, <2>2
<1>3. \/ UNCHANGED changes
      \/ \E d \in Accepted : \E ch \in Changes :
           Held(d) /\ WorkerRegisters(w, d, ch) /\ changes' = changes \o <<ch>>
  <2>0. \A d \in Accepted : d \in Ids /\ Change(fdOf[d], "READ", "enable", d) \in Changes
          /\ Change(fdOf[d], "WRITE", "enable", d) \in Changes
          /\ Change(fdOf[d], "READ", "delete", None) \in Changes
    <3>1. \A d \in Accepted : d \in Ids
      BY ConstantsAssumption DEF IInv, TypeOK, Accepted, Ids
    <3>2. "READ" \in Filters /\ "WRITE" \in Filters
      BY DEF Filters
    <3> QED
      BY <3>1, <3>2, ChangeOK
  <2>1. CASE Pop(w) \/ Find(w) \/ Check(w) \/ Send(w) \/ Recv(w) \/ Line(w)
             \/ Sent(w) \/ CloseSent(w) \/ Release(w)
    BY <2>1 DEF Pop, Find, Check, Send, Recv, Line, Sent, CloseSent, Release
  <2>2. CASE Rearm(w)
    <3>1. opCl[w] \in Accepted /\ Held(opCl[w])
      BY <2>2 DEF Rearm, IInv, WorkersOK, Held
    <3>2. \/ UNCHANGED changes
          \/ /\ ustate[opCl[w]] # "UNAVAIL"
             /\ changes' = changes \o <<Change(fdOf[opCl[w]], "READ", "enable", opCl[w])>>
      BY <2>2 DEF Rearm, RegEvents, Udata
    <3> QED
      BY <2>0, <2>2, <3>1, <3>2 DEF WorkerRegisters
  <2>3. CASE More(w)
    <3>1. opCl[w] \in Accepted /\ Held(opCl[w])
      BY <2>3 DEF More, IInv, WorkersOK, Held
    <3>2. \/ UNCHANGED changes
          \/ /\ outBuf[opCl[w]] > 0 /\ ustate[opCl[w]] # "CLOSE"
             /\ changes' = changes \o <<Change(fdOf[opCl[w]], "WRITE", "enable", opCl[w])>>
      BY <2>3 DEF More, RegEvents, Udata
    <3> QED
      BY <2>0, <2>3, <3>1, <3>2 DEF WorkerRegisters
  <2>4. CASE Do(w)
    <3>0. wpc[w] \in {"cmd", "bye"} /\ Perform(Head(todo[w]).op, Head(todo[w]).cl)
      BY <2>4 DEF Do
    <3>1. Head(todo[w]).cl \in Accepted /\ Held(Head(todo[w]).cl)
      BY <3>0, HeadOfTodo
    <3> DEFINE d == Head(todo[w]).cl
    <3>2. \/ UNCHANGED changes
          \/ /\ Head(todo[w]).op = "delete"
             /\ changes' = changes \o <<Change(fdOf[d], "READ", "delete", None)>>
          \/ /\ Head(todo[w]).op = "enable"
             /\ changes' = changes \o <<Change(fdOf[d], "WRITE", "enable", d)>>
      BY <3>0 DEF Perform, RegEvents, Udata
    <3> QED
      BY <2>0, <2>4, <3>1, <3>2 DEF WorkerRegisters
  <2> QED
    BY <2>1, <2>2, <2>3, <2>4 DEF WorkerNext, WorkerNext
<1> QED
  BY <1>1, <1>2, <1>3

(* What the peers do changes no knote and no list.                         *)
LEMMA PeersQuiet ==
  ASSUME KnotesOK, PeerNext \/ UNCHANGED vars
  PROVE  Quietly /\ UNCHANGED changes
<1>1. UNCHANGED <<knote, fdOf, tmpList, mpc, changes>>
  <2>1. CASE Connect \/ UNCHANGED vars
    BY <2>1 DEF Connect, vars, kernelVars, mainVars
  <2>2. CASE \E c \in Accepted : PeerSend(c) \/ PeerShut(c) \/ PeerReset(c)
    BY <2>2 DEF PeerSend, PeerShut, PeerReset, mainVars
  <2> QED
    BY <2>1, <2>2 DEF PeerNext
<1> QED
  BY <1>1, NoMoreChange

------------------------------------------------------------------------------

(* What only main touches: workers and peers leave it alone.               *)
LEMMA OthersKeep ==
  ASSUME (\E w \in Workers : WorkerNext(w)) \/ PeerNext \/ UNCHANGED vars
  PROVE  UNCHANGED <<knote, fdOf, idCnt, tmpList, mpc, errs, batch, regMsg>>
<1>1. ASSUME NEW w \in Workers, WorkerNext(w)
      PROVE  UNCHANGED <<knote, fdOf, idCnt, tmpList, mpc, errs, batch, regMsg>>
  <2>1. CASE Pop(w) \/ Find(w) \/ Check(w) \/ Rearm(w) \/ Send(w)
    BY <2>1 DEF Pop, Find, Check, Rearm, Send, kernelVars, mainVars, clientVars
  <2>2. CASE Recv(w) \/ Line(w) \/ Do(w)
    BY <2>2 DEF Recv, Line, Do, kernelVars, mainVars, clientVars
  <2>3. CASE Sent(w) \/ CloseSent(w) \/ More(w) \/ Release(w)
    BY <2>3 DEF Sent, CloseSent, More, Release, kernelVars, mainVars, clientVars
  <2> QED
    BY <1>1, <2>1, <2>2, <2>3 DEF WorkerNext
<1>2. CASE Connect \/ UNCHANGED vars
  BY <1>2 DEF Connect, vars, kernelVars, mainVars, clientVars
<1>3. CASE \E c \in Accepted : PeerSend(c) \/ PeerShut(c) \/ PeerReset(c)
  BY <1>3 DEF PeerSend, PeerShut, PeerReset, mainVars, clientVars
<1> QED
  BY <1>1, <1>2, <1>3 DEF PeerNext

(* No step opens a descriptor that has an error.                           *)
LEMMA ClosedStay ==
  ASSUME IInv, KernelOK, [Next]_vars, errs' = errs \/ (errs # <<>> /\ errs' = Tail(errs))
  PROVE  ClosedErrors(errs)'
<1>1. ClosedErrors(errs')
  BY HeadOfErrors DEF KernelOK
<1>2. CASE UNCHANGED <<fdOf, idCnt>>
  <2>1. \A fd : Open(fd) = {} => Open(fd)' = {}
    BY <1>2, HeldStep DEF Open, Accepted
  <2> QED
    BY <1>1, <2>1 DEF ClosedErrors
<1>3. CASE errs' = <<>>
  BY <1>3 DEF ClosedErrors
<1>4. UNCHANGED <<fdOf, idCnt>> \/ errs' = <<>>
  <2>1. CASE Take \/ Apply \/ Scan \/ DispatchError \/ DispatchDisable \/ DispatchPush \/ DispatchDone
    BY <2>1 DEF Take, Apply, Scan, DispatchError, DispatchDisable, DispatchPush, DispatchDone,
                clientVars, kernelVars
  <2>2. CASE DispatchAccept
    BY <2>2 DEF DispatchAccept
  <2> QED
    BY <2>1, <2>2, OthersKeep DEF Next, MainNext
<1> QED
  BY <1>2, <1>3, <1>4

(* Every step keeps the tables in their range.                             *)
LEMMA KernelStep ==
  ASSUME IInv, KnotesOK, MessagesGood, [Next]_vars
  PROVE  KernelOK'
<1>0. /\ KernelOK /\ <<>> \in Seq(Changes)
  BY EmptySeq DEF KnotesOK
<1>1. changes' \in Seq(Changes)
  <2>1. UNCHANGED changes => changes' \in Seq(Changes)
    BY <1>0 DEF KernelOK
  <2> QED
    BY <2>1, MainQuiet, DisableRegisters, WorkerChanges, PeersQuiet DEF Next, MainNext
<1>2. CASE (\E w \in Workers : WorkerNext(w)) \/ PeerNext \/ UNCHANGED vars
  <2>1. UNCHANGED <<knote, fdOf, idCnt, tmpList, mpc, errs, batch, regMsg>>
    BY <1>2, OthersKeep
  <2>2. ClosedErrors(errs)'
    BY <1>0, <2>1, ClosedStay
  <2> QED
    BY <1>0, <1>1, <2>1, <2>2 DEF KernelOK
<1>3. CASE Take
  <2>1. /\ UNCHANGED <<knote, errs, batch, regMsg>> /\ tmpList' \in {tmpList, changes}
        /\ mpc = "take" /\ mpc' = "apply"
    BY <1>3 DEF Take, kernelVars
  <2>2. ClosedErrors(errs)'
    BY <1>0, <2>1, ClosedStay
  <2> QED
    BY <1>0, <1>1, <2>1, <2>2 DEF KernelOK
<1>4. CASE Apply
  <2>1. /\ UNCHANGED <<tmpList, batch, regMsg, fdOf, idCnt, clList, opCl, todo>>
    BY <1>4 DEF Apply, clientVars, workerVars
  <2>2. /\ knote' \in KnoteTables /\ errs' \in Seq(Errors) /\ ClosedErrors(errs')
        /\ mpc = "apply" /\ mpc' \in {"scan", "dispatch", "failed"}
        /\ errs' # <<>> => mpc' = "dispatch"
    BY <1>0, <1>4, ApplyFacts
  <2>3. ClosedErrors(errs)'
    BY <2>1, <2>2 DEF ClosedErrors, Open, Held, Accepted
  <2> QED
    BY <1>0, <1>1, <2>1, <2>2, <2>3 DEF KernelOK
<1>5. CASE Scan
  <2>1. /\ UNCHANGED <<knote, errs, tmpList, regMsg>>
        /\ mpc = "scan" /\ (mpc' = "dispatch" \/ (mpc' = "take" /\ batch' = {}))
    BY <1>5 DEF Scan
  <2>2. ClosedErrors(errs)'
    BY <1>0, <2>1, ClosedStay
  <2> QED
    BY <1>0, <1>1, <2>1, <2>2 DEF KernelOK
<1>6. CASE DispatchError
  <2>1. /\ UNCHANGED <<knote, tmpList, mpc, batch, regMsg>>
        /\ mpc = "dispatch" /\ errs # <<>> /\ errs' = Tail(errs)
    BY <1>6 DEF DispatchError
  <2>2. ClosedErrors(errs)' /\ errs' \in Seq(Errors)
    BY <1>0, <2>1, ClosedStay, HeadOfErrors
  <2> QED
    BY <1>0, <1>1, <2>1, <2>2 DEF KernelOK
<1>7. CASE DispatchAccept
  <2>1. UNCHANGED <<knote, tmpList, mpc, errs, regMsg>> /\ mpc = "dispatch"
    BY <1>7 DEF DispatchAccept
  <2>2. ClosedErrors(errs)'
    BY <1>0, <2>1, ClosedStay
  <2> QED
    BY <1>0, <1>1, <2>1, <2>2 DEF KernelOK
<1>8. CASE DispatchDisable
  <2>1. UNCHANGED <<knote, tmpList, errs>> /\ errs = <<>> /\ mpc' = "push"
    BY <1>8 DEF DispatchDisable
  <2>2. ClosedErrors(errs)'
    BY <1>0, <2>1, ClosedStay
  <2> QED
    BY <1>0, <1>1, <2>1, <2>2 DEF KernelOK
<1>9. CASE DispatchPush \/ DispatchDone
  <2>1. /\ UNCHANGED <<knote, errs, batch>> /\ tmpList' \in {tmpList, <<>>}
        /\ mpc' = "dispatch" \/ (mpc' = "take" /\ batch = {} /\ errs = <<>>)
        /\ regMsg' = NoMsg \/ (regMsg' = regMsg /\ mpc = "dispatch")
        /\ mpc \in {"push", "dispatch"}
    BY <1>9 DEF DispatchPush, DispatchDone, kernelVars
  <2>2. ClosedErrors(errs)'
    BY <1>0, <2>1, ClosedStay
  <2> QED
    BY <1>0, <1>1, <2>1, <2>2 DEF KernelOK
<1> QED
  BY <1>2, <1>3, <1>4, <1>5, <1>6, <1>7, <1>8, <1>9 DEF Next, MainNext

(* Every step keeps the list empty while kevent's answer is read.          *)
LEMMA SettledStep ==
  ASSUME IInv, KnotesOK, [Next]_vars
  PROVE  Settled'
<1>1. CASE UNCHANGED <<knote, fdOf, idCnt, tmpList>> /\ (mpc' \in {"take", "scan"} => mpc \in {"take", "scan"})
  BY <1>1, HeldStep DEF KnotesOK, Settled, Accepted
<1>2. CASE mpc' \notin {"take", "scan"}
  BY <1>2 DEF Settled
<1>3. CASE Take \/ DispatchDisable \/ DispatchPush \/ DispatchAccept \/ DispatchError
  BY <1>2, <1>3 DEF Take, DispatchDisable, DispatchPush, DispatchAccept, DispatchError
<1>4. CASE Scan
  BY <1>1, <1>4 DEF Scan, clientVars
<1> QED
  BY <1>1, <1>3, <1>4, ApplyQuiet, DoneQuiet, OthersKeep DEF Next, MainNext

------------------------------------------------------------------------------

(***************************************************************************)
(* One reader: a READ event is in one place, and while it is under way     *)
(* the knote is off.                                                       *)
(***************************************************************************)

(* Where the message of an event can be once kevent has returned it.       *)
Is(m, f, c) == m.filt = f /\ m.id = c

AtBatch(f, c)    == \E e \in batch : Is(e, f, c)
AtReg(f, c)      == Is(regMsg, f, c)
AtQueue(f, c)    == \E i \in DOMAIN msgQ : Is(msgQ[i], f, c)
InHands(w, f, c) == Is(msg[w], f, c) /\ wpc[w] \notin {"idle", "release"}
AtHand(f, c)     == \E w \in Workers : InHands(w, f, c)
Passed(f, c)     == AtReg(f, c) \/ AtQueue(f, c) \/ AtHand(f, c)

(* Workers that read have a READ event, and workers that write a WRITE     *)
(* event.                                                                  *)
Roles ==
  \A w \in Workers :
    /\ wpc[w] \in {"recv", "lines", "cmd", "bye", "rearm"} => msg[w].filt = "READ"
    /\ wpc[w] \in {"send", "sent", "close", "more"} => msg[w].filt = "WRITE"

(* A READ event of a client is in one place, once.                         *)
OneMessage ==
  \A c \in Accepted :
    /\ \A d, e \in batch : Is(d, "READ", c) /\ Is(e, "READ", c) => d = e
    /\ \A i, j \in DOMAIN msgQ : Is(msgQ[i], "READ", c) /\ Is(msgQ[j], "READ", c) => i = j
    /\ \A v, w \in Workers : InHands(v, "READ", c) /\ InHands(w, "READ", c) => v = w
    /\ AtBatch("READ", c) => ~ Passed("READ", c)
    /\ AtReg("READ", c) => ~ AtQueue("READ", c) /\ ~ AtHand("READ", c)
    /\ AtQueue("READ", c) => ~ AtHand("READ", c)

(* A knote that is on carries the id of its client.                        *)
OwnUdata ==
  \A c \in Accepted : Held(c) => \A f \in Filters :
    /\ Coming(c, f).st = "on" => Coming(c, f).udata = c
    /\ Soon(c, f).st = "on" => Soon(c, f).udata = c

(* While the message of a READ event is passed on, the knote is off, when  *)
(* kevent next looks and when all changes are applied.                     *)
Disarmed ==
  \A c \in Accepted : Held(c) /\ Passed("READ", c) =>
    Coming(c, "READ").st # "on" /\ Soon(c, "READ").st # "on"

ReaderInv == KnotesOK /\ MessagesGood /\ Roles /\ OneMessage /\ OwnUdata /\ Disarmed

(* The events of a scan are of clients whose knote is on.                  *)
LEMMA ScanFacts ==
  ASSUME IInv, OwnUdata, Scan
  PROVE  \A e \in batch' : e.filt \in Filters =>
           \E c \in Accepted : /\ Held(c) /\ Soon(c, e.filt).st = "on"
                               /\ e = Event(e.filt, fdOf[c], c)
<1> SUFFICES ASSUME NEW e \in batch', e.filt \in Filters
             PROVE  \E c \in Accepted : /\ Held(c) /\ Soon(c, e.filt).st = "on"
                                        /\ e = Event(e.filt, fdOf[c], c)
  OBVIOUS
<1>1. mpc = "scan" /\ e \in Ready \cup Writable
  <2>1. e # Notify
    BY DEF Notify, Event, Filters
  <2>2. mpc = "scan" /\ e \in Ready \cup Writable \cup {Notify}
    BY DEF Scan
  <2> QED
    BY <2>1, <2>2
<1>2. \A c, f : Soon(c, f) = knote[c][f]
  BY <1>1 DEF Soon, Known
<1>3. e # Event("LISTEN", 0, None)
  BY DEF Event, Filters
<1>4. PICK c \in Accepted, f \in Filters : Armed(c, f) /\ e = Event(f, fdOf[c], knote[c][f].udata)
  BY <1>1, <1>3 DEF Ready, Writable, Filters
<1>5. e.filt = f /\ Held(c) /\ knote[c][f].st = "on"
  BY <1>4 DEF Event, Armed
<1>6. knote[c][f].udata = c
  BY <1>2, <1>5 DEF OwnUdata
<1> QED
  BY <1>2, <1>4, <1>5, <1>6

(* The queue.                                                              *)
LEMMA PushFacts ==
  ASSUME IInv, DispatchPush
  PROVE  /\ Len(msgQ) + 1 \in DOMAIN msgQ' /\ msgQ'[Len(msgQ) + 1] = regMsg
         /\ \A i \in DOMAIN msgQ : i \in DOMAIN msgQ' /\ msgQ'[i] = msgQ[i] /\ i # Len(msgQ) + 1
         /\ \A i \in DOMAIN msgQ' : i = Len(msgQ) + 1 \/ i \in DOMAIN msgQ
<1> DEFINE S == {m \in {msgQ[i] : i \in DOMAIN msgQ} : m.fd \in Fds}
<1>1. msgQ \in Seq(S) /\ msgQ' = Append(msgQ, regMsg)
  BY DEF DispatchPush, IInv, MessagesOK
<1>2. msgQ \in Seq(S \cup {regMsg})
  <2> HIDE DEF S
  <2> QED
    BY <1>1, SeqMonotonic
<1> HIDE DEF S
<1>3. /\ DOMAIN msgQ = 1..Len(msgQ) /\ Len(msgQ) \in Nat /\ DOMAIN msgQ' = 1..Len(msgQ) + 1
      /\ \A i \in 1..Len(msgQ) : msgQ'[i] = msgQ[i]
      /\ msgQ'[Len(msgQ) + 1] = regMsg
  BY <1>1, <1>2
<1> QED
  BY <1>3

(* What a worker takes from the message queue, and how the others move     *)
(* up.                                                                     *)
LEMMA PopFacts ==
  ASSUME IInv, NEW w \in Workers, Pop(w)
  PROVE  /\ 1 \in DOMAIN msgQ /\ msg' = [msg EXCEPT ![w] = msgQ[1]]
         /\ \A i \in DOMAIN msgQ' : i + 1 \in DOMAIN msgQ /\ msgQ'[i] = msgQ[i + 1] /\ i \in Nat \ {0}
         /\ \A i \in DOMAIN msgQ : i = 1 \/ (i - 1 \in DOMAIN msgQ' /\ msgQ'[i - 1] = msgQ[i])
<1> DEFINE S == {m \in {msgQ[i] : i \in DOMAIN msgQ} : m.fd \in Fds}
<1>1. msgQ \in Seq(S) /\ msgQ # <<>> /\ msgQ' = Tail(msgQ) /\ msg' = [msg EXCEPT ![w] = Head(msgQ)]
  BY DEF Pop, IInv, MessagesOK
<1> HIDE DEF S
<1>2. /\ msgQ' \in Seq(S) /\ Len(msgQ') = Len(msgQ) - 1 /\ Len(msgQ) \in Nat \ {0}
      /\ \A i \in 1..Len(msgQ') : msgQ'[i] = msgQ[i + 1]
      /\ DOMAIN msgQ = 1..Len(msgQ) /\ DOMAIN msgQ' = 1..Len(msgQ')
      /\ Head(msgQ) = msgQ[1]
  BY <1>1, HeadTailProperties, EmptySeq, LenProperties
<1> QED
  BY <1>1, <1>2

(* What a client is called, and its descriptor, stay.                      *)
LEMMA IdsStay ==
  ASSUME IInv, [Next]_vars
  PROVE  /\ \A c \in Accepted : c \in Accepted' /\ fdOf'[c] = fdOf[c]
         /\ UNCHANGED <<fdOf, idCnt>> \/ DispatchAccept
<1>1. CASE Take \/ Apply \/ Scan \/ DispatchError \/ DispatchDisable \/ DispatchPush \/ DispatchDone
  BY <1>1 DEF Take, Apply, Scan, DispatchError, DispatchDisable, DispatchPush, DispatchDone,
              clientVars, kernelVars, Accepted
<1>2. CASE DispatchAccept
  <2>1. /\ idCnt \in Nat /\ fdOf \in [Ids -> Fds \cup {0}] /\ \A c \in Accepted : c \in Ids
    BY ConstantsAssumption DEF IInv, TypeOK, Accepted, Ids
  <2>2. CASE UNCHANGED <<fdOf, idCnt>>
    BY <1>2, <2>2 DEF Accepted
  <2>3. CASE \E fd \in Fds : /\ idCnt' = idCnt + 1
                             /\ fdOf' = [fdOf EXCEPT ![idCnt + 1] = fd]
    <3>1. PICK fd \in Fds : idCnt' = idCnt + 1 /\ fdOf' = [fdOf EXCEPT ![idCnt + 1] = fd]
      BY <2>3
    <3>2. \A c \in Accepted : c # idCnt + 1 /\ c \in Accepted'
      BY <2>1, <3>1 DEF Accepted
    <3> QED
      BY <1>2, <2>1, <3>1, <3>2
  <2>4. UNCHANGED <<fdOf, idCnt>> \/ \E fd \in Fds : /\ idCnt' = idCnt + 1
                             /\ fdOf' = [fdOf EXCEPT ![idCnt + 1] = fd]
    BY <1>2, AcceptFacts
  <2> QED
    BY <2>2, <2>3, <2>4
<1>3. CASE UNCHANGED <<fdOf, idCnt>>
  BY <1>3 DEF Accepted
<1> QED
  BY <1>1, <1>2, <1>3, OthersKeep DEF Next, MainNext

(* What a worker does with the message it has.                             *)
LEMMA WorkerMessages ==
  ASSUME IInv, NEW w \in Workers, WorkerNext(w)
  PROVE  /\ \A v \in Workers \ {w} : msg'[v] = msg[v] /\ wpc'[v] = wpc[v] /\ opCl'[v] = opCl[v]
         /\ \/ Pop(w) /\ wpc[w] = "idle" /\ wpc'[w] = "find"
            \/ /\ ~ Pop(w) /\ UNCHANGED <<msgQ, msg>>
               /\ wpc[w] \notin {"idle", "release"} /\ wpc'[w] # "idle"
            \/ /\ Release(w) /\ UNCHANGED msgQ
               /\ wpc[w] = "release" /\ wpc'[w] = "idle"
<1>0. TypeOK
  BY DEF IInv
<1>1. CASE Pop(w)
  BY <1>0, <1>1 DEF Pop, Goto, TypeOK
<1>2. CASE Release(w)
  BY <1>0, <1>2 DEF Release, Goto, TypeOK
<1>3. ASSUME \/ Find(w) \/ Check(w) \/ Recv(w) \/ Line(w) \/ Do(w) \/ Rearm(w)
             \/ Send(w) \/ Sent(w) \/ CloseSent(w) \/ More(w)
      PROVE  /\ UNCHANGED <<msgQ, msg>> /\ wpc[w] \notin {"idle", "release"} /\ wpc'[w] # "idle"
             /\ \A v \in Workers \ {w} : wpc'[v] = wpc[v] /\ opCl'[v] = opCl[v]
  <2>1. CASE Find(w) \/ Check(w) \/ Rearm(w)
    BY <1>0, <2>1 DEF Find, Check, Rearm, Goto, TypeOK
  <2>2. CASE Recv(w)
    BY <1>0, <2>2 DEF Recv, Goto, AfterError, TypeOK
  <2>3. CASE Line(w)
    BY <1>0, <2>3 DEF Line, Goto, TypeOK
  <2>4. CASE Do(w)
    BY <1>0, <2>4 DEF Do, Goto, TypeOK
  <2>5. CASE Send(w) \/ Sent(w) \/ CloseSent(w) \/ More(w)
    BY <1>0, <2>5 DEF Send, Sent, CloseSent, More, Goto, TypeOK
  <2> QED
    BY <1>3, <2>1, <2>2, <2>3, <2>4, <2>5
<1>4. wpc[w] # "idle" => ~ Pop(w)
  BY DEF Pop
<1> QED
  BY <1>1, <1>2, <1>3, <1>4 DEF WorkerNext

(* Every step keeps the messages meant for an accepted client at its own   *)
(* descriptor.                                                             *)
LEMMA MessagesGoodStep ==
  ASSUME IInv, ReaderInv, [Next]_vars
  PROVE  MessagesGood'
<1>0. KnotesOK /\ MessagesGood /\ OwnUdata
  BY DEF ReaderInv
<1>1. \A m : Good(m) => Good(m)'
  BY IdsStay DEF Good
<1>2. CASE /\ UNCHANGED <<msgQ, msg, wpc>> /\ batch' \subseteq batch
           /\ mpc' = "push" => mpc = "push" /\ regMsg' = regMsg
  BY <1>0, <1>1, <1>2 DEF MessagesGood, Good
<1>3. CASE \/ Take \/ DispatchError \/ DispatchAccept \/ DispatchDone \/ PeerNext
           \/ UNCHANGED vars
  <2>1. CASE Take \/ DispatchError \/ DispatchAccept \/ DispatchDone
    BY <1>2, <2>1 DEF Take, DispatchError, DispatchAccept, DispatchDone, workerVars
  <2>2. CASE Connect \/ UNCHANGED vars
    BY <1>2, <2>2 DEF Connect, vars, mainVars, workerVars
  <2>3. CASE \E c \in Accepted : PeerSend(c) \/ PeerShut(c) \/ PeerReset(c)
    BY <1>2, <2>3 DEF PeerSend, PeerShut, PeerReset, mainVars, workerVars
  <2> QED
    BY <1>3, <2>1, <2>2, <2>3 DEF PeerNext
<1>4. CASE Apply
  BY <1>0, <1>2, <1>4, ApplyFacts DEF Apply, workerVars, KnotesOK
<1>5. CASE Scan
  <2>1. UNCHANGED <<msgQ, msg, wpc, fdOf, idCnt>> /\ mpc' # "push"
    BY <1>5 DEF Scan, workerVars, clientVars
  <2>2. ASSUME NEW e \in batch', e.filt \in Filters PROVE Good(e)
    <3>1. PICK c \in Accepted : e = Event(e.filt, fdOf[c], c)
      BY <1>0, <1>5, <2>2, ScanFacts
    <3> QED
      BY <2>2, <3>1 DEF Good, Event
  <2> QED
    BY <1>0, <1>1, <2>1, <2>2 DEF MessagesGood, Good
<1>6. CASE DispatchDisable
  <2>1. /\ UNCHANGED <<msgQ, msg, wpc>>
        /\ \E e \in batch : Good(e) /\ batch' = batch \ {e} /\ regMsg' = e
    BY <1>0, <1>6, DisableRegisters DEF DispatchDisable, workerVars
  <2> QED
    BY <1>0, <1>1, <2>1 DEF MessagesGood, Good
<1>7. CASE DispatchPush
  <2>1. UNCHANGED <<msg, wpc, batch, fdOf, idCnt>> /\ mpc' # "push" /\ Good(regMsg)
    BY <1>0, <1>7 DEF DispatchPush, workerVars, MessagesGood, kernelVars, clientVars
  <2>2. \A i \in DOMAIN msgQ' : Good(msgQ'[i])
    BY <1>0, <1>7, <2>1, PushFacts DEF MessagesGood
  <2> QED
    BY <1>0, <2>1, <2>2 DEF MessagesGood, Good, Accepted
<1>8. ASSUME NEW w \in Workers, WorkerNext(w) PROVE MessagesGood'
  <2>1. UNCHANGED <<fdOf, idCnt, batch, regMsg, mpc>>
    BY <1>8, OthersKeep
  <2>2. \A i \in DOMAIN msgQ' : Good(msgQ'[i])
    BY <1>0, <1>8, WorkerMessages, PopFacts DEF MessagesGood
  <2>3. \A v \in Workers : wpc'[v] # "idle" => Good(msg'[v])
    <3>1. CASE Pop(w)
      <4>1. Good(msgQ[1]) /\ msg' = [msg EXCEPT ![w] = msgQ[1]]
        BY <1>0, <3>1, PopFacts DEF MessagesGood
      <4> QED
        BY <1>0, <1>8, <4>1, WorkerMessages DEF MessagesGood, IInv, TypeOK
    <3>2. CASE ~ Pop(w)
      BY <1>0, <1>8, <3>2, WorkerMessages DEF MessagesGood
    <3> QED
      BY <3>1, <3>2
  <2> QED
    BY <1>0, <2>1, <2>2, <2>3 DEF MessagesGood, Good, Accepted
<1> QED
  BY <1>3, <1>4, <1>5, <1>6, <1>7, <1>8 DEF Next, MainNext

------------------------------------------------------------------------------

(* Of a client that was never accepted there is no message anywhere.       *)
LEMMA Nowhere ==
  ASSUME KernelOK, MessagesGood, NEW c, c \notin Accepted, NEW f \in Filters
  PROVE  ~ AtBatch(f, c) /\ ~ Passed(f, c)
<1>1. \A m : Good(m) => ~ Is(m, f, c)
  BY DEF Good, Is
<1>2. \A m : Is(m, f, c) => m.filt \in Filters
  BY DEF Is
<1>3. ~ AtBatch(f, c) /\ ~ AtQueue(f, c) /\ ~ AtHand(f, c)
  BY <1>1, <1>2 DEF MessagesGood, AtBatch, AtQueue, AtHand, InHands
<1>4. ~ AtReg(f, c)
  <2>1. CASE mpc = "push"
    BY <1>1, <2>1 DEF MessagesGood, AtReg
  <2>2. CASE mpc # "push"
    BY <2>2 DEF KernelOK, AtReg, Is, NoMsg, Filters
  <2> QED
    BY <2>1, <2>2
<1> QED
  BY <1>3, <1>4 DEF Passed

(* A worker stays on the side, reading or writing, of the message it       *)
(* took.                                                                   *)
LEMMA RolesStep ==
  ASSUME IInv, ReaderInv, [Next]_vars
  PROVE  Roles'
<1>0. Roles /\ MessagesGood /\ TypeOK
  BY DEF ReaderInv, IInv
<1>1. CASE UNCHANGED <<wpc, msg>>
  BY <1>0, <1>1 DEF Roles
<1>2. CASE MainNext \/ PeerNext \/ UNCHANGED vars
  <2>1. CASE Take \/ Apply \/ Scan \/ DispatchError
    BY <1>1, <2>1 DEF Take, Apply, Scan, DispatchError, workerVars
  <2>2. CASE DispatchAccept \/ DispatchDisable \/ DispatchPush \/ DispatchDone
    BY <1>1, <2>2 DEF DispatchAccept, DispatchDisable, DispatchPush, DispatchDone, workerVars
  <2>3. CASE Connect \/ UNCHANGED vars
    BY <1>1, <2>3 DEF Connect, vars, workerVars
  <2>4. CASE \E c \in Accepted : PeerSend(c) \/ PeerShut(c) \/ PeerReset(c)
    BY <1>1, <2>4 DEF PeerSend, PeerShut, PeerReset, workerVars
  <2> QED
    BY <1>2, <2>1, <2>2, <2>3, <2>4 DEF MainNext, PeerNext
<1>3. ASSUME NEW w \in Workers, WorkerNext(w) PROVE Roles'
  <2>1. \A v \in Workers \ {w} : wpc'[v] = wpc[v] /\ msg'[v] = msg[v]
    BY <1>3, WorkerMessages
  <2> DEFINE Reads == {"recv", "lines", "cmd", "bye", "rearm"}
             Writes == {"send", "sent", "close", "more"}
  <2>2. CASE Pop(w) \/ Find(w) \/ Release(w)
    <3>1. wpc'[w] \notin Reads \cup Writes
      BY <1>0, <2>2 DEF Pop, Find, Release, Goto, TypeOK
    <3> QED
      BY <1>0, <2>1, <3>1 DEF Roles
  <2>3. CASE Check(w)
    <3>1. msg' = msg /\ msg[w].filt \in Filters /\ wpc' = [wpc EXCEPT ![w] =
            IF msg[w].filt = "WRITE" THEN "send"
            ELSE IF ustate[opCl[w]] = "UNAVAIL" THEN "release" ELSE "recv"]
      BY <1>0, <2>3 DEF Check, Goto, MessagesGood, Good
    <3>2. \/ msg'[w].filt = "WRITE" /\ wpc'[w] = "send"
          \/ msg'[w].filt = "READ" /\ wpc'[w] \in {"release", "recv"}
      BY <1>0, <3>1 DEF TypeOK, Filters
    <3> QED
      BY <1>0, <2>1, <3>2 DEF Roles
  <2>4. CASE Recv(w) \/ Line(w) \/ Do(w) \/ Rearm(w)
    <3>1. msg' = msg /\ wpc[w] \in Reads /\ wpc'[w] \in Reads \cup {"release"}
      <4>1. CASE Recv(w)
        BY <1>0, <4>1 DEF Recv, Goto, AfterError, TypeOK
      <4>2. CASE Line(w)
        BY <1>0, <4>2 DEF Line, Goto, TypeOK
      <4>3. CASE Do(w)
        BY <1>0, <4>3 DEF Do, Goto, TypeOK
      <4>4. CASE Rearm(w)
        BY <1>0, <4>4 DEF Rearm, Goto, TypeOK
      <4> QED
        BY <2>4, <4>1, <4>2, <4>3, <4>4
    <3> QED
      BY <1>0, <2>1, <3>1 DEF Roles
  <2>5. CASE Send(w) \/ Sent(w) \/ CloseSent(w) \/ More(w)
    <3>1. msg' = msg /\ wpc[w] \in Writes /\ wpc'[w] \in Writes \cup {"release"}
      BY <1>0, <2>5 DEF Send, Sent, CloseSent, More, Goto, TypeOK
    <3> QED
      BY <1>0, <2>1, <3>1 DEF Roles
  <2> QED
    BY <1>3, <2>2, <2>3, <2>4, <2>5 DEF WorkerNext
<1> QED
  BY <1>2, <1>3 DEF Next

(* No message moves.                                                       *)
LEMMA PlacesKept ==
  ASSUME KernelOK, MessagesGood, OneMessage,
         batch' \subseteq batch, regMsg' = regMsg, msgQ' = msgQ,
         \A w \in Workers : msg'[w] = msg[w] \/ wpc'[w] \in {"idle", "release"},
         \A w \in Workers : wpc'[w] \in {wpc[w], "idle", "release"} \/ wpc[w] \notin {"idle", "release"}
  PROVE  /\ OneMessage'
         /\ \A c \in Accepted' : Passed("READ", c)' => c \in Accepted /\ Passed("READ", c)
<1>1. \A c : /\ AtBatch("READ", c)' => AtBatch("READ", c)
             /\ AtReg("READ", c)' = AtReg("READ", c)
             /\ AtQueue("READ", c)' = AtQueue("READ", c)
             /\ \A w \in Workers : InHands(w, "READ", c)' => InHands(w, "READ", c)
  BY DEF AtBatch, AtReg, AtQueue, InHands, Is
<1>2. \A c : AtHand("READ", c)' => AtHand("READ", c)
  BY <1>1 DEF AtHand
<1>3. \A c : Passed("READ", c)' => Passed("READ", c)
  BY <1>1, <1>2 DEF Passed
<1>4. "READ" \in Filters
  BY DEF Filters
<1>5. ASSUME NEW c \in Accepted'
      PROVE /\ \A d, e \in batch' : Is(d, "READ", c) /\ Is(e, "READ", c) => d = e
            /\ \A i, j \in DOMAIN msgQ' : Is(msgQ'[i], "READ", c) /\ Is(msgQ'[j], "READ", c) => i = j
            /\ \A v, w \in Workers : InHands(v, "READ", c)' /\ InHands(w, "READ", c)' => v = w
            /\ AtBatch("READ", c)' => ~ Passed("READ", c)'
            /\ AtReg("READ", c)' => ~ AtQueue("READ", c)' /\ ~ AtHand("READ", c)'
            /\ AtQueue("READ", c)' => ~ AtHand("READ", c)'
  <2>1. CASE c \in Accepted
    BY <1>1, <1>2, <1>3, <2>1 DEF OneMessage
  <2>2. CASE c \notin Accepted
    <3>1. ~ AtBatch("READ", c) /\ ~ Passed("READ", c)
      BY <1>4, <2>2, Nowhere
    <3>2. /\ \A d \in batch' : ~ Is(d, "READ", c)
          /\ \A i \in DOMAIN msgQ' : ~ Is(msgQ'[i], "READ", c)
          /\ \A w \in Workers : ~ InHands(w, "READ", c)'
          /\ ~ AtBatch("READ", c)' /\ ~ AtReg("READ", c)' /\ ~ AtQueue("READ", c)'
      BY <1>1, <3>1 DEF AtBatch, AtQueue, AtHand, Passed
    <3> QED
      BY <3>2
  <2> QED
    BY <2>1, <2>2
<1>6. OneMessage'
  BY <1>5 DEF OneMessage, Is
<1> QED
  BY <1>3, <1>4, <1>6, Nowhere

------------------------------------------------------------------------------

(* The messages of READ events move one place at a time, and are passed on *)
(* by main only.                                                           *)
LEMMA OneMessageStep ==
  ASSUME IInv, ReaderInv, [Next]_vars
  PROVE  /\ OneMessage'
         /\ \A c \in Accepted' : Passed("READ", c)' =>
              /\ c \in Accepted
              /\ Passed("READ", c) \/ (DispatchDisable /\ Is(regMsg', "READ", c))
<1>0. KernelOK /\ MessagesGood /\ OneMessage /\ KnotesOK /\ OwnUdata /\ Disarmed
  BY DEF ReaderInv, KnotesOK
<1> DEFINE Goal == /\ OneMessage'
                   /\ \A c \in Accepted' : Passed("READ", c)' =>
                        /\ c \in Accepted
                        /\ Passed("READ", c) \/ (DispatchDisable /\ Is(regMsg', "READ", c))
<1>a. "READ" \in Filters
  BY DEF Filters
<1>1. ASSUME batch' \subseteq batch, regMsg' = regMsg, msgQ' = msgQ, msg' = msg, wpc' = wpc
      PROVE  Goal
  BY <1>0, <1>1, PlacesKept
<1>2. CASE Take \/ Apply \/ DispatchError \/ DispatchAccept \/ DispatchDone
  BY <1>1, <1>2 DEF Take, Apply, DispatchError, DispatchAccept, DispatchDone, workerVars
<1>3. CASE PeerNext \/ UNCHANGED vars
  <2>1. CASE Connect \/ UNCHANGED vars
    BY <1>1, <2>1 DEF Connect, vars, mainVars, workerVars
  <2>2. CASE \E c \in Accepted : PeerSend(c) \/ PeerShut(c) \/ PeerReset(c)
    BY <1>1, <2>2 DEF PeerSend, PeerShut, PeerReset, mainVars, workerVars
  <2> QED
    BY <1>3, <2>1, <2>2 DEF PeerNext
<1>4. CASE Scan
  <2>1. UNCHANGED <<regMsg, msgQ, msg, wpc, idCnt>>
    BY <1>4 DEF Scan, workerVars, clientVars
  <2>2. /\ \A c : AtReg("READ", c)' = AtReg("READ", c) /\ AtQueue("READ", c)' = AtQueue("READ", c)
        /\ \A c : \A w \in Workers : InHands(w, "READ", c)' = InHands(w, "READ", c)
        /\ Accepted' = Accepted
    BY <2>1 DEF AtReg, AtQueue, InHands, Accepted
  <2>3. \A c : AtHand("READ", c)' = AtHand("READ", c) /\ Passed("READ", c)' = Passed("READ", c)
    BY <2>2 DEF AtHand, Passed
  <2>4. ASSUME NEW e \in batch', NEW c, Is(e, "READ", c)
        PROVE  e = Event("READ", fdOf[c], c) /\ ~ Passed("READ", c)
    <3>1. PICK d \in Accepted : /\ Held(d) /\ Soon(d, "READ").st = "on"
                                /\ e = Event("READ", fdOf[d], d)
      BY <1>0, <1>a, <1>4, <2>4, ScanFacts DEF Is
    <3>2. d = c
      BY <2>4, <3>1 DEF Is, Event
    <3> QED
      BY <1>0, <3>1, <3>2 DEF Disarmed
  <2>5. ASSUME NEW c \in Accepted
        PROVE  /\ \A d, e \in batch' : Is(d, "READ", c) /\ Is(e, "READ", c) => d = e
               /\ AtBatch("READ", c)' => ~ Passed("READ", c)
    BY <2>4 DEF AtBatch, Is
  <2>6. OneMessage'
    BY <1>0, <2>1, <2>2, <2>3, <2>5 DEF OneMessage, Is
  <2> QED
    BY <2>2, <2>3, <2>6
<1>5. CASE DispatchDisable
  <2>1. PICK e \in batch : batch' = batch \ {e} /\ regMsg' = e /\ Good(e)
    BY <1>0, <1>5, DisableRegisters
  <2>2. UNCHANGED <<msgQ, msg, wpc, idCnt>> /\ regMsg = NoMsg
    BY <1>0, <1>5 DEF DispatchDisable, workerVars, clientVars, KernelOK
  <2>3. /\ \A c : AtQueue("READ", c)' = AtQueue("READ", c)
        /\ \A c : \A w \in Workers : InHands(w, "READ", c)' = InHands(w, "READ", c)
        /\ Accepted' = Accepted
    BY <2>2 DEF AtQueue, InHands, Accepted
  <2>4. \A c : /\ AtHand("READ", c)' = AtHand("READ", c)
               /\ AtReg("READ", c)' = Is(e, "READ", c)
               /\ ~ AtReg("READ", c)
    BY <2>1, <2>2, <2>3 DEF AtHand, AtReg, Is, NoMsg
  <2>5. ASSUME NEW c \in Accepted
        PROVE  /\ \A x, y \in batch' : Is(x, "READ", c) /\ Is(y, "READ", c) => x = y
               /\ \A i, j \in DOMAIN msgQ' : Is(msgQ'[i], "READ", c) /\ Is(msgQ'[j], "READ", c) => i = j
               /\ \A v, w \in Workers : InHands(v, "READ", c)' /\ InHands(w, "READ", c)' => v = w
               /\ AtBatch("READ", c)' => ~ Passed("READ", c)'
               /\ AtReg("READ", c)' => ~ AtQueue("READ", c)' /\ ~ AtHand("READ", c)'
               /\ AtQueue("READ", c)' => ~ AtHand("READ", c)'
    <3>1. \A x \in batch' : x \in batch /\ x # e
      BY <2>1
    <3>2. AtBatch("READ", c)' => AtBatch("READ", c) /\ ~ Is(e, "READ", c)
      BY <1>0, <2>1, <3>1 DEF AtBatch, OneMessage
    <3>3. Is(e, "READ", c) => AtBatch("READ", c)
      BY DEF AtBatch
    <3> QED
      BY <1>0, <2>2, <2>3, <2>4, <3>1, <3>2, <3>3 DEF OneMessage, Passed
  <2>6. OneMessage'
    BY <2>3, <2>5 DEF OneMessage, Is
  <2>7. \A c : Passed("READ", c)' => Passed("READ", c) \/ Is(regMsg', "READ", c)
    BY <2>1, <2>3, <2>4 DEF Passed
  <2> QED
    BY <1>5, <2>3, <2>6, <2>7
<1>6. CASE DispatchPush
  <2>1. UNCHANGED <<batch, msg, wpc, idCnt>> /\ regMsg' = NoMsg
    BY <1>6 DEF DispatchPush, workerVars, clientVars
  <2>2. /\ \A c : \A w \in Workers : InHands(w, "READ", c)' = InHands(w, "READ", c)
        /\ Accepted' = Accepted
        /\ \A c : ~ AtReg("READ", c)' /\ AtBatch("READ", c)' = AtBatch("READ", c)
    BY <2>1 DEF InHands, Accepted, AtReg, AtBatch, Is, NoMsg
  <2>3. \A c : /\ AtHand("READ", c)' = AtHand("READ", c)
               /\ AtQueue("READ", c)' => AtQueue("READ", c) \/ AtReg("READ", c)
    BY <1>6, <2>2, PushFacts DEF AtHand, AtQueue, AtReg
  <2>4. ASSUME NEW c \in Accepted
        PROVE  /\ \A x, y \in batch' : Is(x, "READ", c) /\ Is(y, "READ", c) => x = y
               /\ \A i, j \in DOMAIN msgQ' : Is(msgQ'[i], "READ", c) /\ Is(msgQ'[j], "READ", c) => i = j
               /\ \A v, w \in Workers : InHands(v, "READ", c)' /\ InHands(w, "READ", c)' => v = w
               /\ AtBatch("READ", c)' => ~ Passed("READ", c)'
               /\ AtReg("READ", c)' => ~ AtQueue("READ", c)' /\ ~ AtHand("READ", c)'
               /\ AtQueue("READ", c)' => ~ AtHand("READ", c)'
    <3>1. ASSUME NEW i \in DOMAIN msgQ', NEW j \in DOMAIN msgQ',
                 Is(msgQ'[i], "READ", c), Is(msgQ'[j], "READ", c), i # j
          PROVE  FALSE
      <4> DEFINE n == Len(msgQ) + 1
      <4>1. /\ i = n \/ (i \in DOMAIN msgQ /\ msgQ'[i] = msgQ[i])
            /\ j = n \/ (j \in DOMAIN msgQ /\ msgQ'[j] = msgQ[j])
            /\ msgQ'[n] = regMsg
        BY <1>6, PushFacts
      <4> HIDE DEF n
      <4>2. CASE i # n /\ j # n
        BY <1>0, <3>1, <4>1, <4>2 DEF OneMessage
      <4>3. CASE i = n \/ j = n
        <5>1. AtReg("READ", c) /\ AtQueue("READ", c)
          BY <3>1, <4>1, <4>3 DEF AtReg, AtQueue
        <5> QED
          BY <1>0, <5>1 DEF OneMessage
      <4> QED
        BY <4>2, <4>3
    <3> QED
      BY <1>0, <2>1, <2>2, <2>3, <3>1 DEF OneMessage, Passed
  <2>5. OneMessage'
    BY <2>2, <2>4 DEF OneMessage, Is
  <2>6. \A c : Passed("READ", c)' => Passed("READ", c)
    BY <2>2, <2>3 DEF Passed
  <2> QED
    BY <2>2, <2>5, <2>6
<1>7. ASSUME NEW w \in Workers, Pop(w) PROVE Goal
  <2>1. UNCHANGED <<batch, regMsg, idCnt>>
    BY <1>7 DEF Pop, mainVars, clientVars
  <2>2. /\ 1 \in DOMAIN msgQ /\ msg' = [msg EXCEPT ![w] = msgQ[1]]
        /\ \A i \in DOMAIN msgQ' : i + 1 \in DOMAIN msgQ /\ msgQ'[i] = msgQ[i + 1] /\ i \in Nat \ {0}
    BY <1>7, PopFacts
  <2>3. /\ wpc[w] = "idle" /\ \A v \in Workers \ {w} : msg'[v] = msg[v] /\ wpc'[v] = wpc[v]
        /\ msg'[w] = msgQ[1]
    BY <1>7, <2>2, WorkerMessages DEF WorkerNext, IInv, TypeOK, Pop
  <2>4. /\ Accepted' = Accepted
        /\ \A c : AtReg("READ", c)' = AtReg("READ", c) /\ AtBatch("READ", c)' = AtBatch("READ", c)
        /\ \A c : \A v \in Workers \ {w} : InHands(v, "READ", c)' = InHands(v, "READ", c)
        /\ \A c : InHands(w, "READ", c)' => Is(msgQ[1], "READ", c)
        /\ \A c : ~ InHands(w, "READ", c)
    BY <2>1, <2>3 DEF Accepted, AtReg, AtBatch, InHands, Is
  <2>5. \A c : /\ AtHand("READ", c)' => AtHand("READ", c) \/ Is(msgQ[1], "READ", c)
               /\ AtQueue("READ", c)' => AtQueue("READ", c)
               /\ Is(msgQ[1], "READ", c) => AtQueue("READ", c)
    BY <2>2, <2>4 DEF AtHand, AtQueue
  <2>6. ASSUME NEW c \in Accepted
        PROVE  /\ \A x, y \in batch' : Is(x, "READ", c) /\ Is(y, "READ", c) => x = y
               /\ \A i, j \in DOMAIN msgQ' : Is(msgQ'[i], "READ", c) /\ Is(msgQ'[j], "READ", c) => i = j
               /\ \A v, u \in Workers : InHands(v, "READ", c)' /\ InHands(u, "READ", c)' => v = u
               /\ AtBatch("READ", c)' => ~ Passed("READ", c)'
               /\ AtReg("READ", c)' => ~ AtQueue("READ", c)' /\ ~ AtHand("READ", c)'
               /\ AtQueue("READ", c)' => ~ AtHand("READ", c)'
    <3>1. \A i, j \in DOMAIN msgQ' : Is(msgQ'[i], "READ", c) /\ Is(msgQ'[j], "READ", c) => i = j
      <4> SUFFICES ASSUME NEW i \in DOMAIN msgQ', NEW j \in DOMAIN msgQ',
                          Is(msgQ'[i], "READ", c), Is(msgQ'[j], "READ", c)
                   PROVE  i = j
        OBVIOUS
      <4>1. i + 1 \in DOMAIN msgQ /\ j + 1 \in DOMAIN msgQ /\ i \in Nat /\ j \in Nat
            /\ Is(msgQ[i + 1], "READ", c) /\ Is(msgQ[j + 1], "READ", c)
        BY <2>2
      <4>2. i + 1 = j + 1
        BY <1>0, <4>1 DEF OneMessage
      <4> QED
        BY <4>1, <4>2
    <3>2. \A v, u \in Workers : InHands(v, "READ", c)' /\ InHands(u, "READ", c)' => v = u
      <4>1. CASE Is(msgQ[1], "READ", c)
        <5>1. ~ AtHand("READ", c)
          BY <1>0, <2>5, <4>1 DEF OneMessage
        <5> QED
          BY <2>4, <5>1 DEF AtHand
      <4>2. CASE ~ Is(msgQ[1], "READ", c)
        BY <1>0, <2>4, <4>2 DEF OneMessage
      <4> QED
        BY <4>1, <4>2
    <3>3. AtQueue("READ", c)' => ~ AtHand("READ", c)'
      <4> SUFFICES ASSUME AtQueue("READ", c)', Is(msgQ[1], "READ", c) PROVE FALSE
        BY <1>0, <2>5 DEF OneMessage
      <4>1. PICK i \in DOMAIN msgQ' : Is(msgQ'[i], "READ", c)
        BY DEF AtQueue, Is
      <4>2. i + 1 \in DOMAIN msgQ /\ Is(msgQ[i + 1], "READ", c) /\ i \in Nat \ {0}
        BY <2>2, <4>1
      <4>3. i + 1 = 1
        BY <1>0, <2>2, <4>2 DEF OneMessage
      <4> QED
        BY <4>2, <4>3
    <3> QED
      BY <1>0, <2>1, <2>4, <2>5, <3>1, <3>2, <3>3 DEF OneMessage, Passed
  <2>7. OneMessage'
    BY <2>4, <2>6 DEF OneMessage, Is
  <2>8. \A c : Passed("READ", c)' => Passed("READ", c)
    BY <2>4, <2>5 DEF Passed
  <2> QED
    BY <2>4, <2>7, <2>8
<1>8. ASSUME NEW w \in Workers, WorkerNext(w), ~ Pop(w) PROVE Goal
  <2>1. UNCHANGED <<batch, regMsg>>
    BY <1>8, OthersKeep
  <2>2. /\ msgQ' = msgQ
        /\ \A v \in Workers : msg'[v] = msg[v] \/ wpc'[v] \in {"idle", "release"}
        /\ \A v \in Workers : wpc'[v] \in {wpc[v], "idle", "release"} \/ wpc[v] \notin {"idle", "release"}
    BY <1>8, WorkerMessages
  <2> QED
    BY <1>0, <2>1, <2>2, PlacesKept
<1> QED
  BY <1>2, <1>3, <1>4, <1>5, <1>6, <1>7, <1>8 DEF Next, MainNext

------------------------------------------------------------------------------

(* What turns a knote on.                                                  *)
LEMMA EffOn ==
  ASSUME NEW k, NEW ch \in Changes, NEW fd, NEW f, Eff(k, ch, fd, f) # k,
         Eff(k, ch, fd, f).st = "on"
  PROVE  /\ ch.fd = fd /\ ch.filt = f /\ ch.op \in {"addEnable", "enable"}
         /\ Eff(k, ch, fd, f).udata = ch.udata
<1>1. ch.op \in {"addEnable", "addDisable", "enable", "disable", "delete"}
  BY DEF Changes
<1>2. CASE ch.fd # fd \/ ch.filt # f
  BY <1>2 DEF Eff
<1>3. CASE ch.fd = fd /\ ch.filt = f /\ ch.op = "addEnable"
  BY <1>3 DEF Eff
<1>4. CASE ch.fd = fd /\ ch.filt = f /\ ch.op = "addDisable"
  BY <1>4 DEF Eff
<1>5. CASE ch.fd = fd /\ ch.filt = f /\ ch.op = "enable"
  BY <1>5 DEF Eff
<1>6. CASE ch.fd = fd /\ ch.filt = f /\ ch.op = "disable"
  BY <1>6 DEF Eff
<1>7. CASE ch.fd = fd /\ ch.filt = f /\ ch.op = "delete"
  BY <1>7 DEF Eff, Absent
<1> QED
  BY <1>1, <1>2, <1>3, <1>4, <1>5, <1>6, <1>7

(* No change turns a knote of another client on.                           *)
OfItsOwn(d, ch) ==
  ch.fd = fdOf[d] /\ (ch.op = "delete" \/ (ch.op = "enable" /\ ch.udata = d))

TurnedOn(d, ch, c, f, k) ==
  LET e == Eff(k, ch, fdOf[c], f)
  IN  e # k /\ e.st = "on" => d = c /\ ch.op = "enable" /\ ch.filt = f /\ e.udata = c

TurnsOnOnly(d, ch) ==
  \A c \in Accepted : Held(c) => \A k, f : TurnedOn(d, ch, c, f, k)

(* A change made for one client turns on no knote but its own, and         *)
(* writes its own id into it.                                              *)
LEMMA OnByItsOwn ==
  ASSUME IInv, NEW d \in Accepted, NEW ch \in Changes, Held(d), OfItsOwn(d, ch)
  PROVE  TurnsOnOnly(d, ch)
<1> SUFFICES ASSUME NEW c \in Accepted, Held(c), NEW f, NEW k,
                    Eff(k, ch, fdOf[c], f) # k, Eff(k, ch, fdOf[c], f).st = "on"
             PROVE  /\ d = c /\ ch.op = "enable" /\ ch.filt = f
                    /\ Eff(k, ch, fdOf[c], f).udata = c
  BY DEF TurnsOnOnly, TurnedOn
<1>1. /\ ch.fd = fdOf[c] /\ ch.filt = f /\ ch.op \in {"addEnable", "enable"}
      /\ Eff(k, ch, fdOf[c], f).udata = ch.udata
  BY EffOn
<1>2. ch.fd = fdOf[d] /\ (ch.op = "delete" \/ (ch.op = "enable" /\ ch.udata = d))
  BY DEF OfItsOwn
<1>3. d = c
  BY <1>1, <1>2 DEF IInv, SlotsOK
<1> QED
  BY <1>1, <1>2, <1>3

(* Every step leaves each knote with the id of the client it is for.       *)
LEMMA OwnUdataStep ==
  ASSUME IInv, ReaderInv, [Next]_vars
  PROVE  OwnUdata'
<1>0. KnotesOK /\ MessagesGood /\ OwnUdata
  BY DEF ReaderInv
<1>1. ASSUME NEW c \in Accepted, Held(c), NEW f \in Filters
      PROVE  /\ Coming(c, f)'.st = "on" => Coming(c, f)'.udata = c
             /\ Soon(c, f)'.st = "on" => Soon(c, f)'.udata = c
  <2>0. /\ Coming(c, f).st = "on" => Coming(c, f).udata = c
        /\ Soon(c, f).st = "on" => Soon(c, f).udata = c
    BY <1>0, <1>1 DEF OwnUdata
  <2>1. CASE Quietly
    BY <1>1, <2>0, <2>1 DEF Quietly
  <2>2. CASE DispatchDisable
    <3>1. PICK e \in batch : Good(e) /\ Registers(Change(e.fd, e.filt, "disable", e.id))
      BY <1>0, <2>2, DisableRegisters
    <3> DEFINE ch == Change(e.fd, e.filt, "disable", e.id)
    <3>2. ch \in Changes /\ ch.op = "disable"
      <4>1. e.id \in Accepted /\ e.id \in Ids /\ e.fd = fdOf[e.id] /\ e.filt \in Filters
        BY <3>1, ConstantsAssumption DEF Good, IInv, TypeOK, Accepted, Ids
      <4> QED
        BY <4>1, ChangeOK DEF Change
    <3>3. Registers(ch)
      BY <3>1
    <3> HIDE DEF ch
    <3>4. /\ Coming(c, f)' = Eff(Coming(c, f), ch, fdOf[c], f)
          /\ Soon(c, f)' \in {Soon(c, f), Coming(c, f)'}
      BY <1>1, <3>3 DEF Registers
    <3>5. Coming(c, f)'.st = "on" => Coming(c, f)' = Coming(c, f)
      BY <3>2, <3>4, EffOn
    <3> QED
      BY <2>0, <3>4, <3>5
  <2>3. ASSUME NEW w \in Workers, NEW d \in Accepted, NEW ch \in Changes,
               Held(d), WorkerRegisters(w, d, ch), Registers(ch)
        PROVE  /\ Coming(c, f)'.st = "on" => Coming(c, f)'.udata = c
               /\ Soon(c, f)'.st = "on" => Soon(c, f)'.udata = c
    <3>0. TurnsOnOnly(d, ch)
      <4>1. OfItsOwn(d, ch)
        BY <2>3 DEF WorkerRegisters, Change, OfItsOwn
      <4> QED
        BY <2>3, <4>1, OnByItsOwn
    <3>1. /\ Coming(c, f)' = Eff(Coming(c, f), ch, fdOf[c], f)
          /\ Soon(c, f)' \in {Soon(c, f), Coming(c, f)'}
      BY <1>1, <2>3 DEF Registers
    <3>2. Coming(c, f)'.st = "on" => Coming(c, f)' = Coming(c, f) \/ Coming(c, f)'.udata = c
      <4> DEFINE k == Coming(c, f)
                 e == Eff(k, ch, fdOf[c], f)
      <4>0. TurnedOn(d, ch, c, f, k)
        <5> HIDE DEF k
        <5> QED
          BY <1>1, <3>0 DEF TurnsOnOnly
      <4>1. e # k /\ e.st = "on" => e.udata = c
        <5> HIDE DEF k
        <5> QED
          BY <4>0 DEF TurnedOn
      <4>2. Coming(c, f)' = e
        BY <3>1
      <4> HIDE DEF e
      <4> QED
        BY <4>1, <4>2
    <3> QED
      BY <2>0, <3>1, <3>2
  <2> QED
    BY <1>0, <2>1, <2>2, <2>3, MainQuiet, WorkerChanges, PeersQuiet DEF Next, MainNext
<1>2. CASE Accepted' = Accepted
  BY <1>1, <1>2, HeldStep DEF OwnUdata
<1>3. ASSUME NEW id \in Ids, Accepted' = Accepted \cup {id},
             \A f \in Filters :
               /\ Coming(id, f)' = [st |-> IF f = "READ" THEN "on" ELSE "off", udata |-> id]
               /\ Soon(id, f)' = Coming(id, f)'
      PROVE  OwnUdata'
  <2>1. \A f \in Filters : Coming(id, f)'.udata = id /\ Soon(id, f)'.udata = id
    BY <1>3
  <2> QED
    BY <1>1, <1>3, <2>1, HeldStep DEF OwnUdata
<1> QED
  BY <1>0, <1>2, <1>3, AcceptQuiet, IdsStay DEF Accepted

(* Every step keeps this: the knote is turned off before a message goes    *)
(* out, and turned on again only by the one worker that has it.            *)
LEMMA DisarmedStep ==
  ASSUME IInv, ReaderInv, [Next]_vars
  PROVE  Disarmed'
<1>0. /\ KnotesOK /\ MessagesGood /\ Roles /\ OneMessage /\ Disarmed
      /\ "READ" \in Filters
  BY DEF ReaderInv, Filters
<1> SUFFICES ASSUME NEW c \in Accepted', Held(c)', Passed("READ", c)'
             PROVE  Coming(c, "READ")'.st # "on" /\ Soon(c, "READ")'.st # "on"
  BY DEF Disarmed
<1>1. c \in Accepted /\ (Passed("READ", c) \/ (DispatchDisable /\ Is(regMsg', "READ", c)))
  BY OneMessageStep
<1>2. Held(c)
  BY <1>1, HeldStep
<1>3. CASE DispatchDisable
  <2>1. PICK e \in batch :
           Good(e) /\ regMsg' = e /\ Registers(Change(e.fd, e.filt, "disable", e.id))
    BY <1>0, <1>3, DisableRegisters
  <2> DEFINE ch == Change(e.fd, e.filt, "disable", e.id)
  <2>2. ch \in Changes /\ ch.op = "disable" /\ ch.fd = e.fd /\ ch.filt = e.filt
    <3>1. e.id \in Accepted /\ e.id \in Ids /\ e.fd = fdOf[e.id] /\ e.filt \in Filters
      BY <2>1, ConstantsAssumption DEF Good, IInv, TypeOK, Accepted, Ids
    <3> QED
      BY <3>1, ChangeOK DEF Change
  <2>3. Registers(ch)
    BY <2>1
  <2> HIDE DEF ch
  <2>4. Coming(c, "READ")' = Eff(Coming(c, "READ"), ch, fdOf[c], "READ")
    BY <1>0, <1>1, <1>2, <2>3 DEF Registers
  <2>5. Soon(c, "READ")' = Coming(c, "READ")'
    BY <1>3 DEF DispatchDisable, Soon
  <2>6. Coming(c, "READ")'.st = "on" => Coming(c, "READ")' = Coming(c, "READ")
    BY <2>2, <2>4, EffOn
  <2>7. CASE Passed("READ", c)
    BY <1>0, <1>1, <1>2, <2>5, <2>6, <2>7 DEF Disarmed
  <2>8. CASE Is(regMsg', "READ", c)
    <3>1. ch.fd = fdOf[c] /\ ch.filt = "READ"
      BY <2>1, <2>2, <2>8 DEF Is, Good
    <3>2. Eff(Coming(c, "READ"), ch, fdOf[c], "READ").st # "on"
      BY <2>2, <3>1 DEF Eff
    <3> QED
      BY <2>4, <2>5, <3>2
  <2> QED
    BY <1>1, <2>7, <2>8
<1>4. CASE ~ DispatchDisable
  <2>0. Coming(c, "READ").st # "on" /\ Soon(c, "READ").st # "on" /\ Passed("READ", c)
    BY <1>0, <1>1, <1>2, <1>4 DEF Disarmed
  <2>1. CASE Quietly
    BY <1>0, <1>1, <1>2, <2>0, <2>1 DEF Quietly
  <2>2. ASSUME NEW w \in Workers, NEW d \in Accepted, NEW ch \in Changes, WorkerNext(w),
               Held(d), WorkerRegisters(w, d, ch), Registers(ch)
        PROVE  Coming(c, "READ")'.st # "on" /\ Soon(c, "READ")'.st # "on"
    <3>0. TurnsOnOnly(d, ch)
      <4>1. OfItsOwn(d, ch)
        BY <2>2 DEF WorkerRegisters, Change, OfItsOwn
      <4> QED
        BY <2>2, <4>1, OnByItsOwn
    <3>1. /\ Coming(c, "READ")' = Eff(Coming(c, "READ"), ch, fdOf[c], "READ")
          /\ Soon(c, "READ")' \in {Soon(c, "READ"), Coming(c, "READ")'}
      BY <1>0, <1>1, <1>2, <2>2 DEF Registers
    <3>2. SUFFICES ASSUME Coming(c, "READ")'.st = "on" PROVE FALSE
      BY <2>0, <3>1
    <3>3. d = c /\ ch.op = "enable" /\ ch.filt = "READ"
      <4> DEFINE k == Coming(c, "READ")
                 e == Eff(k, ch, fdOf[c], "READ")
      <4>0. TurnedOn(d, ch, c, "READ", k)
        <5> HIDE DEF k
        <5> QED
          BY <1>1, <1>2, <3>0 DEF TurnsOnOnly
      <4>1. e # k /\ e.st = "on" => d = c /\ ch.op = "enable" /\ ch.filt = "READ"
        <5> HIDE DEF k
        <5> QED
          BY <4>0 DEF TurnedOn
      <4>2. e.st = "on" /\ k.st # "on"
        BY <2>0, <3>1, <3>2
      <4> HIDE DEF e, k
      <4> QED
        BY <4>1, <4>2
    <3>4. Rearm(w) /\ opCl[w] = c /\ wpc[w] = "rearm"
      BY <2>2, <3>3 DEF WorkerRegisters, Change, Rearm
    <3>5. InHands(w, "READ", c)
      BY <1>0, <3>4 DEF Roles, InHands, Is, IInv, AnswersItsOwn
    <3>6. wpc'[w] = "release" /\ msg' = msg /\ regMsg' = regMsg /\ msgQ' = msgQ
      BY <3>4 DEF Rearm, Goto, mainVars, IInv, TypeOK
    <3>7. ~ AtReg("READ", c) /\ ~ AtQueue("READ", c)
      BY <1>0, <1>1, <3>5 DEF OneMessage, AtHand
    <3>8. ~ AtReg("READ", c)' /\ ~ AtQueue("READ", c)'
      BY <3>6, <3>7 DEF AtReg, AtQueue
    <3>9. PICK v \in Workers : InHands(v, "READ", c)'
      BY <3>8 DEF Passed, AtHand
    <3>10. v # w
      BY <3>6, <3>9 DEF InHands
    <3>11. InHands(v, "READ", c)
      BY <2>2, <3>6, <3>9, <3>10, WorkerMessages DEF InHands
    <3> QED
      BY <1>0, <1>1, <3>5, <3>10, <3>11 DEF OneMessage
  <2> QED
    BY <1>0, <1>4, <2>1, <2>2, MainQuiet, WorkerChanges, PeersQuiet DEF Next, MainNext
<1> QED
  BY <1>3, <1>4

(* Before the first connection there is no knote and no message.           *)
LEMMA InitReader == Init => ReaderInv
<1> SUFFICES ASSUME Init PROVE ReaderInv
  OBVIOUS
<1>1. Accepted = {}
  BY DEF Init, Accepted
<1>2. KernelOK
  <2>1. knote \in KnoteTables
    BY DEF Init, KnoteTables, Knotes
  <2>2. <<>> \in Seq(Changes) /\ <<>> \in Seq(Errors)
    BY EmptySeq
  <2> QED
    BY <2>1, <2>2 DEF Init, KernelOK, ClosedErrors
<1>3. MessagesGood /\ Roles
  BY DEF Init, MessagesGood, Roles
<1> QED
  BY <1>1, <1>2, <1>3 DEF ReaderInv, KnotesOK, Settled, OneMessage, OwnUdata, Disarmed

(* The invariant of the messages is inductive.                             *)
LEMMA ReaderStep == IInv /\ ReaderInv /\ [Next]_vars => ReaderInv'
BY KernelStep, SettledStep, MessagesGoodStep, RolesStep, OneMessageStep, OwnUdataStep,
   DisarmedStep DEF ReaderInv, KnotesOK

(* In every state that is reached there is at most one message for each    *)
(* client and direction, and while there is one the knote is off.          *)
THEOREM ReaderInvariance == Spec => []ReaderInv
BY InitReader, ReaderStep, Invariance, PTL DEF Spec

(* A set of which all elements are one and the same has at most one.       *)
LEMMA AtMostOne ==
  ASSUME NEW S, \A x, y \in S : x = y
  PROVE  Cardinality(S) \in {0, 1}
<1>1. CASE S = {}
  BY <1>1, FS_EmptySet
<1>2. CASE S # {}
  <2>1. PICK x : S = {x}
    BY <1>2
  <2> QED
    BY <2>1, FS_Singleton
<1> QED
  BY <1>1, <1>2

(* OneReader: no two READ events of a client are on their way at once.     *)
THEOREM OneReaderAtATime == Spec => []OneReader
<1>1. IInv /\ ReaderInv => OneReader
  <2> SUFFICES ASSUME IInv, ReaderInv, NEW c \in Accepted PROVE InFlight("READ", c) <= 1
    BY DEF OneReader
  <2> DEFINE S1 == {e \in batch : e.filt = "READ" /\ e.id = c}
             S2 == {i \in DOMAIN msgQ : msgQ[i].filt = "READ" /\ msgQ[i].id = c}
             S3 == InHand("READ", c)
             r  == IF regMsg.filt = "READ" /\ regMsg.id = c THEN 1 ELSE 0
  <2>0. OneMessage
    BY DEF ReaderInv
  <2>1. /\ \A x, y \in S1 : x = y
        /\ \A x, y \in S2 : x = y
        /\ \A x, y \in S3 : x = y
    BY <2>0 DEF OneMessage, Is, InHands, InHand
  <2>2. /\ S1 # {} => r = 0 /\ S2 = {} /\ S3 = {}
        /\ r = 1 => S2 = {} /\ S3 = {}
        /\ S2 # {} => S3 = {}
        /\ r \in {0, 1}
    BY <2>0 DEF OneMessage, Is, InHands, InHand, AtBatch, AtReg, AtQueue, AtHand, Passed
  <2>3. InFlight("READ", c) = Cardinality(S1) + r + Cardinality(S2) + Cardinality(S3)
    BY DEF InFlight
  <2> HIDE DEF S1, S2, S3, r
  <2>4. /\ Cardinality(S1) \in {0, 1} /\ Cardinality(S2) \in {0, 1} /\ Cardinality(S3) \in {0, 1}
        /\ S1 = {} => Cardinality(S1) = 0
        /\ S2 = {} => Cardinality(S2) = 0
        /\ S3 = {} => Cardinality(S3) = 0
    BY <2>1, AtMostOne, FS_EmptySet
  <2> QED
    BY <2>2, <2>3, <2>4
<1> QED
  BY <1>1, Invariance, ReaderInvariance, PTL

(* The worker is between taking a READ event up and arming the knote again:*)
(* it receives, or runs the commands of the client.                        *)
Serving(w) == wpc[w] \in {"recv", "lines", "cmd", "bye", "rearm"}

(* cmd_proc takes no lock of the client it works for; what keeps two       *)
(* workers from running commands of one client at once is that a client    *)
(* has one READ event at a time.                                           *)
OneCommand ==
  \A v, w \in Workers : Serving(v) /\ Serving(w) /\ opCl[v] = opCl[w] => v = w

(* OneCommand: the commands of one client run one after the other.  The    *)
(* models of the commands rest on it.                                      *)
THEOREM CommandsOneByOne == Spec => []OneCommand
<1>1. IInv /\ ReaderInv => OneCommand
  <2> SUFFICES ASSUME IInv, ReaderInv, NEW v \in Workers, NEW w \in Workers,
                      Serving(v), Serving(w), opCl[v] = opCl[w]
               PROVE  v = w
    BY DEF OneCommand
  <2>1. /\ wpc[v] \notin {"idle", "find", "release"} /\ msg[v].filt = "READ"
        /\ wpc[w] \notin {"idle", "find", "release"} /\ msg[w].filt = "READ"
    BY DEF Serving, ReaderInv, Roles
  <2>2. opCl[v] = msg[v].id /\ opCl[w] = msg[w].id
    BY <2>1 DEF IInv, AnswersItsOwn
  <2>3. opCl[v] \in Accepted
    BY <2>1 DEF IInv, WorkersOK
  <2> DEFINE c == opCl[v]
  <2>4. InHands(v, "READ", c) /\ InHands(w, "READ", c)
    BY <2>1, <2>2 DEF InHands, Is
  <2> HIDE DEF c
  <2>5. c \in Accepted => (InHands(v, "READ", c) /\ InHands(w, "READ", c) => v = w)
    BY DEF ReaderInv, OneMessage
  <2> QED
    BY <2>3, <2>4, <2>5 DEF c
<1> QED
  BY <1>1, Invariance, ReaderInvariance, PTL

------------------------------------------------------------------------------

(***************************************************************************)
(* Nobody goes deaf: a client that stays has a READ event under way, or    *)
(* its knote comes on, or somebody is about to turn it on.                 *)
(***************************************************************************)

(* A client that is being removed, or is off the list already.             *)
Gone(c) == ~ (Staying(c) /\ c \in Listed)

(* What clients are while nobody has heard of them, and once they are off  *)
(* the list.                                                               *)
ClientsOK ==
  /\ ustate \in [Ids -> {"NEW", "LIVE", "UNAVAIL", "CLOSE"}]
  /\ outBuf \in [Ids -> Nat]
  /\ \A c \in Ids \ Accepted : ustate[c] = "NEW" /\ outBuf[c] = 0
  /\ \A c \in Listed : ustate[c] # "CLOSE"

(* What is left of a command: every step of a removal is of the client of  *)
(* the worker, and every step but the last comes with the next one.        *)
Shaped(s, c) ==
  \A i \in DOMAIN s :
    /\ s[i].op \in {"delete", "mark", "close", "register"} => s[i].cl = c
    /\ s[i].op \in {"delete", "mark", "append", "register"} =>
         i + 1 \in DOMAIN s /\ s[i + 1].cl = s[i].cl
    /\ s[i].op = "delete" => s[i + 1].op = "mark"
    /\ s[i].op = "append" => s[i + 1].op = "enable"
    /\ s[i].op \in {"delete", "register"} => i = 1
    /\ s[i].op = "close" => i = Len(s)

TodoShape ==
  \A w \in Workers :
    /\ Shaped(todo[w], opCl[w])
    /\ wpc[w] = "bye" => todo[w][Len(todo[w])].op = "close"

(* The steps that change the state of a client or the list.                *)
Marks(d) ==
  /\ clList' = clList
  /\ ustate' = IF d \in Listed THEN [ustate EXCEPT ![d] = "UNAVAIL"] ELSE ustate

Enrols(d) ==
  /\ clList' = clList
  /\ ustate' = [ustate EXCEPT ![d] = "LIVE"]

Closes(d) ==
  /\ clList' = [clList EXCEPT ![fdOf[d]] = None]
  /\ ustate' = IF d \in Listed THEN [ustate EXCEPT ![d] = "CLOSE"] ELSE ustate

Enters(id) ==
  /\ id \in Ids /\ id \notin Accepted /\ Accepted' = Accepted \cup {id}
  /\ fdOf'[id] \in Fds /\ Open(fdOf'[id]) = {}
  /\ clList' = [clList EXCEPT ![fdOf'[id]] = id]
  /\ ustate' = ustate

DoesTo(w, op, d) ==
  /\ Do(w) /\ wpc[w] \in {"cmd", "bye"} /\ d \in Accepted /\ Held(d)
  /\ Head(todo[w]).op = op /\ d = Head(todo[w]).cl

(* At the descriptor of a client that is referred to, the list has this    *)
(* client or none.                                                         *)
LEMMA OwnSlot ==
  ASSUME IInv, NEW c \in Accepted, Held(c)
  PROVE  /\ fdOf[c] \in Fds /\ clList[fdOf[c]] \in {c, None} /\ c # None /\ c \in Ids
         /\ c \in Listed <=> clList[fdOf[c]] = c
<1>1. fdOf[c] \in Fds /\ (clList[fdOf[c]] # None =>
        clList[fdOf[c]] \in Accepted /\ fdOf[clList[fdOf[c]]] = fdOf[c])
  BY DEF IInv, SlotsOK
<1>2. clList[fdOf[c]] # None => Held(clList[fdOf[c]])
  BY <1>1 DEF Held
<1>3. c # None /\ c \in Ids
  BY ConstantsAssumption DEF IInv, TypeOK, Accepted, None, Ids
<1> QED
  BY <1>1, <1>2, <1>3 DEF IInv, SlotsOK, Listed

(* close_client of a client that is referred to closes this one.           *)
LEMMA CloseAtOwn ==
  ASSUME IInv, NEW c \in Accepted, Held(c), CloseAt(fdOf[c])
  PROVE  Closes(c)
<1>1. /\ fdOf[c] \in Fds /\ clList[fdOf[c]] \in {c, None} /\ c # None
      /\ c \in Listed <=> clList[fdOf[c]] = c
  BY OwnSlot
<1> QED
  BY <1>1 DEF CloseAt, Closes

(* What the operations of a command do to the client lists: mark makes a   *)
(* client unavailable, register lets it in, close takes it off the list.   *)
LEMMA DoneTo ==
  ASSUME IInv, NEW w \in Workers, NEW op, NEW d, DoesTo(w, op, d)
  PROVE  /\ op = "mark" => Marks(d)
         /\ op = "register" => Enrols(d)
         /\ op = "close" => Closes(d)
         /\ op \notin {"mark", "register", "close"} => UNCHANGED <<clList, ustate>>
<1>1. Perform(op, d) /\ d \in Accepted /\ Held(d)
  BY DEF DoesTo, Do
<1>2. /\ fdOf[d] \in Fds /\ clList[fdOf[d]] \in {d, None} /\ d # None
      /\ d \in Listed <=> clList[fdOf[d]] = d
  BY <1>1, OwnSlot
<1>3. op = "mark" => Marks(d)
  BY <1>1, <1>2 DEF Perform, Marks
<1>4. op = "register" => Enrols(d)
  BY <1>1 DEF Perform, Enrols
<1>5. op = "close" => Closes(d)
  BY <1>1, CloseAtOwn DEF Perform
<1>6. op \notin {"mark", "register", "close"} => UNCHANGED <<clList, ustate>>
  BY <1>1 DEF Perform
<1> QED
  BY <1>3, <1>4, <1>5, <1>6

(* What a step does to the list and to the state of the clients.           *)
LEMMA ClientSteps ==
  ASSUME IInv, KnotesOK, [Next]_vars
  PROVE  \/ UNCHANGED <<clList, ustate>>
         \/ DispatchAccept /\ \E id \in Ids : Enters(id)
         \/ \E w \in Workers : \E d \in Accepted :
              \/ DoesTo(w, "mark", d) /\ Marks(d)
              \/ DoesTo(w, "register", d) /\ Enrols(d)
              \/ DoesTo(w, "close", d) /\ Closes(d)
              \/ CloseSent(w) /\ d = opCl[w] /\ Closes(d)
<1>0. TypeOK /\ KernelOK
  BY DEF IInv, KnotesOK
<1> USE DEF kernelVars, mainVars, clientVars, workerVars
<1>1. CASE DispatchError
  <2>1. CASE UNCHANGED <<clList, ustate>>
    BY <2>1
  <2>2. CASE Head(errs).errno # "ENOENT"
    <3>1. Head(errs) \in Errors /\ Open(Head(errs).fd) = {}
      BY <1>0, <1>1, <2>2, HeadOfErrors DEF DispatchError
    <3>2. Head(errs).fd \in Fds
      BY <3>1 DEF Errors
    <3>3. clList[Head(errs).fd] = None
      <4> SUFFICES ASSUME clList[Head(errs).fd] # None PROVE FALSE
        OBVIOUS
      <4>1. /\ clList[Head(errs).fd] \in Accepted
            /\ fdOf[clList[Head(errs).fd]] = Head(errs).fd
        BY <3>2 DEF IInv, SlotsOK
      <4>2. Held(clList[Head(errs).fd])
        BY <3>2 DEF Held
      <4> QED
        BY <3>1, <4>1, <4>2 DEF Open
    <3>4. CloseAt(Head(errs).fd)
      BY <1>1, <2>2 DEF DispatchError
    <3>5. clList' = [clList EXCEPT ![Head(errs).fd] = None] /\ ustate' = ustate
      BY <3>3, <3>4 DEF CloseAt
    <3> QED
      BY <1>0, <3>2, <3>3, <3>5 DEF TypeOK
  <2> QED
    BY <1>1, <2>1, <2>2 DEF DispatchError
<1>2. CASE DispatchAccept
  <2>1. ustate' = ustate
    BY <1>2 DEF DispatchAccept
  <2>2. \/ clList' = clList
        \/ \E id \in Ids : /\ id \notin Accepted /\ Accepted' = Accepted \cup {id}
                           /\ Open(fdOf'[id]) = {} /\ fdOf'[id] \in Fds
                           /\ clList' = [clList EXCEPT ![fdOf'[id]] = id]
    BY <1>2, AcceptQuiet
  <2> QED
    BY <1>2, <2>1, <2>2 DEF Enters
<1>3. CASE \/ Take \/ Apply \/ Scan \/ DispatchDisable \/ DispatchPush \/ DispatchDone
           \/ PeerNext \/ UNCHANGED vars
  BY <1>3 DEF Take, Apply, Scan, DispatchDisable, DispatchPush, DispatchDone,
              PeerNext, Connect, PeerSend, PeerShut, PeerReset, vars
<1>4. ASSUME NEW w \in Workers, Do(w)
      PROVE  \/ UNCHANGED <<clList, ustate>>
             \/ \E d \in Accepted :
                  \/ DoesTo(w, "mark", d) /\ Marks(d)
                  \/ DoesTo(w, "register", d) /\ Enrols(d)
                  \/ DoesTo(w, "close", d) /\ Closes(d)
  <2> DEFINE d == Head(todo[w]).cl
             op == Head(todo[w]).op
  <2>1. DoesTo(w, op, d) /\ d \in Accepted
    BY <1>4, HeadOfTodo DEF Do, DoesTo
  <2> HIDE DEF d, op
  <2>2. /\ op = "mark" => Marks(d)
        /\ op = "register" => Enrols(d)
        /\ op = "close" => Closes(d)
        /\ op \notin {"mark", "register", "close"} => UNCHANGED <<clList, ustate>>
    BY <2>1, DoneTo
  <2> QED
    BY <2>1, <2>2
<1>5. ASSUME NEW w \in Workers, CloseSent(w)
      PROVE  \E d \in Accepted : d = opCl[w] /\ Closes(d)
  <2>1. opCl[w] \in Accepted /\ Held(opCl[w])
    BY <1>5 DEF CloseSent, IInv, WorkersOK, Held
  <2> QED
    BY <1>5, <2>1, CloseAtOwn DEF CloseSent
<1>6. ASSUME NEW w \in Workers,
             \/ Pop(w) \/ Find(w) \/ Check(w) \/ Recv(w) \/ Line(w) \/ Rearm(w)
             \/ Send(w) \/ Sent(w) \/ More(w) \/ Release(w)
      PROVE  UNCHANGED <<clList, ustate>>
  BY <1>6 DEF Pop, Find, Check, Recv, Line, Rearm, Send, Sent, More, Release
<1> QED
  BY <1>1, <1>2, <1>3, <1>4, <1>5, <1>6 DEF Next, MainNext, WorkerNext

------------------------------------------------------------------------------

(* What a new command starts with.                                         *)
Starts(s, c) ==
  /\ s \in Seq(Ops) /\ Shaped(s, c)
  /\ \A i \in DOMAIN s :
       /\ s[i].op \in {"mark", "close"} => s[1].op = "delete"
       /\ s[i].op = "register" => ustate[c] = "NEW"
       /\ s[i].cl = c \/ (ustate[s[i].cl] = "LIVE" /\ s[i].cl \in Listed)

(* How the operations begin that a command or the end of a connection      *)
(* brings: their form is the one that Starts describes.                    *)
LEMMA CommandsStart ==
  ASSUME IInv, NEW c \in Accepted
  PROVE  /\ \A e \in Effects(c) : Starts(e, c)
         /\ Starts(Append(Removal(c), [op |-> "close", cl |-> c]), c)
         /\ \A s : s = Append(Removal(c), [op |-> "close", cl |-> c]) =>
              Len(s) = 3 /\ s[Len(s)].op = "close"
<1>1. Accepted \subseteq Ids
  BY ConstantsAssumption DEF IInv, TypeOK, Accepted, Ids
<1>2. ASSUME NEW d \in Accepted, d = c \/ (ustate[d] = "LIVE" /\ d \in Listed)
      PROVE  Starts(Output(d), c)
  <2> DEFINE a == Step("append", d)
             b == Step("enable", d)
             s == <<a, b>>
  <2>1. Output(d) = s
    BY <1>1, Commands
  <2>2. /\ a \in Ops /\ b \in Ops /\ a.op = "append" /\ b.op = "enable"
        /\ a.cl = d /\ b.cl = d
    BY <1>1 DEF Step, Ops
  <2> HIDE DEF a, b
  <2>3. s \in Seq(Ops) /\ Len(s) = 2 /\ DOMAIN s = 1..2 /\ s[1] = a /\ s[2] = b
    BY <2>2
  <2> HIDE DEF s
  <2>4. Shaped(s, c)
    BY <2>2, <2>3 DEF Shaped
  <2>5. \A i \in DOMAIN s : i = 1 \/ i = 2
    BY <2>3
  <2> QED
    BY <1>2, <2>1, <2>2, <2>3, <2>4, <2>5 DEF Starts
<1>3. ASSUME ustate[c] = "NEW" PROVE Starts(Registering(c), c)
  <2> DEFINE r == Step("register", c)
             a == Step("append", c)
             b == Step("enable", c)
             s == <<r, a, b>>
  <2>1. Registering(c) = s
    BY <1>1, Commands
  <2>2. /\ r \in Ops /\ a \in Ops /\ b \in Ops
        /\ r.op = "register" /\ a.op = "append" /\ b.op = "enable"
        /\ r.cl = c /\ a.cl = c /\ b.cl = c
    BY <1>1 DEF Step, Ops
  <2> HIDE DEF r, a, b
  <2>3. s \in Seq(Ops) /\ Len(s) = 3 /\ DOMAIN s = 1..3 /\ s[1] = r /\ s[2] = a /\ s[3] = b
    BY <2>2
  <2> HIDE DEF s
  <2>4. Shaped(s, c)
    BY <2>2, <2>3 DEF Shaped
  <2>5. \A i \in DOMAIN s : i = 1 \/ i = 2 \/ i = 3
    BY <2>3
  <2> QED
    BY <1>3, <2>1, <2>2, <2>3, <2>4, <2>5 DEF Starts
<1>4. Starts(Leaving(c), c)
  <2> DEFINE d == Step("delete", c)
             m == Step("mark", c)
             a == Step("append", c)
             b == Step("enable", c)
             s == <<d, m, a, b>>
  <2>1. Leaving(c) = s
    BY <1>1, Commands
  <2>2. /\ d \in Ops /\ m \in Ops /\ a \in Ops /\ b \in Ops
        /\ d.op = "delete" /\ m.op = "mark" /\ a.op = "append" /\ b.op = "enable"
        /\ d.cl = c /\ m.cl = c /\ a.cl = c /\ b.cl = c
    BY <1>1 DEF Step, Ops
  <2> HIDE DEF d, m, a, b
  <2>3. /\ s \in Seq(Ops) /\ Len(s) = 4 /\ DOMAIN s = 1..4
        /\ s[1] = d /\ s[2] = m /\ s[3] = a /\ s[4] = b
    BY <2>2
  <2> HIDE DEF s
  <2>4. Shaped(s, c)
    BY <2>2, <2>3 DEF Shaped
  <2>5. \A i \in DOMAIN s : i = 1 \/ i = 2 \/ i = 3 \/ i = 4
    BY <2>3
  <2> QED
    BY <2>1, <2>2, <2>3, <2>4, <2>5 DEF Starts
<1>5. /\ Starts(Append(Removal(c), [op |-> "close", cl |-> c]), c)
      /\ \A s : s = Append(Removal(c), [op |-> "close", cl |-> c]) =>
           Len(s) = 3 /\ s[Len(s)].op = "close"
  <2> DEFINE d == Step("delete", c)
             m == Step("mark", c)
             x == Step("close", c)
             s == <<d, m, x>>
  <2>1. Append(Removal(c), [op |-> "close", cl |-> c]) = s
    BY <1>1, Commands
  <2>2. /\ d \in Ops /\ m \in Ops /\ x \in Ops
        /\ d.op = "delete" /\ m.op = "mark" /\ x.op = "close"
        /\ d.cl = c /\ m.cl = c /\ x.cl = c
    BY <1>1 DEF Step, Ops
  <2> HIDE DEF d, m, x
  <2>3. s \in Seq(Ops) /\ Len(s) = 3 /\ DOMAIN s = 1..3 /\ s[1] = d /\ s[2] = m /\ s[3] = x
    BY <2>2
  <2> HIDE DEF s
  <2>4. Shaped(s, c)
    BY <2>2, <2>3 DEF Shaped
  <2>5. \A i \in DOMAIN s : i = 1 \/ i = 2 \/ i = 3
    BY <2>3
  <2>6. Starts(s, c)
    BY <2>2, <2>3, <2>4, <2>5 DEF Starts
  <2> QED
    BY <2>1, <2>2, <2>3, <2>6
<1>6. Starts(<<>>, c)
  BY EmptySeq DEF Starts, Shaped
<1>7. ASSUME NEW e \in Effects(c) PROVE Starts(e, c)
  <2>1. CASE e \in {<<>>, Leaving(c)}
    BY <1>4, <1>6, <2>1
  <2>2. CASE ustate[c] = "NEW" /\ e \in {Output(c), Registering(c)}
    BY <1>2, <1>3, <2>2
  <2>3. CASE \E d \in Accepted : clList[fdOf[d]] = d /\ ustate[d] = "LIVE" /\ e = Output(d)
    BY <1>2, <2>3 DEF Listed
  <2>4. e \in {<<>>, Leaving(c)} \/ (ustate[c] = "NEW" /\ e \in {Output(c), Registering(c)})
          \/ \E d \in Accepted : clList[fdOf[d]] = d /\ ustate[d] = "LIVE" /\ e = Output(d)
    BY <1>7 DEF Effects
  <2> QED
    BY <2>1, <2>2, <2>3, <2>4
<1> QED
  BY <1>5, <1>7

(* A step that does something leaves a shorter list.                       *)
LEMMA Shorter ==
  ASSUME NEW S, NEW s \in Seq(S), s # <<>>
  PROVE  Tail(s) # s
<1> DEFINE t == Tail(s)
<1>1. Len(t) = Len(s) - 1 /\ Len(s) \in Nat
  BY HeadTailProperties, LenProperties
<1> HIDE DEF t
<1>2. t # s
  BY <1>1
<1> QED
  BY <1>2 DEF t

(* How the list of steps of a worker changes.                              *)
LEMMA TodoSteps ==
  ASSUME IInv, [Next]_vars, NEW v \in Workers
  PROVE  \/ /\ todo'[v] = todo[v] /\ ~ Do(v)
            /\ todo[v] = <<>> => wpc'[v] \notin {"cmd", "bye"}
            /\ todo[v] # <<>> => opCl'[v] = opCl[v] /\ wpc'[v] = wpc[v]
         \/ /\ Do(v) /\ wpc[v] \in {"cmd", "bye"} /\ opCl'[v] = opCl[v]
            /\ todo'[v] = Tail(todo[v])
            /\ wpc'[v] = IF Len(todo[v]) > 1 THEN wpc[v]
                         ELSE IF wpc[v] = "cmd" THEN "lines" ELSE "release"
         \/ /\ ~ Do(v) /\ wpc[v] = "recv" /\ opCl'[v] = opCl[v] /\ opCl[v] \in Accepted
            /\ todo[v] = <<>> /\ wpc'[v] = "bye" /\ UNCHANGED ustate
            /\ todo'[v] = Append(Removal(opCl[v]), [op |-> "close", cl |-> opCl[v]])
         \/ /\ ~ Do(v) /\ wpc[v] = "lines" /\ opCl'[v] = opCl[v] /\ opCl[v] \in Accepted
            /\ todo[v] = <<>> /\ UNCHANGED ustate
            /\ \E e \in Effects(opCl[v]) :
                 todo'[v] = e /\ wpc'[v] = IF e = <<>> THEN "lines" ELSE "cmd"
<1>0. TypeOK /\ WorkersOK
  BY DEF IInv
<1> USE DEF kernelVars, mainVars, clientVars, workerVars
<1>1. wpc[v] \in {"cmd", "bye"} <=> todo[v] # <<>>
  BY <1>0 DEF WorkersOK
<1>2. CASE UNCHANGED <<todo, wpc, opCl>>
  <2>1. ~ Do(v)
    <3>1. Do(v) => todo'[v] = Tail(todo[v]) /\ todo[v] # <<>> /\ todo[v] \in Seq(Ops)
      BY <1>0, <1>1 DEF Do, TypeOK
    <3> QED
      BY <1>2, <3>1, Shorter
  <2> QED
    BY <1>1, <1>2, <2>1
<1>3. CASE MainNext \/ PeerNext \/ UNCHANGED vars
  BY <1>2, <1>3 DEF MainNext, Take, Apply, Scan, DispatchError, DispatchAccept,
     DispatchDisable, DispatchPush, DispatchDone, PeerNext, Connect, PeerSend, PeerShut,
     PeerReset, vars
<1>4. ASSUME NEW w \in Workers, Do(w)
      PROVE  /\ wpc[w] \in {"cmd", "bye"} /\ opCl' = opCl
             /\ todo'[w] = Tail(todo[w])
             /\ wpc'[w] = IF Len(todo[w]) > 1 THEN wpc[w]
                          ELSE IF wpc[w] = "cmd" THEN "lines" ELSE "release"
             /\ \A u \in Workers \ {w} : todo'[u] = todo[u] /\ wpc'[u] = wpc[u]
             /\ todo' = [todo EXCEPT ![w] = Tail(@)]
  BY <1>0, <1>4 DEF Do, Goto, TypeOK
<1>5. ASSUME NEW w \in Workers, ~ Do(w),
             \/ Pop(w) \/ Find(w) \/ Check(w) \/ Rearm(w)
             \/ Send(w) \/ Sent(w) \/ CloseSent(w) \/ More(w) \/ Release(w)
      PROVE  /\ wpc[w] \notin {"cmd", "bye"} /\ wpc'[w] \notin {"cmd", "bye"}
             /\ todo' = todo
             /\ \A u \in Workers \ {w} : opCl'[u] = opCl[u] /\ wpc'[u] = wpc[u]
  <2>1. CASE Pop(w) \/ Find(w) \/ Release(w)
    BY <1>0, <2>1 DEF Pop, Find, Release, Goto, TypeOK
  <2>2. CASE Check(w) \/ Rearm(w) \/ Send(w)
    BY <1>0, <2>2 DEF Check, Rearm, Send, Goto, TypeOK
  <2>3. CASE Sent(w) \/ CloseSent(w) \/ More(w)
    BY <1>0, <2>3 DEF Sent, CloseSent, More, Goto, TypeOK
  <2> QED
    BY <1>5, <2>1, <2>2, <2>3
<1>6. ASSUME NEW w \in Workers, Recv(w) \/ Line(w)
      PROVE  /\ wpc[w] \in {"recv", "lines"} /\ opCl' = opCl /\ opCl[w] \in Accepted
             /\ UNCHANGED ustate
             /\ \A u \in Workers \ {w} : todo'[u] = todo[u] /\ wpc'[u] = wpc[u]
             /\ \/ todo' = todo /\ wpc'[w] \in {"lines", "rearm"}
                \/ /\ wpc[w] = "recv" /\ wpc'[w] = "bye"
                   /\ todo'[w] = Append(Removal(opCl[w]), [op |-> "close", cl |-> opCl[w]])
                \/ /\ wpc[w] = "lines"
                   /\ \E e \in Effects(opCl[w]) :
                        todo'[w] = e /\ wpc'[w] = IF e = <<>> THEN "lines" ELSE "cmd"
  <2>1. opCl[w] \in Accepted
    BY <1>0, <1>6 DEF WorkersOK, Recv, Line
  <2>2. CASE Recv(w)
    BY <1>0, <2>1, <2>2 DEF Recv, Goto, AfterError, TypeOK
  <2>3. CASE Line(w)
    BY <1>0, <2>1, <2>3 DEF Line, Goto, TypeOK
  <2> QED
    BY <1>6, <2>2, <2>3
<1>7. ASSUME NEW w \in Workers, w # v, Do(v) PROVE ~ WorkerNext(w)
  <2>1. wpc[v] \in {"cmd", "bye"} /\ todo'[v] = Tail(todo[v])
    BY <1>4, <1>7
  <2>2. todo[v] \in Seq(Ops) /\ todo[v] # <<>>
    BY <1>0, <1>1, <2>1 DEF TypeOK
  <2>3. Tail(todo[v]) # todo[v]
    BY <2>2, Shorter
  <2>4. WorkerNext(w) => todo'[v] = todo[v]
    <3>1. Do(w) => todo'[v] = todo[v]
      BY <1>4, <1>7
    <3>2. Recv(w) \/ Line(w) => todo'[v] = todo[v]
      BY <1>6, <1>7
    <3> QED
      BY <1>5, <3>1, <3>2 DEF WorkerNext
  <2> QED
    BY <2>1, <2>3, <2>4
<1>8. ASSUME NEW w \in Workers, WorkerNext(w), w # v
      PROVE  /\ todo'[v] = todo[v] /\ ~ Do(v) /\ opCl'[v] = opCl[v] /\ wpc'[v] = wpc[v]
  <2>1. ~ Do(v)
    BY <1>7, <1>8
  <2>2. CASE Do(w)
    BY <1>4, <1>8, <2>1, <2>2
  <2>3. CASE Recv(w) \/ Line(w)
    BY <1>6, <1>8, <2>1, <2>3
  <2>4. CASE ~ Do(w) /\ ~ (Recv(w) \/ Line(w))
    BY <1>5, <1>8, <2>1, <2>4 DEF WorkerNext
  <2> QED
    BY <2>2, <2>3, <2>4
<1>9. CASE WorkerNext(v)
  <2>1. CASE Do(v)
    BY <1>4, <2>1
  <2>2. CASE Recv(v) \/ Line(v)
    BY <1>1, <1>6, <2>2 DEF Do
  <2>3. CASE ~ Do(v) /\ ~ (Recv(v) \/ Line(v))
    BY <1>1, <1>5, <1>9, <2>3 DEF WorkerNext
  <2> QED
    BY <2>1, <2>2, <2>3
<1> QED
  BY <1>1, <1>3, <1>8, <1>9 DEF Next

------------------------------------------------------------------------------

(* A knote that is deleted is not enabled again: the changes of a client   *)
(* that is there enable, disable and delete.                               *)
LEMMA EffFacts ==
  ASSUME NEW ch \in Changes, ch.op \in {"enable", "disable", "delete"}, NEW k, NEW fd, NEW f
  PROVE  /\ ch.fd # fd \/ ch.filt # f => Eff(k, ch, fd, f) = k
         /\ k.st = "absent" => Eff(k, ch, fd, f).st = "absent"
         /\ ch.op # "delete" /\ k.st # "absent" => Eff(k, ch, fd, f).st # "absent"
         /\ ch.op = "delete" /\ ch.fd = fd /\ ch.filt = f => Eff(k, ch, fd, f).st = "absent"
         /\ ch.op = "enable" /\ ch.fd = fd /\ ch.filt = f /\ k.st # "absent"
              => Eff(k, ch, fd, f).st = "on"
         /\ ch.op = "enable" /\ k.st = "on" => Eff(k, ch, fd, f).st = "on"
<1>1. CASE ch.fd # fd \/ ch.filt # f
  BY <1>1 DEF Eff
<1>2. CASE ch.fd = fd /\ ch.filt = f /\ ch.op = "enable"
  BY <1>2 DEF Eff
<1>3. CASE ch.fd = fd /\ ch.filt = f /\ ch.op = "disable"
  BY <1>3 DEF Eff
<1>4. CASE ch.fd = fd /\ ch.filt = f /\ ch.op = "delete"
  BY <1>4 DEF Eff, Absent
<1> QED
  BY <1>1, <1>2, <1>3, <1>4

(* Which steps register a change, and of whom.                             *)
Disables(e) ==
  /\ DispatchDisable /\ e \in batch /\ Good(e) /\ batch' = batch \ {e} /\ regMsg' = e
  /\ Change(e.fd, e.filt, "disable", e.id) \in Changes
  /\ Registers(Change(e.fd, e.filt, "disable", e.id))

WorkerDoes(w, d, ch) ==
  /\ WorkerNext(w) /\ d \in Accepted /\ Held(d) /\ ch \in Changes
  /\ WorkerRegisters(w, d, ch) /\ Registers(ch)
  /\ ch.fd = fdOf[d] /\ ch.op \in {"enable", "delete"}

(* All that may happen to the knotes in a step: nothing, main turns one    *)
(* off, or one worker turns one on or deletes it.                          *)
LEMMA KnoteSteps ==
  ASSUME IInv, ReaderInv, [Next]_vars
  PROVE  \/ Quietly
         \/ \E e \in batch : Disables(e)
         \/ \E w \in Workers : \E d, ch : WorkerDoes(w, d, ch)
<1>0. KnotesOK /\ MessagesGood
  BY DEF ReaderInv
<1>1. CASE \/ Take \/ Apply \/ Scan \/ DispatchError \/ DispatchAccept \/ DispatchPush
           \/ DispatchDone
  BY <1>0, <1>1, MainQuiet
<1>2. CASE DispatchDisable
  <2>1. PICK e \in batch : /\ Good(e) /\ batch' = batch \ {e} /\ regMsg' = e
                           /\ Registers(Change(e.fd, e.filt, "disable", e.id))
    BY <1>0, <1>2, DisableRegisters
  <2>2. e.id \in Accepted /\ e.id \in Ids /\ e.fd = fdOf[e.id] /\ e.filt \in Filters
    BY <2>1, ConstantsAssumption DEF Good, IInv, TypeOK, Accepted, Ids
  <2>3. Change(e.fd, e.filt, "disable", e.id) \in Changes
    BY <2>2, ChangeOK
  <2> QED
    BY <1>2, <2>1, <2>3 DEF Disables
<1>3. ASSUME NEW w \in Workers, WorkerNext(w)
      PROVE  Quietly \/ \E d, ch : WorkerDoes(w, d, ch)
  <2>1. \/ Quietly
        \/ \E d \in Accepted : \E ch \in Changes :
             Held(d) /\ WorkerRegisters(w, d, ch) /\ Registers(ch)
    BY <1>0, <1>3, WorkerChanges
  <2>2. \A d, ch : WorkerRegisters(w, d, ch) => ch.fd = fdOf[d] /\ ch.op \in {"enable", "delete"}
    BY DEF WorkerRegisters, Change
  <2> QED
    BY <1>3, <2>1, <2>2 DEF WorkerDoes
<1>4. CASE PeerNext \/ UNCHANGED vars
  BY <1>0, <1>4, PeersQuiet
<1> QED
  BY <1>1, <1>2, <1>3, <1>4 DEF Next, MainNext

(* What becomes of one knote of a client that is referred to.              *)
LEMMA KnoteOf ==
  ASSUME IInv, ReaderInv, [Next]_vars, NEW c \in Accepted, Held(c), NEW f \in Filters
  PROVE  /\ Soon(c, f)' \in {Soon(c, f), Coming(c, f), Coming(c, f)'}
         /\ Coming(c, f).st = "absent" => Coming(c, f)'.st = "absent"
         /\ \/ Coming(c, f)' = Coming(c, f)
            \/ \E e \in batch : Disables(e) /\ e.filt = f /\ e.fd = fdOf[c]
                                /\ (Coming(c, f).st # "absent" => Coming(c, f)'.st # "absent")
            \/ \E w \in Workers : \E ch :
                 /\ WorkerDoes(w, c, ch) /\ ch.filt = f
                 /\ ch.op = "delete" => Coming(c, f)'.st = "absent"
                 /\ ch.op = "enable" /\ Coming(c, f).st # "absent" => Coming(c, f)'.st = "on"
<1>1. CASE Quietly
  BY <1>1 DEF Quietly
<1>2. ASSUME NEW e \in batch, Disables(e)
      PROVE  /\ Soon(c, f)' \in {Soon(c, f), Coming(c, f)'}
             /\ Coming(c, f).st = "absent" => Coming(c, f)'.st = "absent"
             /\ Coming(c, f).st # "absent" => Coming(c, f)'.st # "absent"
             /\ Coming(c, f)' = Coming(c, f) \/ (e.filt = f /\ e.fd = fdOf[c])
  <2> DEFINE ch == Change(e.fd, e.filt, "disable", e.id)
  <2>1. Registers(ch) /\ ch \in Changes
    BY <1>2 DEF Disables
  <2>2. ch.op = "disable" /\ ch.fd = e.fd /\ ch.filt = e.filt
    BY DEF Change
  <2> HIDE DEF ch
  <2>3. /\ Coming(c, f)' = Eff(Coming(c, f), ch, fdOf[c], f)
        /\ Soon(c, f)' \in {Soon(c, f), Coming(c, f)'}
    BY <2>1 DEF Registers
  <2> DEFINE k == Coming(c, f)
             q == Coming(c, f)'
  <2>4. q = Eff(k, ch, fdOf[c], f)
    BY <2>3
  <2> HIDE DEF k, q
  <2>5. /\ ch.fd # fdOf[c] \/ ch.filt # f => q = k
        /\ k.st = "absent" => q.st = "absent"
        /\ k.st # "absent" => q.st # "absent"
    BY <2>1, <2>2, <2>4, EffFacts
  <2> QED
    BY <2>2, <2>3, <2>5 DEF k, q
<1>3. ASSUME NEW w \in Workers, NEW d, NEW ch, WorkerDoes(w, d, ch)
      PROVE  /\ Soon(c, f)' \in {Soon(c, f), Coming(c, f)'}
             /\ Coming(c, f).st = "absent" => Coming(c, f)'.st = "absent"
             /\ \/ Coming(c, f)' = Coming(c, f)
                \/ /\ d = c /\ ch.filt = f
                   /\ ch.op = "delete" => Coming(c, f)'.st = "absent"
                   /\ ch.op = "enable" /\ Coming(c, f).st # "absent" => Coming(c, f)'.st = "on"
  <2>1. /\ d \in Accepted /\ Held(d) /\ ch \in Changes /\ Registers(ch)
        /\ ch.fd = fdOf[d] /\ ch.op \in {"enable", "delete"}
    BY <1>3 DEF WorkerDoes
  <2>2. d # c => fdOf[d] # fdOf[c]
    BY <2>1 DEF IInv, SlotsOK
  <2>3. /\ Coming(c, f)' = Eff(Coming(c, f), ch, fdOf[c], f)
        /\ Soon(c, f)' \in {Soon(c, f), Coming(c, f)'}
    BY <2>1 DEF Registers
  <2> DEFINE k == Coming(c, f)
             q == Coming(c, f)'
  <2>4. q = Eff(k, ch, fdOf[c], f)
    BY <2>3
  <2> HIDE DEF k, q
  <2>5. /\ ch.fd # fdOf[c] \/ ch.filt # f => q = k
        /\ k.st = "absent" => q.st = "absent"
        /\ ch.op = "delete" /\ ch.fd = fdOf[c] /\ ch.filt = f => q.st = "absent"
        /\ ch.op = "enable" /\ ch.fd = fdOf[c] /\ ch.filt = f /\ k.st # "absent"
             => q.st = "on"
    BY <2>1, <2>4, EffFacts
  <2> QED
    BY <2>1, <2>2, <2>3, <2>5 DEF k, q
<1> QED
  BY <1>1, <1>2, <1>3, KnoteSteps

------------------------------------------------------------------------------

(* A removal first deletes the READ knote; only then does it mark or close *)
(* the client.  A client being removed does not register.                  *)
Removing ==
  \A w \in Workers : \A i \in DOMAIN todo[w] : \A c \in Accepted : todo[w][i].cl = c =>
    /\ todo[w][i].op \in {"mark", "close"} /\ todo[w][1].op # "delete" =>
         Coming(c, "READ").st = "absent"
    /\ todo[w][i].op = "register" => ustate[c] # "UNAVAIL"

(* A client that a write closes is being removed.                          *)
ClosingGone ==
  \A w \in Workers : \A c \in Accepted : wpc[w] = "close" /\ opCl[w] = c => Gone(c)

(* An event of a client that main has not yet passed to a worker is of one *)
(* that stays.                                                             *)
ReadableStay ==
  \A c \in Accepted :
    AtBatch("READ", c) \/ AtReg("READ", c) \/ AtQueue("READ", c) => ~ Gone(c)

(* No READ knote of a client that is gone is left.                         *)
GoneDeaf ==
  \A c \in Accepted : Held(c) /\ Gone(c) =>
    Coming(c, "READ").st = "absent" /\ Soon(c, "READ").st # "on"

(* A client that stays has a READ knote, unless its removal has begun.     *)
StayWatched ==
  \A c \in Accepted : ~ Gone(c) =>
    \/ Coming(c, "READ").st # "absent"
    \/ \E w \in Workers : \E i \in DOMAIN todo[w] :
         todo[w][i].op = "mark" /\ todo[w][i].cl = c

(* A client that stays has an event on its way or will have its knote on.  *)
NeverDeaf ==
  \A c \in Accepted : ~ Gone(c) =>
    AtBatch("READ", c) \/ Passed("READ", c) \/ Coming(c, "READ").st = "on"

WatchInv ==
  /\ ClientsOK /\ TodoShape /\ Removing /\ ClosingGone /\ ReadableStay /\ GoneDeaf
  /\ StayWatched /\ NeverDeaf

(* A worker that is at a command or a disconnection works on the client of *)
(* its READ event.                                                         *)
LEMMA AtWork ==
  ASSUME IInv, ReaderInv, NEW w \in Workers,
         wpc[w] \in {"recv", "lines", "cmd", "bye", "rearm"}
  PROVE  InHands(w, "READ", opCl[w]) /\ opCl[w] \in Accepted
<1>1. msg[w].filt = "READ" /\ opCl[w] = msg[w].id
  BY DEF ReaderInv, Roles, IInv, AnswersItsOwn
<1>2. opCl[w] \in Accepted
  BY DEF IInv, WorkersOK
<1> QED
  BY <1>1, <1>2 DEF InHands, Is

(* A worker that sends does so for a WRITE message of the client.          *)
LEMMA Writing ==
  ASSUME IInv, ReaderInv, NEW w \in Workers, wpc[w] \in {"send", "sent", "close", "more"}
  PROVE  InHands(w, "WRITE", opCl[w]) /\ opCl[w] \in Accepted
<1>1. msg[w].filt = "WRITE" /\ opCl[w] = msg[w].id
  BY DEF ReaderInv, Roles, IInv, AnswersItsOwn
<1>2. opCl[w] \in Accepted
  BY DEF IInv, WorkersOK
<1> QED
  BY <1>1, <1>2 DEF InHands, Is

(* The first step of a removal, a registration or a closing is of the      *)
(* client that the worker reads.                                           *)
LEMMA Doing ==
  ASSUME IInv, ReaderInv, WatchInv, NEW w \in Workers, NEW d, NEW op,
         DoesTo(w, op, d)
  PROVE  /\ 1 \in DOMAIN todo[w] /\ todo[w][1].op = op /\ todo[w][1].cl = d
         /\ op \in {"delete", "mark", "close", "register"} =>
              d = opCl[w] /\ InHands(w, "READ", d)
         /\ op \in {"mark", "close"} => Coming(d, "READ").st = "absent"
         /\ op = "register" => ustate[d] # "UNAVAIL"
<1>1. /\ wpc[w] \in {"cmd", "bye"} /\ Head(todo[w]).op = op /\ Head(todo[w]).cl = d
  BY DEF DoesTo
<1>2. /\ Head(todo[w]) = todo[w][1] /\ Len(todo[w]) \in Nat \ {0}
      /\ DOMAIN todo[w] = 1..Len(todo[w])
  BY <1>1, HeadOfTodo
<1>3. 1 \in DOMAIN todo[w] /\ todo[w][1].op = op /\ todo[w][1].cl = d
  BY <1>1, <1>2
<1>4. op \in {"delete", "mark", "close", "register"} => d = opCl[w]
  BY <1>3 DEF WatchInv, TodoShape, Shaped
<1>5. InHands(w, "READ", opCl[w])
  BY <1>1, AtWork
<1>6. /\ op \in {"mark", "close"} => Coming(d, "READ").st = "absent"
      /\ op = "register" => ustate[d] # "UNAVAIL"
  <2>1. d \in Accepted
    BY DEF DoesTo
  <2> QED
    BY <1>3, <2>1 DEF WatchInv, Removing
<1> QED
  BY <1>3, <1>4, <1>5, <1>6

------------------------------------------------------------------------------

(* Who is on the list after a step.                                        *)
LEMMA ListedAfter ==
  ASSUME IInv, [Next]_vars, NEW c \in Accepted
  PROVE  /\ c \in Accepted' /\ fdOf'[c] = fdOf[c]
         /\ c \in Listed' <=> clList'[fdOf[c]] = c
         /\ c \in Listed <=> clList[fdOf[c]] = c
<1>1. c \in Accepted' /\ fdOf'[c] = fdOf[c]
  BY IdsStay
<1> QED
  BY <1>1 DEF Listed

(* A client that is gone does not come back.                               *)
LEMMA GoneStays ==
  ASSUME IInv, ReaderInv, WatchInv, [Next]_vars, NEW c \in Accepted, Gone(c)
  PROVE  Gone(c)'
<1>0. /\ TypeOK /\ KnotesOK /\ ClientsOK /\ c \in Ids
      /\ ustate \in [Ids -> {"NEW", "LIVE", "UNAVAIL", "CLOSE"}]
  BY ConstantsAssumption DEF IInv, TypeOK, ReaderInv, WatchInv, ClientsOK, Accepted, Ids
<1>1. /\ fdOf'[c] = fdOf[c] /\ (c \in Listed' <=> clList'[fdOf[c]] = c)
      /\ c \in Listed <=> clList[fdOf[c]] = c
  BY ListedAfter
<1>2. fdOf[c] \in Fds /\ c # None /\ clList \in [Fds -> Ids \cup {None}]
  BY <1>0 DEF IInv, SlotsOK, TypeOK, None, Ids
<1>3. CASE UNCHANGED <<clList, ustate>>
  BY <1>1, <1>3 DEF Gone, Staying
<1>4. ASSUME NEW id \in Ids, Enters(id) PROVE Gone(c)'
  <2>1. id # c /\ clList' = [clList EXCEPT ![fdOf'[id]] = id] /\ ustate' = ustate
    BY <1>4 DEF Enters
  <2> QED
    BY <1>1, <1>2, <2>1 DEF Gone, Staying
<1>5. ASSUME NEW w \in Workers, NEW d \in Accepted, DoesTo(w, "mark", d), Marks(d)
      PROVE  Gone(c)'
  <2>1. ustate'[c] = ustate[c] \/ ustate'[c] = "UNAVAIL"
    BY <1>0, <1>5 DEF Marks
  <2> QED
    BY <1>1, <1>5, <2>1 DEF Gone, Staying, Marks
<1>6. ASSUME NEW w \in Workers, NEW d \in Accepted, DoesTo(w, "register", d), Enrols(d)
      PROVE  Gone(c)'
  <2>1. ustate[d] # "UNAVAIL"
    BY <1>6, Doing
  <2>2. CASE d = c
    <3>1. c \notin Listed
      BY <1>0, <2>1, <2>2 DEF Gone, Staying, ClientsOK
    <3> QED
      BY <1>1, <1>6, <3>1 DEF Gone, Enrols
  <2>3. CASE d # c
    <3>1. ustate'[c] = ustate[c]
      BY <1>0, <1>6, <2>3 DEF Enrols
    <3> QED
      BY <1>1, <1>6, <3>1 DEF Gone, Staying, Enrols
  <2> QED
    BY <2>2, <2>3
<1>7. ASSUME NEW d \in Accepted, Closes(d)
      PROVE  Gone(c)'
  <2>1. ustate'[c] = ustate[c] \/ ustate'[c] = "CLOSE"
    BY <1>0, <1>7 DEF Closes
  <2>2. clList'[fdOf[c]] \in {clList[fdOf[c]], None}
    BY <1>2, <1>7 DEF Closes
  <2> QED
    BY <1>1, <1>2, <2>1, <2>2 DEF Gone, Staying
<1> QED
  BY <1>0, <1>3, <1>4, <1>5, <1>6, <1>7, ClientSteps

(* A client goes only when the worker that reads it removes it, after the  *)
(* deletion of its READ knote is on its way.                               *)
LEMMA GoesOnly ==
  ASSUME IInv, ReaderInv, WatchInv, [Next]_vars, NEW c \in Accepted, ~ Gone(c), Gone(c)'
  PROVE  \E w \in Workers :
           /\ DoesTo(w, "mark", c) \/ DoesTo(w, "close", c)
           /\ Quietly /\ Coming(c, "READ").st = "absent" /\ InHands(w, "READ", c)
<1>0. /\ TypeOK /\ KnotesOK /\ ClientsOK /\ c \in Ids
      /\ ustate \in [Ids -> {"NEW", "LIVE", "UNAVAIL", "CLOSE"}]
  BY ConstantsAssumption DEF IInv, TypeOK, ReaderInv, WatchInv, ClientsOK, Accepted, Ids
<1>1. /\ fdOf'[c] = fdOf[c] /\ (c \in Listed' <=> clList'[fdOf[c]] = c)
      /\ c \in Listed <=> clList[fdOf[c]] = c
  BY ListedAfter
<1>2. /\ fdOf[c] \in Fds /\ c # None /\ clList \in [Fds -> Ids \cup {None}]
      /\ c \in Listed /\ Staying(c) /\ clList[fdOf[c]] = c
  BY <1>0, <1>1 DEF IInv, SlotsOK, TypeOK, None, Ids, Gone
<1>3. Held(c)
  BY <1>2 DEF Held
<1>4. ~ UNCHANGED <<clList, ustate>>
  BY <1>1, <1>2 DEF Gone, Staying
<1>5. ASSUME NEW id \in Ids, Enters(id) PROVE FALSE
  <2>1. /\ id # c /\ clList' = [clList EXCEPT ![fdOf'[id]] = id] /\ ustate' = ustate
        /\ Open(fdOf'[id]) = {}
    BY <1>5 DEF Enters
  <2>2. fdOf'[id] # fdOf[c]
    BY <1>3, <2>1 DEF Open
  <2> QED
    BY <1>1, <1>2, <2>1, <2>2 DEF Gone, Staying
<1>6. ASSUME NEW d \in Accepted, Marks(d), d # c PROVE FALSE
  BY <1>0, <1>1, <1>2, <1>6 DEF Gone, Staying, Marks
<1>7. ASSUME NEW d \in Accepted, Enrols(d) PROVE FALSE
  <2>1. ustate'[c] = ustate[c] \/ ustate'[c] = "LIVE"
    BY <1>0, <1>7 DEF Enrols
  <2> QED
    BY <1>1, <1>2, <1>7, <2>1 DEF Gone, Staying, Enrols
<1>8. ASSUME NEW d \in Accepted, Closes(d), Held(d), d # c PROVE FALSE
  <2>1. fdOf[d] # fdOf[c]
    BY <1>3, <1>8 DEF IInv, SlotsOK
  <2>2. ustate'[c] = ustate[c] /\ clList'[fdOf[c]] = c
    BY <1>0, <1>2, <1>8, <2>1 DEF Closes
  <2> QED
    BY <1>1, <1>2, <2>2 DEF Gone, Staying
<1>9. ASSUME NEW w \in Workers, CloseSent(w), Closes(opCl[w]) PROVE FALSE
  <2>1. wpc[w] = "close" /\ opCl[w] \in Accepted /\ Held(opCl[w])
    BY <1>9 DEF CloseSent, IInv, WorkersOK, Held
  <2>2. Gone(opCl[w])
    BY <2>1 DEF WatchInv, ClosingGone
  <2>3. opCl[w] # c
    BY <2>2
  <2> QED
    BY <1>8, <1>9, <2>1, <2>3
<1>10. PICK w \in Workers : DoesTo(w, "mark", c) \/ DoesTo(w, "close", c)
  <2>1. ASSUME NEW w \in Workers, NEW d \in Accepted, DoesTo(w, "close", d), Closes(d)
        PROVE  d = c
    <3>1. Held(d)
      BY <2>1 DEF DoesTo
    <3> QED
      BY <1>8, <2>1, <3>1
  <2> QED
    BY <1>0, <1>4, <1>5, <1>6, <1>7, <1>9, <2>1, ClientSteps
<1>11. /\ InHands(w, "READ", c) /\ Coming(c, "READ").st = "absent"
       /\ todo[w][1].op \in {"mark", "close"} /\ todo[w][1] = Head(todo[w])
  <2>1. wpc[w] \in {"cmd", "bye"}
    BY <1>10 DEF DoesTo
  <2> QED
    BY <1>10, <2>1, Doing, HeadOfTodo
<1>12. Quietly
  <2>1. /\ WorkerNext(w) /\ wpc[w] \in {"cmd", "bye"}
        /\ Head(todo[w]).op \notin {"enable", "delete"}
    BY <1>10 DEF DoesTo, WorkerNext
  <2>2. \A d, ch : ~ WorkerRegisters(w, d, ch)
    BY <2>1 DEF WorkerRegisters, Rearm, More
  <2> QED
    BY <1>0, <2>1, <2>2, WorkerChanges
<1> QED
  BY <1>10, <1>11, <1>12

(* The mark and the closing of a client make it go.                        *)
LEMMA RemovedGoes ==
  ASSUME IInv, WatchInv, [Next]_vars, NEW c \in Accepted, NEW w \in Workers,
         DoesTo(w, "mark", c) \/ DoesTo(w, "close", c)
  PROVE  /\ Gone(c)'
         /\ DoesTo(w, "close", c) => c \notin Listed'
<1>1. /\ fdOf'[c] = fdOf[c] /\ (c \in Listed' <=> clList'[fdOf[c]] = c)
      /\ c \in Listed <=> clList[fdOf[c]] = c
  BY ListedAfter
<1>2. Held(c)
  BY DEF DoesTo
<1>3. fdOf[c] \in Fds /\ c # None /\ clList \in [Fds -> Ids \cup {None}] /\ c \in Ids
  BY <1>2, OwnSlot DEF IInv, TypeOK
<1>4. ASSUME DoesTo(w, "mark", c) PROVE Gone(c)'
  <2>1. Marks(c)
    BY <1>4, DoneTo
  <2>2. c \in Listed => ustate'[c] # "LIVE" /\ ustate'[c] # "NEW"
    <3>1. c \in Listed => ustate' = [ustate EXCEPT ![c] = "UNAVAIL"]
      BY <2>1 DEF Marks
    <3>2. DOMAIN ustate = Ids
      BY DEF WatchInv, ClientsOK
    <3> QED
      BY <1>3, <3>1, <3>2
  <2> QED
    BY <1>1, <2>1, <2>2 DEF Gone, Staying, Marks
<1>5. ASSUME DoesTo(w, "close", c) PROVE c \notin Listed'
  <2>1. Closes(c)
    BY <1>5, DoneTo
  <2>2. clList'[fdOf[c]] = None
    BY <1>3, <2>1 DEF Closes
  <2> QED
    BY <1>1, <1>3, <2>2
<1> QED
  BY <1>4, <1>5 DEF Gone

------------------------------------------------------------------------------

(* What a step does to the output buffers.                                 *)
Empties(d) == outBuf' = IF d \in Listed THEN [outBuf EXCEPT ![d] = 0] ELSE outBuf

(* All that may happen to the output buffers: a command appends, a close   *)
(* empties, a send takes out what went through.                            *)
LEMMA OutSteps ==
  ASSUME IInv, KnotesOK, ClientsOK, [Next]_vars
  PROVE  \/ outBuf' = outBuf
         \/ \E w \in Workers : \E d \in Accepted :
              \/ DoesTo(w, "append", d) /\ outBuf' = [outBuf EXCEPT ![d] = @ + 1]
              \/ DoesTo(w, "close", d) /\ Closes(d) /\ Empties(d)
              \/ CloseSent(w) /\ d = opCl[w] /\ Closes(d) /\ Empties(d)
              \/ /\ Send(w) /\ d = opCl[w]
                 /\ \E n \in 0..outBuf[d] : outBuf' = [outBuf EXCEPT ![d] = @ - n]
<1>0. TypeOK /\ KernelOK /\ outBuf \in [Ids -> Nat] /\ Accepted \subseteq Ids
  BY ConstantsAssumption DEF IInv, KnotesOK, ClientsOK, TypeOK, Accepted, Ids
<1> USE DEF kernelVars, mainVars, clientVars, workerVars
<1>1. CASE DispatchError
  <2>1. CASE outBuf' = outBuf
    BY <2>1
  <2>2. CASE Head(errs).errno # "ENOENT"
    <3>1. Head(errs) \in Errors /\ Open(Head(errs).fd) = {}
      BY <1>0, <1>1, <2>2, HeadOfErrors DEF DispatchError
    <3>2. Head(errs).fd \in Fds
      BY <3>1 DEF Errors
    <3>3. clList[Head(errs).fd] = None
      <4> SUFFICES ASSUME clList[Head(errs).fd] # None PROVE FALSE
        OBVIOUS
      <4>1. /\ clList[Head(errs).fd] \in Accepted
            /\ fdOf[clList[Head(errs).fd]] = Head(errs).fd
        BY <3>2 DEF IInv, SlotsOK
      <4>2. Held(clList[Head(errs).fd])
        BY <3>2 DEF Held
      <4> QED
        BY <3>1, <4>1, <4>2 DEF Open
    <3>4. CloseAt(Head(errs).fd)
      BY <1>1, <2>2 DEF DispatchError
    <3>5. outBuf' = outBuf
      BY <3>3, <3>4 DEF CloseAt
    <3> QED
      BY <3>5
  <2> QED
    BY <1>1, <2>1, <2>2 DEF DispatchError
<1>2. CASE \/ Take \/ Apply \/ Scan \/ DispatchDisable \/ DispatchPush \/ DispatchDone
           \/ DispatchAccept \/ PeerNext \/ UNCHANGED vars
  BY <1>2 DEF Take, Apply, Scan, DispatchDisable, DispatchPush, DispatchDone,
              DispatchAccept, PeerNext, Connect, PeerSend, PeerShut, PeerReset, vars
<1>3. ASSUME NEW w \in Workers, NEW d \in Accepted, Held(d), CloseAt(fdOf[d])
      PROVE  Closes(d) /\ Empties(d)
  <2>1. /\ fdOf[d] \in Fds /\ clList[fdOf[d]] \in {d, None} /\ d # None
        /\ d \in Listed <=> clList[fdOf[d]] = d
    BY <1>3, OwnSlot
  <2>2. Empties(d)
    BY <1>3, <2>1 DEF CloseAt, Empties
  <2> QED
    BY <1>3, <2>2, CloseAtOwn
<1>4. ASSUME NEW w \in Workers, Do(w)
      PROVE  \/ outBuf' = outBuf
             \/ \E d \in Accepted :
                  \/ DoesTo(w, "append", d) /\ outBuf' = [outBuf EXCEPT ![d] = @ + 1]
                  \/ DoesTo(w, "close", d) /\ Closes(d) /\ Empties(d)
  <2> DEFINE d == Head(todo[w]).cl
             op == Head(todo[w]).op
  <2>1. DoesTo(w, op, d) /\ d \in Accepted /\ Held(d) /\ Perform(op, d)
    BY <1>4, HeadOfTodo DEF Do, DoesTo
  <2> HIDE DEF d, op
  <2>2. CASE op = "append"
    BY <2>1, <2>2 DEF Perform
  <2>3. CASE op = "close"
    <3>1. CloseAt(fdOf[d])
      BY <2>1, <2>3 DEF Perform
    <3> QED
      BY <1>3, <2>1, <2>3, <3>1
  <2>4. CASE op \notin {"append", "close"}
    BY <2>1, <2>4 DEF Perform
  <2> QED
    BY <2>2, <2>3, <2>4
<1>5. ASSUME NEW w \in Workers, CloseSent(w)
      PROVE  \E d \in Accepted : d = opCl[w] /\ Closes(d) /\ Empties(d)
  <2>1. opCl[w] \in Accepted /\ Held(opCl[w])
    BY <1>5 DEF CloseSent, IInv, WorkersOK, Held
  <2> QED
    BY <1>3, <1>5, <2>1 DEF CloseSent
<1>6. ASSUME NEW w \in Workers, Send(w)
      PROVE  \E d \in Accepted :
               d = opCl[w] /\ \E n \in 0..outBuf[d] : outBuf' = [outBuf EXCEPT ![d] = @ - n]
  <2>1. opCl[w] \in Accepted
    BY <1>6 DEF Send, IInv, WorkersOK
  <2>2. outBuf[opCl[w]] \in Nat
    BY <1>0, <2>1
  <2>3. \E n \in 0..outBuf[opCl[w]] : outBuf' = [outBuf EXCEPT ![opCl[w]] = @ - n]
    <3> DEFINE o == outBuf[opCl[w]]
               N == IF o > 0 /\ peer[opCl[w]] \in {"open", "shut"} THEN 1..o ELSE {0}
    <3>1. \E n \in N : outBuf' = [outBuf EXCEPT ![opCl[w]] = @ - n]
      BY <1>6 DEF Send
    <3>2. N \subseteq 0..o
      <4> HIDE DEF o
      <4> QED
        BY <2>2 DEF o
    <3> HIDE DEF N
    <3> QED
      BY <3>1, <3>2
  <2> QED
    BY <2>1, <2>3
<1>7. ASSUME NEW w \in Workers,
             \/ Pop(w) \/ Find(w) \/ Check(w) \/ Recv(w) \/ Line(w) \/ Rearm(w)
             \/ Sent(w) \/ More(w) \/ Release(w)
      PROVE  outBuf' = outBuf
  BY <1>7 DEF Pop, Find, Check, Recv, Line, Rearm, Sent, More, Release
<1> QED
  BY <1>1, <1>2, <1>4, <1>5, <1>6, <1>7 DEF Next, MainNext, WorkerNext

(* Only accept brings a client.                                            *)
LEMMA NewClients ==
  ASSUME IInv, KnotesOK, [Next]_vars
  PROVE  Accepted' = Accepted \/ (DispatchAccept /\ \E id \in Ids : Enters(id))
<1>1. CASE UNCHANGED <<fdOf, idCnt>>
  BY <1>1 DEF Accepted
<1>2. CASE DispatchAccept
  <2>1. ustate' = ustate
    BY <1>2 DEF DispatchAccept
  <2>2. CASE UNCHANGED <<fdOf, idCnt, clList, changes>>
    BY <2>2 DEF Accepted
  <2> QED
    BY <1>2, <2>1, <2>2, AcceptQuiet DEF Enters
<1> QED
  BY <1>1, <1>2, IdsStay

(* Every step keeps the clients of the list in step with their states.     *)
LEMMA ClientsStep ==
  ASSUME IInv, ReaderInv, WatchInv, [Next]_vars
  PROVE  ClientsOK'
<1>0. /\ TypeOK /\ KnotesOK /\ ClientsOK /\ idCnt \in Nat
      /\ ustate \in [Ids -> {"NEW", "LIVE", "UNAVAIL", "CLOSE"}]
      /\ outBuf \in [Ids -> Nat] /\ Accepted \subseteq Ids
  BY ConstantsAssumption DEF IInv, TypeOK, ReaderInv, WatchInv, ClientsOK, Accepted, Ids
<1>1. Accepted \subseteq Accepted'
  BY IdsStay
<1>2. outBuf' \in [Ids -> Nat] /\ \A c \in Ids \ Accepted : outBuf'[c] = 0
  <2>1. CASE outBuf' = outBuf
    BY <1>0, <2>1 DEF ClientsOK
  <2>2. ASSUME NEW d \in Accepted, outBuf' = [outBuf EXCEPT ![d] = @ + 1] \/ Empties(d)
        PROVE  outBuf' \in [Ids -> Nat] /\ \A c \in Ids \ Accepted : outBuf'[c] = 0
    BY <1>0, <2>2 DEF Empties, ClientsOK
  <2>3. ASSUME NEW d \in Accepted, NEW n \in 0..outBuf[d], outBuf' = [outBuf EXCEPT ![d] = @ - n]
        PROVE  outBuf' \in [Ids -> Nat] /\ \A c \in Ids \ Accepted : outBuf'[c] = 0
    <3>1. outBuf[d] \in Nat
      BY <1>0
    <3>2. outBuf[d] - n \in Nat
      BY <3>1
    <3> QED
      BY <1>0, <2>3, <3>2 DEF ClientsOK
  <2> QED
    BY <1>0, <2>1, <2>2, <2>3, OutSteps
<1>3. /\ ustate' \in [Ids -> {"NEW", "LIVE", "UNAVAIL", "CLOSE"}]
      /\ \A c \in Ids \ Accepted : ustate'[c] = "NEW"
      /\ \A c \in Listed' : ustate'[c] # "CLOSE"
  <2>1. ASSUME NEW c \in Listed', c \in Accepted PROVE c \in Listed \/ \E id \in Ids : Enters(id)
    <3>1. clList'[fdOf[c]] = c /\ (c \in Listed <=> clList[fdOf[c]] = c) /\ c # None
      BY <1>0, <2>1, ListedAfter DEF Ids, None
    <3>2. CASE clList' = clList
      BY <3>1, <3>2
    <3>3. ASSUME NEW d, Closes(d) PROVE c \in Listed
      BY <1>0, <3>1, <3>3 DEF Closes, TypeOK
    <3> QED
      BY <1>0, <3>1, <3>2, <3>3, ClientSteps DEF Marks, Enrols
  <2>2. CASE \E id \in Ids : Enters(id)
    <3>1. PICK id \in Ids : Enters(id)
      BY <2>2
    <3>2. /\ id \notin Accepted /\ Accepted' = Accepted \cup {id} /\ ustate' = ustate
          /\ clList' = [clList EXCEPT ![fdOf'[id]] = id]
      BY <3>1 DEF Enters
    <3>3. ustate[id] = "NEW"
      BY <1>0, <3>2 DEF ClientsOK
    <3>4. \A c \in Listed' : c = id \/ c \in Listed
      <4> SUFFICES ASSUME NEW c \in Accepted, c \in Listed' PROVE c \in Listed
        BY <3>2 DEF Listed
      <4>1. clList'[fdOf[c]] = c /\ (c \in Listed <=> clList[fdOf[c]] = c) /\ c # id
        BY <3>2, ListedAfter
      <4> QED
        BY <1>0, <3>2, <4>1 DEF TypeOK
    <3> QED
      BY <1>0, <3>2, <3>3, <3>4 DEF ClientsOK
  <2>3. CASE ~ \E id \in Ids : Enters(id)
    <3>1. Accepted' = Accepted
      BY <1>0, <2>3, NewClients
    <3>2. Listed' \subseteq Listed
      BY <2>1, <2>3, <3>1 DEF Listed
    <3>3. CASE UNCHANGED <<clList, ustate>>
      BY <1>0, <3>2, <3>3 DEF ClientsOK
    <3>4. ASSUME NEW d \in Accepted, Marks(d) \/ Enrols(d)
          PROVE  /\ ustate' \in [Ids -> {"NEW", "LIVE", "UNAVAIL", "CLOSE"}]
                 /\ \A c \in Ids \ Accepted : ustate'[c] = "NEW"
                 /\ \A c \in Listed' : ustate'[c] # "CLOSE"
      <4>1. \A c \in Listed' : c \in Ids /\ ustate[c] # "CLOSE"
        BY <1>0, <3>2 DEF ClientsOK, Listed
      <4> QED
        BY <1>0, <3>4, <4>1 DEF ClientsOK, Marks, Enrols
    <3>5. ASSUME NEW d \in Accepted, Closes(d), Held(d)
          PROVE  /\ ustate' \in [Ids -> {"NEW", "LIVE", "UNAVAIL", "CLOSE"}]
                 /\ \A c \in Ids \ Accepted : ustate'[c] = "NEW"
                 /\ \A c \in Listed' : ustate'[c] # "CLOSE"
      <4>1. \A c \in Listed' : c \in Ids /\ ustate[c] # "CLOSE"
        BY <1>0, <3>2 DEF ClientsOK, Listed
      <4>2. d \notin Listed'
        <5>1. fdOf[d] \in Fds /\ d # None
          BY <1>0, <3>5, OwnSlot
        <5>2. clList'[fdOf[d]] = None
          BY <1>0, <3>5, <5>1 DEF Closes, TypeOK
        <5> QED
          BY <5>1, <5>2, ListedAfter
      <4>3. ustate' = ustate \/ ustate' = [ustate EXCEPT ![d] = "CLOSE"]
        BY <3>5 DEF Closes
      <4> QED
        BY <1>0, <4>1, <4>2, <4>3 DEF ClientsOK
    <3>6. \A w \in Workers : CloseSent(w) => Held(opCl[w])
      BY DEF CloseSent, IInv, WorkersOK, Held
    <3>7. \A w \in Workers : \A d \in Accepted : DoesTo(w, "close", d) => Held(d)
      BY DEF DoesTo
    <3> QED
      BY <1>0, <2>3, <3>3, <3>4, <3>5, <3>6, <3>7, ClientSteps
  <2> QED
    BY <2>2, <2>3
<1> QED
  BY <1>1, <1>2, <1>3 DEF ClientsOK

------------------------------------------------------------------------------

(* What is left of a command after its first operation is of the same      *)
(* form.                                                                   *)
LEMMA ShapedTail ==
  ASSUME NEW s \in Seq(Ops), s # <<>>, NEW c, Shaped(s, c)
  PROVE  Shaped(Tail(s), c)
<1> DEFINE t == Tail(s)
<1>1. /\ t \in Seq(Ops) /\ Len(t) = Len(s) - 1 /\ Len(s) \in Nat \ {0}
      /\ \A i \in 1..Len(t) : t[i] = s[i + 1]
      /\ DOMAIN s = 1..Len(s) /\ DOMAIN t = 1..Len(t)
  BY HeadTailProperties, EmptySeq, LenProperties
<1> HIDE DEF t
<1>2. ASSUME NEW i \in DOMAIN t
      PROVE  /\ i + 1 \in DOMAIN s /\ i \in Nat \ {0} /\ t[i] = s[i + 1]
             /\ i + 1 + 1 \in DOMAIN s => i + 1 \in DOMAIN t /\ t[i + 1] = s[i + 1 + 1]
             /\ i + 1 = Len(s) => i = Len(t)
  BY <1>1
<1>3. Shaped(t, c)
  BY <1>2 DEF Shaped
<1> QED
  BY <1>3 DEF t

(* The steps of commands keep their order.                                 *)
LEMMA TodoShapeStep ==
  ASSUME IInv, ReaderInv, WatchInv, [Next]_vars
  PROVE  TodoShape'
<1> SUFFICES ASSUME NEW w \in Workers
             PROVE  /\ Shaped(todo'[w], opCl'[w])
                    /\ wpc'[w] = "bye" => todo'[w][Len(todo'[w])].op = "close"
  BY DEF TodoShape, Shaped
<1>0. /\ Shaped(todo[w], opCl[w])
      /\ wpc[w] = "bye" => todo[w][Len(todo[w])].op = "close"
      /\ TypeOK /\ WorkersOK
  BY DEF WatchInv, TodoShape, IInv
<1>1. CASE /\ todo'[w] = todo[w]
           /\ todo[w] = <<>> => wpc'[w] \notin {"cmd", "bye"}
           /\ todo[w] # <<>> => opCl'[w] = opCl[w] /\ wpc'[w] = wpc[w]
  <2>1. CASE todo[w] = <<>>
    BY <1>1, <2>1 DEF Shaped
  <2>2. CASE todo[w] # <<>>
    BY <1>0, <1>1, <2>2
  <2> QED
    BY <2>1, <2>2
<1>2. CASE /\ Do(w) /\ wpc[w] \in {"cmd", "bye"} /\ opCl'[w] = opCl[w]
           /\ todo'[w] = Tail(todo[w])
           /\ wpc'[w] = IF Len(todo[w]) > 1 THEN wpc[w]
                        ELSE IF wpc[w] = "cmd" THEN "lines" ELSE "release"
  <2>1. todo[w] \in Seq(Ops) /\ todo[w] # <<>>
    BY <1>0, <1>2 DEF TypeOK, WorkersOK
  <2>2. Shaped(Tail(todo[w]), opCl[w])
    BY <1>0, <2>1, ShapedTail
  <2>3. wpc'[w] = "bye" => todo'[w][Len(todo'[w])].op = "close"
    <3> SUFFICES ASSUME wpc'[w] = "bye" PROVE Tail(todo[w])[Len(Tail(todo[w]))].op = "close"
      BY <1>2
    <3>1. wpc[w] = "bye" /\ Len(todo[w]) > 1
      BY <1>2
    <3>2. /\ Len(todo[w]) \in Nat \ {0} /\ Len(Tail(todo[w])) = Len(todo[w]) - 1
          /\ \A i \in 1..(Len(todo[w]) - 1) : Tail(todo[w])[i] = todo[w][i + 1]
      BY <1>2, HeadOfTodo
    <3> DEFINE n == Len(todo[w])
    <3>3. n - 1 \in 1..(n - 1) /\ (n - 1) + 1 = n
      <4>1. n \in Nat /\ n > 1
        BY <3>1, <3>2
      <4> HIDE DEF n
      <4> QED
        BY <4>1
    <3>4. Tail(todo[w])[n - 1] = todo[w][n]
      BY <3>2, <3>3
    <3> QED
      BY <1>0, <3>1, <3>2, <3>4
  <2> QED
    BY <1>2, <2>2, <2>3
<1>3. CASE /\ opCl'[w] = opCl[w] /\ opCl[w] \in Accepted
           /\ todo'[w] = Append(Removal(opCl[w]), [op |-> "close", cl |-> opCl[w]])
  BY <1>3, CommandsStart DEF Starts
<1>4. CASE /\ opCl'[w] = opCl[w] /\ opCl[w] \in Accepted
           /\ \E e \in Effects(opCl[w]) :
                todo'[w] = e /\ wpc'[w] = IF e = <<>> THEN "lines" ELSE "cmd"
  <2>1. PICK e \in Effects(opCl[w]) : todo'[w] = e /\ wpc'[w] \in {"lines", "cmd"}
    BY <1>4
  <2>2. Starts(e, opCl[w])
    BY <1>4, CommandsStart
  <2> QED
    BY <1>4, <2>1, <2>2 DEF Starts
<1> QED
  BY <1>1, <1>2, <1>3, <1>4, TodoSteps

(* A client whose READ knote is being deleted does not get one back.       *)
LEMMA RemovingStep ==
  ASSUME IInv, ReaderInv, WatchInv, [Next]_vars
  PROVE  Removing'
<1>0. TypeOK /\ WorkersOK /\ TodoShape /\ Removing /\ "READ" \in Filters /\ KnotesOK
  BY DEF IInv, WatchInv, ReaderInv, Filters
<1> SUFFICES ASSUME NEW w \in Workers, NEW i \in DOMAIN todo'[w], NEW c \in Accepted',
                    todo'[w][i].cl = c
             PROVE  /\ todo'[w][i].op \in {"mark", "close"} /\ todo'[w][1].op # "delete" =>
                         Coming(c, "READ")'.st = "absent"
                    /\ todo'[w][i].op = "register" => ustate'[c] # "UNAVAIL"
  BY DEF Removing
<1>a. c \in Accepted /\ Held(c) /\ Coming(c, "READ").st = "absent"
        => Coming(c, "READ")'.st = "absent"
  BY <1>0, KnoteOf
<1>b. \A j \in DOMAIN todo[w] : todo[w][j].cl \in Accepted /\ Held(todo[w][j].cl)
  BY <1>0 DEF WorkersOK, Held
<1>1. CASE todo'[w] = todo[w] /\ (todo[w] # <<>> => opCl'[w] = opCl[w] /\ wpc'[w] = wpc[w]) /\ ~ Do(w)
  <2>1. todo'[w][i].op \in {"mark", "close"} /\ todo'[w][1].op # "delete" =>
          Coming(c, "READ")'.st = "absent"
    BY <1>0, <1>1, <1>a, <1>b DEF Removing
  <2>2. ASSUME todo'[w][i].op = "register"
        PROVE  ustate'[c] # "UNAVAIL"
    <3>1. /\ c = opCl[w] /\ c \in Accepted /\ ustate[c] # "UNAVAIL" /\ wpc[w] \in {"cmd", "bye"}
          /\ Held(c)
      BY <1>0, <1>1, <1>b, <2>2 DEF Removing, TodoShape, Shaped, WorkersOK
    <3>2. InHands(w, "READ", c)
      BY <3>1, AtWork
    <3>3. ASSUME NEW v \in Workers, DoesTo(v, "mark", c) PROVE FALSE
      <4>1. InHands(v, "READ", c)
        BY <3>3, Doing
      <4>2. v = w
        BY <3>1, <3>2, <4>1 DEF ReaderInv, OneMessage
      <4> QED
        BY <1>1, <3>3, <4>2 DEF DoesTo
    <3>4. /\ DOMAIN ustate = Ids /\ c \in Ids
      BY <3>1, OwnSlot DEF WatchInv, ClientsOK
    <3>5. ASSUME NEW d, (Marks(d) /\ d # c) \/ Enrols(d) \/ Closes(d)
          PROVE  ustate'[c] # "UNAVAIL"
      BY <3>1, <3>4, <3>5 DEF Marks, Enrols, Closes
    <3>6. ustate' = ustate => ustate'[c] # "UNAVAIL"
      BY <3>1
    <3>7. \A id : Enters(id) => ustate' = ustate
      BY DEF Enters
    <3>8. ustate'[c] # "UNAVAIL"
      BY <1>0, <3>3, <3>5, <3>6, <3>7, ClientSteps
    <3> QED
      BY <3>8
  <2> QED
    BY <2>1, <2>2
<1>2. CASE Do(w) /\ wpc[w] \in {"cmd", "bye"} /\ opCl'[w] = opCl[w] /\ todo'[w] = Tail(todo[w])
  <2>1. /\ Head(todo[w]) = todo[w][1] /\ Len(todo[w]) \in Nat \ {0}
        /\ DOMAIN todo[w] = 1..Len(todo[w]) /\ DOMAIN Tail(todo[w]) = 1..(Len(todo[w]) - 1)
        /\ \A j \in 1..(Len(todo[w]) - 1) : Tail(todo[w])[j] = todo[w][j + 1]
    BY <1>2, HeadOfTodo
  <2> DEFINE n == Len(todo[w])
             t == todo'[w]
  <2>2. /\ n \in Nat \ {0} /\ DOMAIN todo[w] = 1..n /\ DOMAIN t = 1..(n - 1)
        /\ \A j \in 1..(n - 1) : t[j] = todo[w][j + 1]
    BY <1>2, <2>1
  <2> HIDE DEF n, t
  <2>3. /\ i + 1 \in DOMAIN todo[w] /\ i \in Nat \ {0} /\ t[i] = todo[w][i + 1]
        /\ 1 \in DOMAIN todo[w] /\ todo[w][i + 1].cl = c
    BY <2>2 DEF t
  <2>4. t[i].op # "register"
    <3>1. i + 1 # 1
      BY <2>3
    <3> QED
      BY <1>0, <2>3, <3>1 DEF TodoShape, Shaped
  <2>5. ASSUME t[i].op \in {"mark", "close"}
        PROVE  Coming(c, "READ")'.st = "absent"
    <3>1. c = opCl[w] /\ c \in Accepted /\ Held(c)
      BY <1>0, <1>b, <2>3, <2>5 DEF TodoShape, Shaped
    <3>2. CASE todo[w][1].op # "delete"
      <4>1. Coming(c, "READ").st = "absent"
        BY <1>0, <2>3, <2>5, <3>1, <3>2 DEF Removing
      <4> QED
        BY <1>a, <3>1, <4>1
    <3>3. CASE todo[w][1].op = "delete"
      <4>1. Head(todo[w]).op = "delete" /\ Head(todo[w]).cl = c
        BY <1>0, <2>1, <2>3, <3>1, <3>3 DEF TodoShape, Shaped
      <4>2. changes' = changes \o <<Change(fdOf[c], "READ", "delete", None)>>
        BY <1>2, <4>1 DEF Do, Perform, RegEvents
      <4> DEFINE ch == Change(fdOf[c], "READ", "delete", None)
      <4>3. ch \in Changes /\ ch.op = "delete" /\ ch.fd = fdOf[c] /\ ch.filt = "READ"
        BY <1>0, <3>1, ChangeOK DEF Change
      <4>4. UNCHANGED <<knote, fdOf, tmpList, mpc>>
        BY <1>2 DEF Do, mainVars
      <4> HIDE DEF ch
      <4>5. Registers(ch)
        <5>1. changes' = changes \o <<ch>>
          BY <4>2 DEF ch
        <5> QED
          BY <1>0, <4>3, <4>4, <5>1, OneMoreChange DEF KnotesOK
      <4>6. Coming(c, "READ")' = Eff(Coming(c, "READ"), ch, fdOf[c], "READ")
        BY <1>0, <3>1, <4>5 DEF Registers
      <4>7. Eff(Coming(c, "READ"), ch, fdOf[c], "READ").st = "absent"
        BY <4>3, EffFacts
      <4>8. Coming(c, "READ")'.st = "absent"
        BY <4>6, <4>7
      <4> QED
        BY <4>8
    <3> QED
      BY <3>2, <3>3
  <2> QED
    BY <2>4, <2>5 DEF t
<1>3. ASSUME opCl[w] \in Accepted, Starts(todo'[w], opCl[w]), ustate' = ustate
      PROVE  /\ todo'[w][i].op \in {"mark", "close"} => todo'[w][1].op = "delete"
             /\ todo'[w][i].op = "register" => ustate'[c] # "UNAVAIL"
  BY <1>3 DEF Starts, Shaped
<1>4. CASE /\ opCl'[w] = opCl[w] /\ opCl[w] \in Accepted /\ UNCHANGED ustate
           /\ todo'[w] = Append(Removal(opCl[w]), [op |-> "close", cl |-> opCl[w]])
  <2>1. Starts(todo'[w], opCl[w])
    BY <1>4, CommandsStart
  <2> QED
    BY <1>3, <1>4, <2>1
<1>5. CASE /\ opCl'[w] = opCl[w] /\ opCl[w] \in Accepted /\ UNCHANGED ustate
           /\ \E e \in Effects(opCl[w]) : todo'[w] = e
  <2>1. Starts(todo'[w], opCl[w])
    BY <1>5, CommandsStart
  <2> QED
    BY <1>3, <1>5, <2>1
<1> QED
  BY <1>1, <1>2, <1>4, <1>5, TodoSteps

(* Only a removed client is closed by a write.                             *)
LEMMA ClosingGoneStep ==
  ASSUME IInv, ReaderInv, WatchInv, [Next]_vars
  PROVE  ClosingGone'
<1>0. TypeOK /\ WorkersOK /\ ClosingGone
  BY DEF IInv, WatchInv
<1> USE DEF kernelVars, mainVars, clientVars, workerVars
<1> SUFFICES ASSUME NEW w \in Workers, NEW c \in Accepted', wpc'[w] = "close", opCl'[w] = c
             PROVE  Gone(c)'
  BY DEF ClosingGone
<1>1. CASE wpc[w] = "close" /\ opCl'[w] = opCl[w]
  <2>1. c \in Accepted /\ Gone(c)
    BY <1>0, <1>1 DEF WorkersOK, ClosingGone
  <2> QED
    BY <2>1, GoneStays
<1>2. CASE Sent(w)
  <2>1. ustate[c] = "UNAVAIL" /\ c \in Accepted
    BY <1>0, <1>2 DEF Sent, Goto, TypeOK, WorkersOK
  <2>2. Gone(c)
    BY <2>1 DEF Gone, Staying
  <2> QED
    BY <2>1, <2>2, GoneStays
<1>3. CASE wpc[w] # "close" \/ opCl'[w] # opCl[w]
  <2>1. CASE MainNext \/ PeerNext \/ UNCHANGED vars
    <3>1. UNCHANGED <<wpc, opCl>>
      BY <2>1 DEF MainNext, Take, Apply, Scan, DispatchError, DispatchAccept,
         DispatchDisable, DispatchPush, DispatchDone, PeerNext, Connect, PeerSend, PeerShut,
         PeerReset, vars
    <3> QED
      BY <1>1, <3>1
  <2>2. ASSUME NEW v \in Workers, WorkerNext(v), v # w PROVE Gone(c)'
    <3>1. wpc'[w] = wpc[w] /\ opCl'[w] = opCl[w]
      BY <2>2, WorkerMessages
    <3> QED
      BY <1>1, <3>1
  <2>3. CASE WorkerNext(w)
    <3>1. CASE Pop(w) \/ Find(w) \/ Release(w)
      BY <1>0, <3>1 DEF Pop, Find, Release, Goto, TypeOK
    <3>2. CASE Check(w) \/ Rearm(w) \/ Send(w) \/ CloseSent(w) \/ More(w)
      BY <1>0, <3>2 DEF Check, Rearm, Send, CloseSent, More, Goto, TypeOK
    <3>3. CASE Recv(w) \/ Line(w)
      BY <1>0, <3>3 DEF Recv, Line, Goto, AfterError, TypeOK
    <3>4. CASE Do(w)
      BY <1>0, <3>4 DEF Do, Goto, TypeOK
    <3>5. CASE Sent(w)
      BY <1>2, <3>5
    <3> QED
      BY <2>3, <3>1, <3>2, <3>3, <3>4, <3>5 DEF WorkerNext
  <2> QED
    BY <2>1, <2>2, <2>3 DEF Next
<1> QED
  BY <1>1, <1>3

------------------------------------------------------------------------------

(* Where an event is before a worker takes it, and where it comes from and *)
(* goes to.                                                                *)
Queued(f, c) == AtBatch(f, c) \/ AtReg(f, c) \/ AtQueue(f, c)

(* An event that is under way was so before, or kevent returned it just    *)
(* now for a knote that is on.                                             *)
LEMMA QueuedFrom ==
  ASSUME IInv, ReaderInv, [Next]_vars, NEW c, NEW f \in Filters, Queued(f, c)'
  PROVE  \/ Queued(f, c)
         \/ Scan /\ c \in Accepted /\ Held(c) /\ Soon(c, f).st = "on"
<1>0. KnotesOK /\ KernelOK /\ MessagesGood /\ OwnUdata
  BY DEF ReaderInv, KnotesOK
<1> USE DEF kernelVars, mainVars, clientVars, workerVars
<1>1. CASE batch' \subseteq batch /\ regMsg' \in {regMsg, NoMsg} \cup batch /\ msgQ' = msgQ
  BY <1>1 DEF Queued, AtBatch, AtReg, AtQueue, Is, NoMsg, Filters
<1>2. CASE \/ Take \/ Apply \/ DispatchError \/ DispatchAccept \/ DispatchDisable
           \/ DispatchDone \/ PeerNext \/ UNCHANGED vars
  <2>1. batch' \subseteq batch /\ regMsg' \in {regMsg} \cup batch /\ msgQ' = msgQ
    BY <1>2 DEF Take, Apply, DispatchError, DispatchAccept, DispatchDisable, DispatchDone,
       PeerNext, Connect, PeerSend, PeerShut, PeerReset, vars
  <2> QED
    BY <1>1, <2>1
<1>3. CASE Scan
  <2>1. regMsg' = regMsg /\ msgQ' = msgQ
    BY <1>3 DEF Scan
  <2>2. CASE AtBatch(f, c)'
    <3>1. PICK e \in batch' : Is(e, f, c)
      BY <2>2 DEF AtBatch
    <3>2. PICK d \in Accepted : /\ Held(d) /\ Soon(d, e.filt).st = "on"
                                /\ e = Event(e.filt, fdOf[d], d)
      BY <1>0, <1>3, <3>1, ScanFacts DEF Is
    <3>3. d = c /\ e.filt = f
      BY <3>1, <3>2 DEF Is, Event
    <3> QED
      BY <1>3, <3>2, <3>3
  <2>3. CASE AtReg(f, c)' \/ AtQueue(f, c)'
    BY <2>1, <2>3 DEF Queued, AtReg, AtQueue
  <2> QED
    BY <2>2, <2>3 DEF Queued
<1>4. CASE DispatchPush
  <2>1. batch' = batch /\ regMsg' = NoMsg
    BY <1>4 DEF DispatchPush
  <2>2. AtQueue(f, c)' => AtQueue(f, c) \/ AtReg(f, c)
    BY <1>4, PushFacts DEF AtQueue, AtReg, Is
  <2> QED
    BY <2>1, <2>2 DEF Queued, AtBatch, AtReg, Is, NoMsg, Filters
<1>5. ASSUME NEW w \in Workers, WorkerNext(w) PROVE Queued(f, c)
  <2>1. batch' = batch /\ regMsg' = regMsg
    BY <1>5, OthersKeep
  <2>2. CASE msgQ' = msgQ
    BY <1>1, <2>1, <2>2, <1>5 DEF Queued, AtBatch, AtReg, AtQueue
  <2>3. CASE Pop(w)
    <3>1. AtQueue(f, c)' => AtQueue(f, c)
      BY <2>3, PopFacts DEF AtQueue
    <3> QED
      BY <2>1, <3>1 DEF Queued, AtBatch, AtReg
  <2> QED
    BY <1>5, <2>2, <2>3, WorkerMessages
<1> QED
  BY <1>2, <1>3, <1>4, <1>5 DEF Next, MainNext

(* An event under way stays so until a worker takes it.                    *)
LEMMA QueuedTo ==
  ASSUME IInv, ReaderInv, [Next]_vars, NEW c, NEW f \in Filters, Queued(f, c)
  PROVE  Queued(f, c)' \/ \E w \in Workers : Pop(w) /\ InHands(w, f, c)' /\ wpc'[w] = "find"
<1>0. /\ KnotesOK /\ KernelOK /\ MessagesGood /\ OwnUdata /\ TypeOK
      /\ ~ Is(NoMsg, f, c)
  BY DEF ReaderInv, KnotesOK, IInv, Is, NoMsg, Filters
<1> USE DEF kernelVars, mainVars, clientVars, workerVars
<1>1. ASSUME batch' = batch, regMsg' = regMsg, msgQ' = msgQ PROVE Queued(f, c)'
  BY <1>1 DEF Queued, AtBatch, AtReg, AtQueue, Is
<1>2. CASE \/ Take \/ Apply \/ DispatchError \/ DispatchDone \/ PeerNext \/ UNCHANGED vars
  BY <1>1, <1>2 DEF Take, Apply, DispatchError, DispatchDone,
     PeerNext, Connect, PeerSend, PeerShut, PeerReset, vars
<1>3. CASE DispatchAccept
  <2>1. batch' = batch \ {Event("LISTEN", 0, None)} /\ regMsg' = regMsg /\ msgQ' = msgQ
    BY <1>3 DEF DispatchAccept
  <2>2. ~ Is(Event("LISTEN", 0, None), f, c)
    BY DEF Is, Event, Filters
  <2> QED
    BY <2>1, <2>2 DEF Queued, AtBatch, AtReg, AtQueue
<1>4. CASE DispatchDisable
  <2>1. msgQ' = msgQ /\ regMsg = NoMsg
    BY <1>0, <1>4 DEF DispatchDisable, KernelOK
  <2>2. PICK e \in batch : batch' = batch \ {e} /\ regMsg' = e
    BY <1>4 DEF DispatchDisable
  <2> QED
    BY <1>0, <2>1, <2>2 DEF Queued, AtBatch, AtReg, AtQueue
<1>5. CASE DispatchPush
  <2>1. batch' = batch
    BY <1>5 DEF DispatchPush
  <2>2. AtQueue(f, c) \/ AtReg(f, c) => AtQueue(f, c)'
    BY <1>5, PushFacts DEF AtQueue, AtReg
  <2> QED
    BY <2>1, <2>2 DEF Queued, AtBatch
<1>6. CASE Scan
  <2>1. batch = {} /\ regMsg' = regMsg /\ msgQ' = msgQ
    BY <1>0, <1>6 DEF Scan, KernelOK
  <2> QED
    BY <2>1 DEF Queued, AtBatch, AtReg, AtQueue
<1>7. ASSUME NEW w \in Workers, WorkerNext(w)
      PROVE  Queued(f, c)' \/ (Pop(w) /\ InHands(w, f, c)' /\ wpc'[w] = "find")
  <2>1. batch' = batch /\ regMsg' = regMsg
    BY <1>7, OthersKeep
  <2>2. CASE msgQ' = msgQ
    BY <1>1, <2>1, <2>2
  <2>3. CASE Pop(w)
    <3>1. wpc'[w] = "find" /\ msg' = [msg EXCEPT ![w] = msgQ[1]]
      BY <1>0, <2>3, PopFacts DEF Pop, Goto, TypeOK
    <3>2. msg'[w] = msgQ[1]
      BY <1>0, <3>1 DEF TypeOK
    <3>3. AtQueue(f, c) => AtQueue(f, c)' \/ Is(msgQ[1], f, c)
      <4> SUFFICES ASSUME NEW i \in DOMAIN msgQ, Is(msgQ[i], f, c)
                   PROVE  AtQueue(f, c)' \/ Is(msgQ[1], f, c)
        BY DEF AtQueue
      <4> QED
        BY <2>3, PopFacts DEF AtQueue
    <3> QED
      BY <2>1, <2>3, <3>1, <3>2, <3>3 DEF Queued, AtBatch, AtReg, InHands
  <2> QED
    BY <1>7, <2>2, <2>3, WorkerMessages
<1> QED
  BY <1>2, <1>3, <1>4, <1>5, <1>6, <1>7 DEF Next, MainNext

(* An event that is not with a worker yet is of a client that stays.       *)
LEMMA ReadableStayStep ==
  ASSUME IInv, ReaderInv, WatchInv, [Next]_vars
  PROVE  ReadableStay'
<1>0. /\ "READ" \in Filters /\ KernelOK /\ MessagesGood /\ OneMessage /\ GoneDeaf
      /\ ReadableStay
  BY DEF Filters, ReaderInv, KnotesOK, WatchInv
<1> SUFFICES ASSUME NEW c \in Accepted', Queued("READ", c)' PROVE ~ Gone(c)'
  BY DEF ReadableStay, Queued
<1>1. \/ Queued("READ", c)
      \/ Scan /\ c \in Accepted /\ Held(c) /\ Soon(c, "READ").st = "on"
  BY <1>0, QueuedFrom
<1>2. c \in Accepted
  BY <1>0, <1>1, Nowhere DEF Queued, Passed
<1>3. ~ Gone(c)
  BY <1>0, <1>1, <1>2 DEF ReadableStay, GoneDeaf, Queued
<1>4. ASSUME Gone(c)' PROVE FALSE
  <2>1. PICK w \in Workers :
          /\ DoesTo(w, "mark", c) \/ DoesTo(w, "close", c)
          /\ InHands(w, "READ", c)
    BY <1>2, <1>3, <1>4, GoesOnly
  <2>2. ~ Queued("READ", c)
    BY <1>0, <1>2, <2>1 DEF OneMessage, Queued, AtHand, Passed
  <2>3. ~ Scan
    <3>1. todo'[w] = Tail(todo[w]) /\ todo[w] \in Seq(Ops) /\ todo[w] # <<>>
      BY <2>1 DEF DoesTo, Do, IInv, TypeOK, WorkersOK
    <3>2. todo'[w] # todo[w]
      BY <3>1, Shorter
    <3> QED
      BY <3>2 DEF Scan, workerVars
  <2> QED
    BY <1>1, <2>2, <2>3
<1> QED
  BY <1>4

(* What is deleted stays deleted.                                          *)
LEMMA GoneDeafStep ==
  ASSUME IInv, ReaderInv, WatchInv, [Next]_vars
  PROVE  GoneDeaf'
<1>0. "READ" \in Filters /\ KernelOK /\ KnotesOK /\ Disarmed /\ GoneDeaf /\ ClientsOK
  BY DEF Filters, ReaderInv, KnotesOK, WatchInv
<1> SUFFICES ASSUME NEW c \in Accepted', Held(c)', Gone(c)'
             PROVE  Coming(c, "READ")'.st = "absent" /\ Soon(c, "READ")'.st # "on"
  BY DEF GoneDeaf
<1>1. CASE c \notin Accepted
  <2>1. PICK id \in Ids : Enters(id)
    BY <1>0, <1>1, NewClients
  <2>2. /\ id = c /\ ustate' = ustate /\ ustate[c] = "NEW"
        /\ clList' = [clList EXCEPT ![fdOf'[c]] = c] /\ fdOf'[c] \in Fds
    BY <1>0, <1>1, <2>1 DEF Enters, ClientsOK
  <2>3. clList'[fdOf'[c]] = c
    BY <2>2 DEF IInv, TypeOK
  <2> QED
    BY <2>2, <2>3 DEF Gone, Staying, Listed
<1>2. CASE c \in Accepted
  <2>1. Held(c)
    BY <1>2, HeldStep
  <2>2. /\ Soon(c, "READ")' \in {Soon(c, "READ"), Coming(c, "READ"), Coming(c, "READ")'}
        /\ Coming(c, "READ").st = "absent" => Coming(c, "READ")'.st = "absent"
    BY <1>0, <1>2, <2>1, KnoteOf
  <2>3. Coming(c, "READ").st = "absent" /\ Soon(c, "READ").st # "on"
    <3>1. CASE Gone(c)
      BY <1>0, <1>2, <2>1, <3>1 DEF GoneDeaf
    <3>2. CASE ~ Gone(c)
      <4>1. PICK w \in Workers : Coming(c, "READ").st = "absent" /\ InHands(w, "READ", c)
        BY <1>2, <3>2, GoesOnly
      <4> QED
        BY <1>0, <1>2, <2>1, <4>1 DEF Disarmed, Passed, AtHand
    <3> QED
      BY <3>1, <3>2
  <2> DEFINE k == Coming(c, "READ")
             q == Coming(c, "READ")'
             s == Soon(c, "READ")
             r == Soon(c, "READ")'
  <2>4. r \in {s, k, q} /\ q.st = "absent" /\ k.st = "absent" /\ s.st # "on"
    BY <2>2, <2>3
  <2> HIDE DEF k, q, s, r
  <2>5. q.st = "absent" /\ r.st # "on"
    BY <2>4
  <2> QED
    BY <2>5 DEF q, r
<1> QED
  BY <1>1, <1>2

------------------------------------------------------------------------------

(* A new client has its READ knote on the way and its WRITE knote off.     *)
LEMMA NewKnote ==
  ASSUME IInv, KnotesOK, [Next]_vars, NEW c \in Accepted', c \notin Accepted
  PROVE  \A f \in Filters :
           Coming(c, f)' = [st |-> IF f = "READ" THEN "on" ELSE "off", udata |-> c]
<1>1. DispatchAccept /\ Accepted' # Accepted
  BY NewClients
<1>2. ~ UNCHANGED <<fdOf, idCnt, clList, changes>>
  BY <1>1 DEF Accepted
<1>3. PICK id \in Ids :
        /\ Accepted' = Accepted \cup {id}
        /\ \A f \in Filters :
             Coming(id, f)' = [st |-> IF f = "READ" THEN "on" ELSE "off", udata |-> id]
  BY <1>1, <1>2, AcceptQuiet
<1> QED
  BY <1>3

(* A worker that has a READ event of a client keeps it until it re-arms    *)
(* the knote, if the client stays.                                         *)
LEMMA HandKept ==
  ASSUME IInv, ReaderInv, WatchInv, [Next]_vars, NEW c \in Accepted, NEW w \in Workers,
         InHands(w, "READ", c), ~ Gone(c), ~ Gone(c)'
  PROVE  InHands(w, "READ", c)' \/ (Rearm(w) /\ opCl[w] = c)
<1>0. /\ TypeOK /\ WorkersOK /\ MessagesGood /\ ClientsOK /\ Roles /\ AnswersItsOwn
      /\ msg[w].filt = "READ" /\ msg[w].id = c /\ wpc[w] \notin {"idle", "release"}
      /\ Staying(c) /\ c \in Listed /\ clList[fdOf[c]] = c /\ c # None
  BY ConstantsAssumption
  DEF IInv, ReaderInv, WatchInv, InHands, Is, Gone, Listed, Accepted, None
<1> USE DEF kernelVars, mainVars, clientVars, workerVars
<1>1. ASSUME msg'[w] = msg[w], wpc'[w] \notin {"idle", "release"} PROVE InHands(w, "READ", c)'
  BY <1>0, <1>1 DEF InHands, Is
<1>2. CASE MainNext \/ PeerNext \/ UNCHANGED vars
  <2>1. UNCHANGED <<wpc, msg>>
    BY <1>2 DEF MainNext, Take, Apply, Scan, DispatchError, DispatchAccept,
       DispatchDisable, DispatchPush, DispatchDone, PeerNext, Connect, PeerSend, PeerShut,
       PeerReset, vars
  <2> QED
    BY <1>0, <1>1, <2>1
<1>3. ASSUME NEW v \in Workers, WorkerNext(v), v # w PROVE InHands(w, "READ", c)'
  BY <1>0, <1>1, <1>3, WorkerMessages
<1>4. CASE WorkerNext(w)
  <2>1. CASE Pop(w) \/ Release(w)
    BY <1>0, <2>1 DEF Pop, Release
  <2>2. CASE Find(w)
    <3>1. msg[w].fd = fdOf[c] /\ ustate[c] # "CLOSE" /\ wpc[w] = "find"
      BY <1>0, <2>2 DEF MessagesGood, Good, Find, Staying
    <3>2. msg' = msg /\ wpc'[w] = "check"
      BY <1>0, <2>2, <3>1 DEF Find, SameClient, Goto, TypeOK
    <3> QED
      BY <1>1, <3>2
  <2>3. CASE Check(w)
    <3>1. opCl[w] = c /\ ustate[c] # "UNAVAIL"
      BY <1>0, <2>3 DEF Check, AnswersItsOwn, Staying
    <3>2. msg' = msg /\ wpc'[w] = "recv"
      BY <1>0, <2>3, <3>1 DEF Check, Goto, TypeOK
    <3> QED
      BY <1>1, <3>2
  <2>4. CASE Recv(w) \/ Line(w)
    <3>1. msg' = msg /\ wpc'[w] \notin {"idle", "release"}
      <4>1. CASE Recv(w)
        BY <1>0, <4>1 DEF Recv, Goto, AfterError, TypeOK
      <4>2. CASE Line(w)
        BY <1>0, <4>2 DEF Line, Goto, TypeOK
      <4> QED
        BY <2>4, <4>1, <4>2
    <3> QED
      BY <1>1, <3>1
  <2>5. CASE Do(w)
    <3>1. /\ msg' = msg /\ wpc[w] \in {"cmd", "bye"}
          /\ wpc'[w] = IF Len(todo[w]) > 1 THEN wpc[w]
                       ELSE IF wpc[w] = "cmd" THEN "lines" ELSE "release"
      BY <1>0, <2>5 DEF Do, Goto, TypeOK
    <3>2. CASE wpc'[w] # "release"
      BY <1>1, <3>1, <3>2
    <3>3. CASE wpc'[w] = "release"
      <4>1. wpc[w] = "bye" /\ ~ (Len(todo[w]) > 1)
        BY <3>1, <3>3
      <4>2. /\ Head(todo[w]) = todo[w][1] /\ Len(todo[w]) \in Nat \ {0}
            /\ Head(todo[w]).cl \in Accepted /\ Held(Head(todo[w]).cl)
            /\ DOMAIN todo[w] = 1..Len(todo[w])
        BY <3>1, HeadOfTodo
      <4> DEFINE n == Len(todo[w])
      <4>3. n = 1
        <5>1. n \in Nat \ {0} /\ ~ (n > 1)
          BY <4>1, <4>2
        <5> HIDE DEF n
        <5> QED
          BY <5>1
      <4>4. Head(todo[w]).op = "close"
        BY <4>1, <4>2, <4>3 DEF WatchInv, TodoShape
      <4>5. Head(todo[w]).cl = opCl[w]
        BY <4>2, <4>3, <4>4 DEF WatchInv, TodoShape, Shaped
      <4>6. opCl[w] = c
        BY <1>0, <4>1 DEF AnswersItsOwn
      <4>7. DoesTo(w, "close", c)
        BY <2>5, <3>1, <4>2, <4>4, <4>5, <4>6 DEF DoesTo
      <4> QED
        BY <4>7, RemovedGoes
    <3> QED
      BY <3>2, <3>3
  <2>6. CASE Rearm(w)
    BY <1>0, <2>6 DEF Rearm, AnswersItsOwn
  <2>7. CASE Send(w) \/ Sent(w) \/ CloseSent(w) \/ More(w)
    BY <1>0, <2>7 DEF Send, Sent, CloseSent, More, Roles
  <2> QED
    BY <1>4, <2>1, <2>2, <2>3, <2>4, <2>5, <2>6, <2>7 DEF WorkerNext
<1> QED
  BY <1>2, <1>3, <1>4 DEF Next

(* A deletion is the first step of a removal.                              *)
LEMMA DeletionMarks ==
  ASSUME IInv, ReaderInv, WatchInv, [Next]_vars, NEW c \in Accepted, NEW w \in Workers,
         DoesTo(w, "delete", c)
  PROVE  /\ \E i \in DOMAIN todo'[w] : todo'[w][i].op = "mark" /\ todo'[w][i].cl = c
         /\ InHands(w, "READ", c)'
<1>0. TypeOK /\ WorkersOK /\ TodoShape
  BY DEF IInv, WatchInv
<1>1. /\ 1 \in DOMAIN todo[w] /\ todo[w][1].op = "delete" /\ todo[w][1].cl = c
      /\ InHands(w, "READ", c)
  BY Doing
<1>2. /\ todo'[w] = Tail(todo[w]) /\ wpc[w] \in {"cmd", "bye"} /\ msg' = msg
      /\ wpc'[w] = IF Len(todo[w]) > 1 THEN wpc[w]
                   ELSE IF wpc[w] = "cmd" THEN "lines" ELSE "release"
  BY <1>0 DEF DoesTo, Do, Goto, TypeOK
<1>3. /\ Len(todo[w]) \in Nat \ {0} /\ DOMAIN todo[w] = 1..Len(todo[w])
      /\ DOMAIN Tail(todo[w]) = 1..(Len(todo[w]) - 1)
      /\ \A i \in 1..(Len(todo[w]) - 1) : Tail(todo[w])[i] = todo[w][i + 1]
  BY <1>2, HeadOfTodo
<1>4. 2 \in DOMAIN todo[w] /\ todo[w][2].op = "mark" /\ todo[w][2].cl = c
  <2>1. 1 + 1 \in DOMAIN todo[w] /\ todo[w][1 + 1].op = "mark" /\ todo[w][1 + 1].cl = c
    BY <1>0, <1>1 DEF TodoShape, Shaped
  <2> QED
    BY <2>1
<1> DEFINE n == Len(todo[w])
<1>5. n \in Nat /\ n > 1
  <2>1. n \in Nat /\ 2 \in 1..n
    BY <1>3, <1>4
  <2> QED
    BY <2>1
<1>6. 1 \in 1..(n - 1) /\ 1 + 1 = 2
  <2> HIDE DEF n
  <2> QED
    BY <1>5
<1>7. 1 \in DOMAIN todo'[w] /\ todo'[w][1] = todo[w][2]
  BY <1>2, <1>3, <1>6
<1> QED
  BY <1>1, <1>2, <1>4, <1>5, <1>7 DEF InHands, Is

(* A client that stays has a READ knote to enable.                         *)
LEMMA HasKnote ==
  ASSUME IInv, ReaderInv, WatchInv, NEW c \in Accepted, ~ Gone(c), NEW w \in Workers,
         wpc[w] = "rearm", opCl[w] = c
  PROVE  Coming(c, "READ").st # "absent"
<1>1. ASSUME NEW v \in Workers, NEW i \in DOMAIN todo[v],
             todo[v][i].op = "mark", todo[v][i].cl = c
      PROVE  FALSE
  <2>1. wpc[v] \in {"cmd", "bye"} /\ opCl[v] = c
    <3>1. opCl[v] = c
      BY <1>1 DEF WatchInv, TodoShape, Shaped
    <3>2. todo[v] # <<>>
      BY <1>1
    <3> QED
      BY <3>1, <3>2 DEF IInv, WorkersOK
  <2>2. InHands(v, "READ", c) /\ InHands(w, "READ", c)
    BY <2>1, AtWork
  <2>3. v = w
    BY <2>2 DEF ReaderInv, OneMessage
  <2> QED
    BY <2>1, <2>3
<1> QED
  BY <1>1 DEF WatchInv, StayWatched

(* Every step keeps a client that stays watched, or leaves somebody who    *)
(* is bound to turn its knote on again.                                    *)
LEMMA StayWatchedStep ==
  ASSUME IInv, ReaderInv, WatchInv, [Next]_vars
  PROVE  StayWatched'
<1>0. "READ" \in Filters /\ KnotesOK /\ TypeOK /\ WorkersOK
  BY DEF Filters, ReaderInv, IInv
<1> SUFFICES ASSUME NEW c \in Accepted', ~ Gone(c)'
             PROVE  \/ Coming(c, "READ")'.st # "absent"
                    \/ \E w \in Workers : \E i \in DOMAIN todo'[w] :
                         todo'[w][i].op = "mark" /\ todo'[w][i].cl = c
  BY DEF StayWatched
<1>1. CASE c \notin Accepted
  <2>1. Coming(c, "READ")' = [st |-> "on", udata |-> c]
    BY <1>0, <1>1, NewKnote
  <2> QED
    BY <2>1
<1>2. CASE c \in Accepted
  <2>1. ~ Gone(c)
    BY <1>2, GoneStays
  <2>2. Held(c)
    BY <2>1, <1>0, <1>2, ListedAfter DEF Gone, Listed, Held, IInv, SlotsOK
  <2>3. CASE Coming(c, "READ").st # "absent"
    <3>1. CASE Coming(c, "READ")' = Coming(c, "READ")
      BY <2>3, <3>1
    <3>2. CASE \E e \in batch : Coming(c, "READ").st # "absent" => Coming(c, "READ")'.st # "absent"
      BY <2>3, <3>2
    <3>3. ASSUME NEW w \in Workers, NEW ch, WorkerDoes(w, c, ch), ch.filt = "READ",
                 ch.op = "delete"
          PROVE  \E i \in DOMAIN todo'[w] : todo'[w][i].op = "mark" /\ todo'[w][i].cl = c
      <4>1. Do(w) /\ c = Head(todo[w]).cl /\ Head(todo[w]).op = "delete"
        BY <3>3 DEF WorkerDoes, WorkerRegisters, Change
      <4>2. DoesTo(w, "delete", c)
        BY <1>2, <2>2, <4>1 DEF DoesTo, Do
      <4> QED
        BY <1>2, <4>2, DeletionMarks
    <3>4. ASSUME NEW w \in Workers, NEW ch, WorkerDoes(w, c, ch), ch.op = "enable",
                 ch.op = "enable" /\ Coming(c, "READ").st # "absent" => Coming(c, "READ")'.st = "on"
          PROVE  Coming(c, "READ")'.st # "absent"
      BY <2>3, <3>4
    <3>5. \A w, ch : WorkerDoes(w, c, ch) => ch.op \in {"enable", "delete"}
      BY DEF WorkerDoes
    <3> QED
      BY <1>0, <1>2, <2>2, <3>1, <3>2, <3>3, <3>4, <3>5, KnoteOf
  <2>4. CASE \E w \in Workers : \E i \in DOMAIN todo[w] :
               todo[w][i].op = "mark" /\ todo[w][i].cl = c
    <3>0. PICK w \in Workers : \E i \in DOMAIN todo[w] :
                                todo[w][i].op = "mark" /\ todo[w][i].cl = c
      BY <2>4
    <3>1. PICK i \in DOMAIN todo[w] : todo[w][i].op = "mark" /\ todo[w][i].cl = c
      BY <3>0
    <3>2. todo[w] # <<>>
      BY <3>1
    <3>3. CASE todo'[w] = todo[w]
      BY <3>1, <3>3
    <3>4. CASE Do(w) /\ wpc[w] \in {"cmd", "bye"} /\ todo'[w] = Tail(todo[w])
      <4>1. /\ Head(todo[w]) = todo[w][1] /\ Len(todo[w]) \in Nat \ {0}
            /\ DOMAIN todo[w] = 1..Len(todo[w]) /\ DOMAIN Tail(todo[w]) = 1..(Len(todo[w]) - 1)
            /\ \A j \in 1..(Len(todo[w]) - 1) : Tail(todo[w])[j] = todo[w][j + 1]
        BY <3>4, HeadOfTodo
      <4>2. CASE i = 1
        <5>1. DoesTo(w, "mark", c)
          BY <1>2, <2>2, <3>1, <3>4, <4>1, <4>2 DEF DoesTo
        <5> QED
          BY <1>2, <5>1, RemovedGoes
      <4>3. CASE i # 1
        <5> DEFINE n == Len(todo[w])
        <5>1. i - 1 \in 1..(n - 1) /\ (i - 1) + 1 = i
          <6>1. n \in Nat \ {0} /\ i \in 1..n
            BY <3>1, <4>1
          <6> HIDE DEF n
          <6> QED
            BY <4>3, <6>1
        <5>2. i - 1 \in DOMAIN todo'[w] /\ todo'[w][i - 1] = todo[w][i]
          BY <3>4, <4>1, <5>1
        <5> QED
          BY <3>1, <5>2
      <4> QED
        BY <4>2, <4>3
    <3> QED
      BY <3>2, <3>3, <3>4, TodoSteps
  <2> QED
    BY <1>2, <2>1, <2>3, <2>4 DEF WatchInv, StayWatched
<1> QED
  BY <1>1, <1>2

(* Every step keeps this, the core of NoDeafClient.                        *)
LEMMA NeverDeafStep ==
  ASSUME IInv, ReaderInv, WatchInv, [Next]_vars
  PROVE  NeverDeaf'
<1>0. /\ "READ" \in Filters /\ KnotesOK /\ TypeOK /\ WorkersOK /\ MessagesGood
      /\ ReadableStay
  BY DEF Filters, ReaderInv, IInv, WatchInv
<1> SUFFICES ASSUME NEW c \in Accepted', ~ Gone(c)'
             PROVE  AtBatch("READ", c)' \/ Passed("READ", c)' \/ Coming(c, "READ")'.st = "on"
  BY DEF NeverDeaf
<1>1. CASE c \notin Accepted
  <2>1. Coming(c, "READ")' = [st |-> "on", udata |-> c]
    BY <1>0, <1>1, NewKnote
  <2> QED
    BY <2>1
<1>2. CASE c \in Accepted
  <2>1. ~ Gone(c)
    BY <1>2, GoneStays
  <2>2. Held(c) /\ c \in Listed
    BY <2>1, <1>0, <1>2, ListedAfter DEF Gone, Listed, Held, IInv, SlotsOK
  <2>3. CASE Queued("READ", c)
    <3>1. Queued("READ", c)' \/ \E w \in Workers : InHands(w, "READ", c)'
      BY <1>0, <2>3, QueuedTo
    <3> QED
      BY <3>1 DEF Queued, Passed, AtHand
  <2>4. ASSUME NEW w \in Workers, InHands(w, "READ", c)
        PROVE  InHands(w, "READ", c)' \/ Coming(c, "READ")'.st = "on"
    <3>1. CASE InHands(w, "READ", c)'
      BY <3>1
    <3>2. CASE Rearm(w) /\ opCl[w] = c
      <4>1. wpc[w] = "rearm" /\ ustate[c] # "UNAVAIL"
        BY <2>1, <3>2 DEF Rearm, Gone, Staying
      <4>2. Coming(c, "READ").st # "absent"
        BY <1>2, <2>1, <3>2, <4>1, HasKnote
      <4> DEFINE ch == Change(fdOf[c], "READ", "enable", c)
      <4>3. ch \in Changes /\ ch.op = "enable" /\ ch.fd = fdOf[c] /\ ch.filt = "READ"
        <5>1. c \in Ids
          BY <1>2, <2>2, OwnSlot
        <5> QED
          BY <1>0, <1>2, <5>1, ChangeOK DEF Change
      <4>4. changes' = changes \o <<ch>> /\ UNCHANGED <<knote, fdOf, tmpList, mpc>>
        BY <3>2, <4>1 DEF Rearm, RegEvents, Udata, mainVars
      <4> HIDE DEF ch
      <4>5. Registers(ch)
        BY <1>0, <4>3, <4>4, OneMoreChange DEF KnotesOK
      <4>6. Coming(c, "READ")' = Eff(Coming(c, "READ"), ch, fdOf[c], "READ")
        BY <1>0, <1>2, <2>2, <4>5 DEF Registers
      <4>7. Eff(Coming(c, "READ"), ch, fdOf[c], "READ").st = "on"
        BY <4>2, <4>3, EffFacts
      <4> QED
        BY <4>6, <4>7
    <3> QED
      BY <1>2, <2>1, <2>4, <3>1, <3>2, HandKept
  <2>5. CASE Coming(c, "READ").st = "on"
    <3>0. Coming(c, "READ").st # "absent"
      BY <2>5
    <3>1. CASE Coming(c, "READ")' = Coming(c, "READ")
      BY <2>5, <3>1
    <3>2. ASSUME NEW e \in batch, Disables(e), e.filt = "READ", e.fd = fdOf[c]
          PROVE  Passed("READ", c)'
      <4>1. e.id \in Accepted /\ fdOf[e.id] = fdOf[c] /\ regMsg' = e
        BY <3>2 DEF Disables, Good
      <4>2. ~ Gone(e.id)
        <5>1. AtBatch("READ", e.id)
          BY <3>2 DEF AtBatch, Is
        <5> QED
          BY <1>0, <4>1, <5>1 DEF ReadableStay
      <4>3. e.id = c
        BY <2>2, <4>1, <4>2 DEF Gone, Listed
      <4> QED
        BY <3>2, <4>1, <4>3 DEF Passed, AtReg, Is
    <3>3. ASSUME NEW w \in Workers, NEW ch, WorkerDoes(w, c, ch), ch.filt = "READ",
                 ch.op = "delete"
          PROVE  Passed("READ", c)'
      <4>1. Do(w) /\ c = Head(todo[w]).cl /\ Head(todo[w]).op = "delete"
        BY <3>3 DEF WorkerDoes, WorkerRegisters, Change
      <4>2. DoesTo(w, "delete", c)
        BY <1>2, <2>2, <4>1 DEF DoesTo, Do
      <4>3. InHands(w, "READ", c)'
        BY <1>2, <4>2, DeletionMarks
      <4> QED
        BY <4>3 DEF Passed, AtHand
    <3>4. \A w, ch : WorkerDoes(w, c, ch) => ch.op \in {"enable", "delete"}
      BY DEF WorkerDoes
    <3> QED
      BY <1>0, <1>2, <2>2, <3>0, <3>1, <3>2, <3>3, <3>4, KnoteOf
  <2> QED
    BY <1>2, <2>1, <2>3, <2>4, <2>5 DEF WatchInv, NeverDeaf, Queued, Passed, AtHand
<1> QED
  BY <1>1, <1>2

------------------------------------------------------------------------------

(* Before the first connection there is nobody to watch.                   *)
LEMMA InitWatch == Init => WatchInv
<1> SUFFICES ASSUME Init PROVE WatchInv
  OBVIOUS
<1>1. Accepted = {} /\ Listed = {}
  BY DEF Init, Accepted, Listed
<1>2. \A w \in Workers : DOMAIN todo[w] = {} /\ wpc[w] = "idle"
  BY DEF Init
<1>3. ClientsOK
  BY <1>1 DEF Init, ClientsOK
<1>4. TodoShape
  BY <1>2 DEF TodoShape, Shaped
<1> QED
  BY <1>1, <1>2, <1>3, <1>4
  DEF WatchInv, Removing, ClosingGone, ReadableStay, GoneDeaf, StayWatched, NeverDeaf

(* The invariant of the READ knotes is inductive, beside the two before    *)
(* it.                                                                     *)
LEMMA WatchStep == IInv /\ ReaderInv /\ WatchInv /\ [Next]_vars => WatchInv'
BY ClientsStep, TodoShapeStep, RemovingStep, ClosingGoneStep, ReadableStayStep, GoneDeafStep,
   StayWatchedStep, NeverDeafStep DEF WatchInv

(* The invariant under which no client goes deaf holds in every state that *)
(* is reached.                                                             *)
THEOREM WatchInvariance == Spec => []WatchInv
BY InitWatch, WatchStep, Invariance, ReaderInvariance, PTL DEF Spec

(* WillFire looks at the list of all the changes that are on their way:    *)
(* for a client that is referred to it says what Coming says.              *)
LEMMA FiresWhenOn ==
  ASSUME IInv, KernelOK, NEW c \in Accepted, Held(c), NEW f \in Filters
  PROVE  WillFire(f, c) <=> Coming(c, f).st = "on"
<1> DEFINE s == IF mpc = "apply" THEN tmpList ELSE <<>>
<1>0. c \in Ids
  BY ConstantsAssumption DEF IInv, TypeOK, Accepted, Ids
<1>1. s \in Seq(Changes) /\ changes \in Seq(Changes)
  BY EmptySeq DEF KernelOK
<1>2. Pending = s \o changes
  BY DEF Pending
<1>3. Known(c, f) = Local(knote[c][f], s, fdOf[c], f)
  <2>1. ASSUME NEW t, t = <<>> PROVE Local(knote[c][f], t, fdOf[c], f) = knote[c][f]
    BY <2>1, LocalEmpty
  <2> QED
    BY <2>1 DEF Known
<1> HIDE DEF s
<1>4. Joined(Pending, s, changes) /\ Pending \in Seq(Changes)
  <2>1. /\ Pending \in Seq(Changes) /\ Len(Pending) = Len(s) + Len(changes)
        /\ \A i \in 1..Len(s) + Len(changes) :
             Pending[i] = IF i <= Len(s) THEN s[i] ELSE changes[i - Len(s)]
    BY <1>1, <1>2, ConcatProperties
  <2>2. PICK m \in Nat, n \in Nat : m = Len(s) /\ n = Len(changes)
    BY <1>1, SeqFacts
  <2>3. \A i \in 1..m : Pending[i] = s[i]
    <3>1. \A i \in 1..m : i \in 1..(m + n) /\ i <= m
      OBVIOUS
    <3> QED
      BY <2>1, <2>2, <3>1
  <2>4. \A i \in 1..n : Pending[m + i] = changes[i]
    <3>1. \A i \in 1..n : m + i \in 1..(m + n) /\ ~ (m + i <= m) /\ (m + i) - m = i
      OBVIOUS
    <3> QED
      BY <2>1, <2>2, <3>1
  <2> QED
    BY <2>1, <2>2, <2>3, <2>4 DEF Joined
<1>5. Coming(c, f) = Local(knote[c][f], Pending, fdOf[c], f)
  BY <1>3, <1>4, LocalConcat DEF Coming
<1>6. Applied(knote, Pending).knote[c][f] = Local(knote[c][f], Pending, fdOf[c], f)
  <2>1. Len(Pending) \in Nat /\ \A i \in 1..Len(Pending) : Pending[i] \in Changes
    BY <1>4, SeqFacts
  <2> QED
    BY <2>1, AppliedFacts DEF KernelOK
<1> QED
  BY <1>5, <1>6 DEF WillFire

(* An event that is somewhere is counted.                                  *)
LEMMA Counted ==
  ASSUME ReaderInv, NEW c \in Accepted, AtBatch("READ", c) \/ Passed("READ", c)
  PROVE  InFlight("READ", c) > 0
<1> DEFINE S1 == {e \in batch : e.filt = "READ" /\ e.id = c}
           S2 == {i \in DOMAIN msgQ : msgQ[i].filt = "READ" /\ msgQ[i].id = c}
           S3 == InHand("READ", c)
           r  == IF regMsg.filt = "READ" /\ regMsg.id = c THEN 1 ELSE 0
<1>1. /\ \A x, y \in S1 : x = y
      /\ \A x, y \in S2 : x = y
      /\ \A x, y \in S3 : x = y
  BY DEF ReaderInv, OneMessage, Is, InHands, InHand
<1>2. S1 # {} \/ r = 1 \/ S2 # {} \/ S3 # {}
  BY DEF AtBatch, Passed, AtReg, AtQueue, AtHand, Is, InHands, InHand
<1>3. r \in {0, 1}
  OBVIOUS
<1>4. InFlight("READ", c) = Cardinality(S1) + r + Cardinality(S2) + Cardinality(S3)
  BY DEF InFlight
<1> HIDE DEF S1, S2, S3, r
<1>5. ASSUME NEW S, \A x, y \in S : x = y
      PROVE  Cardinality(S) \in {0, 1} /\ (S # {} => Cardinality(S) = 1)
  <2>1. CASE S = {}
    BY <2>1, FS_EmptySet
  <2>2. CASE S # {}
    <3>1. PICK x : S = {x}
      BY <1>5, <2>2
    <3> QED
      BY <3>1, FS_Singleton
  <2> QED
    BY <2>1, <2>2
<1>6. /\ Cardinality(S1) \in {0, 1} /\ Cardinality(S2) \in {0, 1} /\ Cardinality(S3) \in {0, 1}
      /\ S1 # {} => Cardinality(S1) = 1
      /\ S2 # {} => Cardinality(S2) = 1
      /\ S3 # {} => Cardinality(S3) = 1
  BY <1>1, <1>5
<1> QED
  BY <1>2, <1>3, <1>4, <1>6

(* NoDeafClient: a client that is not being removed is always going to be  *)
(* read.                                                                   *)
THEOREM NobodyGoesDeaf == Spec => []NoDeafClient
<1>1. IInv /\ ReaderInv /\ WatchInv => NoDeafClient
  <2> SUFFICES ASSUME IInv, ReaderInv, WatchInv, NEW c \in Listed, Staying(c)
               PROVE  InFlight("READ", c) > 0 \/ WillFire("READ", c)
    BY DEF NoDeafClient
  <2>1. c \in Accepted /\ ~ Gone(c) /\ "READ" \in Filters
    BY DEF Listed, Gone, Filters
  <2>2. Held(c)
    BY <2>1 DEF Listed, Held, IInv, SlotsOK
  <2>3. AtBatch("READ", c) \/ Passed("READ", c) \/ Coming(c, "READ").st = "on"
    BY <2>1 DEF WatchInv, NeverDeaf
  <2>4. KernelOK
    BY DEF ReaderInv, KnotesOK
  <2> QED
    BY <2>1, <2>2, <2>3, <2>4, Counted, FiresWhenOn
<1> QED
  BY <1>1, Invariance, ReaderInvariance, WatchInvariance, PTL

------------------------------------------------------------------------------

(***************************************************************************)
(* Output is written: no WRITE knote is deleted, main turns one off only   *)
(* for an event that a worker will answer, and a worker leaves off only    *)
(* with nothing left to send.                                              *)
(***************************************************************************)

(* A client that no event, no command and no output is of yet.             *)
Untouched(c) ==
  /\ ustate[c] = "NEW" /\ outBuf[c] = 0
  /\ \A f \in Filters : ~ AtBatch(f, c) /\ ~ Passed(f, c)
  /\ \A w \in Workers : ~ StillToDo(w, c)

(* The events that kevent returned are as it returned them, and their      *)
(* descriptor belongs to nobody else who has been heard of: main disables  *)
(* the WRITE knote of no client that waits for it.                         *)
Newcomers ==
  \A e \in batch : e.filt \in Filters =>
    /\ e = Event(e.filt, e.fd, e.id)
    /\ \A c \in Accepted : Held(c) /\ fdOf[c] = e.fd => c = e.id \/ Untouched(c)

(* The WRITE knote of a client is deleted by nothing but the closing of    *)
(* its descriptor.                                                         *)
WriteKnote == \A c \in Accepted : Held(c) => Coming(c, "WRITE").st # "absent"

(* A client on the list that has output, or that only a write can close.   *)
Obliged(c) == c \in Listed /\ (outBuf[c] > 0 \/ ustate[c] = "UNAVAIL")

(* A worker that holds a WRITE event of the client and will send, close or *)
(* enable the knote again.                                                 *)
Writes(w, c) == InHands(w, "WRITE", c) /\ (wpc[w] # "more" \/ outBuf[c] > 0)

OutputMoves ==
  \A c \in Accepted : Obliged(c) =>
    \/ Queued("WRITE", c)
    \/ \E w \in Workers : Writes(w, c)
    \/ Coming(c, "WRITE").st = "on"
    \/ \E w \in Workers : StillToDo(w, c)

WriteInv == Newcomers /\ WriteKnote /\ OutputMoves

(* Nothing deletes the WRITE knote of a client that is referred to: a      *)
(* removal deletes the READ knote alone.                                   *)
LEMMA WriteKnoteStep ==
  ASSUME IInv, ReaderInv, WatchInv, WriteInv, [Next]_vars
  PROVE  WriteKnote'
<1>0. KnotesOK /\ WriteKnote /\ "WRITE" \in Filters
  BY DEF ReaderInv, WriteInv, Filters
<1> SUFFICES ASSUME NEW c \in Accepted', Held(c)'
             PROVE  Coming(c, "WRITE")'.st # "absent"
  BY DEF WriteKnote
<1>1. CASE c \notin Accepted
  <2>1. Coming(c, "WRITE")' = [st |-> "off", udata |-> c]
    BY <1>0, <1>1, NewKnote
  <2> QED
    BY <2>1
<1>2. CASE c \in Accepted
  <2>1. Held(c)
    BY <1>2, HeldStep
  <2>2. Coming(c, "WRITE").st # "absent"
    BY <1>0, <1>2, <2>1 DEF WriteKnote
  <2>3. \A w, ch : WorkerDoes(w, c, ch) /\ ch.filt = "WRITE" => ch.op = "enable"
    BY DEF WorkerDoes, WorkerRegisters, Change
  <2>4. \/ Coming(c, "WRITE")' = Coming(c, "WRITE")
        \/ Coming(c, "WRITE").st # "absent" => Coming(c, "WRITE")'.st # "absent"
        \/ \E w \in Workers : \E ch :
             /\ WorkerDoes(w, c, ch) /\ ch.filt = "WRITE"
             /\ ch.op = "enable" /\ Coming(c, "WRITE").st # "absent"
                  => Coming(c, "WRITE")'.st = "on"
    BY <1>0, <1>2, <2>1, KnoteOf
  <2>5. \/ Coming(c, "WRITE")' = Coming(c, "WRITE")
        \/ Coming(c, "WRITE").st # "absent" => Coming(c, "WRITE")'.st # "absent"
        \/ Coming(c, "WRITE").st # "absent" => Coming(c, "WRITE")'.st = "on"
    BY <2>3, <2>4
  <2> DEFINE k == Coming(c, "WRITE")
             q == Coming(c, "WRITE")'
  <2>6. \/ q = k
        \/ k.st # "absent" => q.st # "absent"
        \/ k.st # "absent" => q.st = "on"
    BY <2>5
  <2>7. k.st # "absent"
    BY <2>2
  <2> HIDE DEF k, q
  <2>8. q.st # "absent"
    BY <2>6, <2>7
  <2> QED
    BY <2>8 DEF q
<1> QED
  BY <1>1, <1>2

(* How a worker comes to a message.                                        *)
LEMMA HandFrom ==
  ASSUME IInv, ReaderInv, [Next]_vars, NEW c, NEW f \in Filters, NEW w \in Workers,
         InHands(w, f, c)'
  PROVE  InHands(w, f, c) \/ Queued(f, c)
<1> USE DEF kernelVars, mainVars, clientVars, workerVars
<1>1. CASE UNCHANGED <<msg, wpc>>
  BY <1>1 DEF InHands
<1>2. CASE MainNext \/ PeerNext \/ UNCHANGED vars
  BY <1>1, <1>2 DEF MainNext, Take, Apply, Scan, DispatchError, DispatchAccept,
     DispatchDisable, DispatchPush, DispatchDone, PeerNext, Connect, PeerSend, PeerShut,
     PeerReset, vars
<1>3. ASSUME NEW v \in Workers, WorkerNext(v), v # w PROVE InHands(w, f, c)
  <2>1. msg'[w] = msg[w] /\ wpc'[w] = wpc[w]
    BY <1>3, WorkerMessages
  <2> QED
    BY <2>1 DEF InHands
<1>4. CASE WorkerNext(w)
  <2>1. CASE Pop(w)
    <3>1. 1 \in DOMAIN msgQ /\ msg'[w] = msgQ[1]
      BY <2>1, PopFacts DEF IInv, TypeOK
    <3> QED
      BY <3>1 DEF InHands, Queued, AtQueue
  <2>2. CASE ~ Pop(w)
    <3>1. UNCHANGED msg /\ wpc[w] \notin {"idle", "release"}
      BY <1>4, <2>2, WorkerMessages DEF InHands
    <3> QED
      BY <3>1 DEF InHands
  <2> QED
    BY <2>1, <2>2
<1> QED
  BY <1>2, <1>3, <1>4 DEF Next

(* Nothing but a scan brings an event of a client that has none, and only  *)
(* its own commands, or those of others once it is registered, are for it. *)
LEMMA UntouchedStays ==
  ASSUME IInv, ReaderInv, WatchInv, [Next]_vars, ~ Scan, NEW c \in Accepted, Untouched(c)
  PROVE  Untouched(c)'
<1>0. /\ TypeOK /\ WorkersOK /\ KnotesOK /\ ClientsOK /\ c \in Ids
      /\ "READ" \in Filters /\ "WRITE" \in Filters
      /\ ustate \in [Ids -> {"NEW", "LIVE", "UNAVAIL", "CLOSE"}]
      /\ outBuf \in [Ids -> Nat] /\ Accepted \subseteq Ids
  BY ConstantsAssumption
  DEF IInv, TypeOK, ReaderInv, WatchInv, ClientsOK, Accepted, Ids, Filters
<1>1. \A f \in Filters : ~ Queued(f, c) /\ \A w \in Workers : ~ InHands(w, f, c)
  BY DEF Untouched, Queued, Passed, AtHand
<1>2. ASSUME NEW w \in Workers PROVE \A op : ~ DoesTo(w, op, c)
  <2> SUFFICES ASSUME NEW op, DoesTo(w, op, c) PROVE FALSE
    OBVIOUS
  <2>1. 1 \in DOMAIN todo[w] /\ todo[w][1].cl = c
    BY Doing
  <2> QED
    BY <2>1 DEF Untouched, StillToDo
<1>3. ASSUME NEW w \in Workers, opCl[w] = c
      PROVE  wpc[w] \notin {"recv", "lines", "cmd", "bye", "rearm", "send", "sent", "close", "more"}
  BY <1>0, <1>1, <1>3, AtWork, Writing
<1>4. ustate'[c] = "NEW"
  <2>0. ustate[c] = "NEW"
    BY DEF Untouched
  <2>1. ASSUME NEW d \in Accepted, d # c, Marks(d) \/ Enrols(d) \/ Closes(d)
        PROVE  ustate'[c] = ustate[c]
    BY <1>0, <2>1 DEF Marks, Enrols, Closes
  <2>2. ASSUME NEW w \in Workers, CloseSent(w) PROVE opCl[w] # c
    BY <1>3, <2>2 DEF CloseSent
  <2> QED
    BY <1>0, <1>2, <2>0, <2>1, <2>2, ClientSteps DEF Enters
<1>5. outBuf'[c] = 0
  <2>0. outBuf[c] = 0
    BY DEF Untouched
  <2>1. ASSUME NEW d \in Accepted, d # c,
               \/ outBuf' = [outBuf EXCEPT ![d] = @ + 1]
               \/ Empties(d)
               \/ \E n \in 0..outBuf[d] : outBuf' = [outBuf EXCEPT ![d] = @ - n]
        PROVE  outBuf'[c] = outBuf[c]
    BY <1>0, <2>1 DEF Empties
  <2>2. ASSUME NEW w \in Workers, CloseSent(w) \/ Send(w) PROVE opCl[w] # c
    BY <1>3, <2>2 DEF CloseSent, Send
  <2> QED
    BY <1>0, <1>2, <2>0, <2>1, <2>2, OutSteps
<1>6. ASSUME NEW f \in Filters PROVE ~ AtBatch(f, c)' /\ ~ Passed(f, c)'
  <2>1. ~ Queued(f, c)'
    BY <1>1, <1>6, QueuedFrom
  <2>2. \A w \in Workers : ~ InHands(w, f, c)'
    BY <1>1, <1>6, HandFrom
  <2> QED
    BY <2>1, <2>2 DEF Queued, Passed, AtHand
<1>7. ASSUME NEW w \in Workers, StillToDo(w, c)' PROVE FALSE
  <2>0. ~ StillToDo(w, c) /\ ustate[c] # "LIVE"
    BY DEF Untouched
  <2>1. PICK i \in DOMAIN todo'[w] : todo'[w][i].cl = c
    BY <1>7 DEF StillToDo
  <2>2. ASSUME NEW e, e = todo'[w], Starts(e, opCl[w]), opCl[w] # c PROVE FALSE
    <3>1. ustate[c] = "LIVE"
      BY <2>1, <2>2 DEF Starts
    <3> QED
      BY <2>0, <3>1
  <2>3. CASE todo'[w] = todo[w]
    BY <2>0, <2>1, <2>3 DEF StillToDo
  <2>4. CASE Do(w) /\ wpc[w] \in {"cmd", "bye"} /\ todo'[w] = Tail(todo[w])
    <3>1. \E j \in DOMAIN todo[w] : todo[w][j] = todo'[w][i]
      <4> DEFINE n == Len(todo[w])
      <4>1. /\ n \in Nat \ {0} /\ DOMAIN todo[w] = 1..n /\ DOMAIN Tail(todo[w]) = 1..(n - 1)
            /\ \A j \in 1..(n - 1) : Tail(todo[w])[j] = todo[w][j + 1]
        BY <2>4, HeadOfTodo
      <4>2. i \in 1..(n - 1) /\ todo'[w][i] = todo[w][i + 1]
        BY <2>1, <2>4, <4>1
      <4> HIDE DEF n
      <4>3. i + 1 \in 1..n
        BY <4>1, <4>2
      <4> QED
        BY <4>1, <4>2, <4>3
    <3> QED
      BY <2>0, <2>1, <3>1 DEF StillToDo
  <2>5. CASE /\ wpc[w] = "recv" /\ opCl[w] \in Accepted
             /\ todo'[w] = Append(Removal(opCl[w]), [op |-> "close", cl |-> opCl[w]])
    <3>1. opCl[w] # c
      BY <1>3, <2>5
    <3> QED
      BY <2>2, <2>5, <3>1, CommandsStart
  <2>6. CASE /\ wpc[w] = "lines" /\ opCl[w] \in Accepted
             /\ \E e \in Effects(opCl[w]) : todo'[w] = e
    <3>1. opCl[w] # c
      BY <1>3, <2>6
    <3> QED
      BY <2>2, <2>6, <3>1, CommandsStart
  <2> QED
    BY <2>3, <2>4, <2>5, <2>6, TodoSteps
<1> QED
  BY <1>4, <1>5, <1>6, <1>7 DEF Untouched

(* Every step keeps the newly accepted clients untouched: nobody else      *)
(* gives them output or has their descriptor.                              *)
LEMMA NewcomersStep ==
  ASSUME IInv, ReaderInv, WatchInv, WriteInv, [Next]_vars
  PROVE  Newcomers'
<1>0. /\ KnotesOK /\ KernelOK /\ MessagesGood /\ OwnUdata /\ Newcomers /\ ClientsOK
  BY DEF ReaderInv, WatchInv, WriteInv, KnotesOK
<1> SUFFICES ASSUME NEW e \in batch', e.filt \in Filters
             PROVE  /\ e = Event(e.filt, e.fd, e.id)
                    /\ \A c \in Accepted' : Held(c)' /\ fdOf'[c] = e.fd =>
                         c = e.id \/ Untouched(c)'
  BY DEF Newcomers
<1>1. CASE Scan
  <2>1. PICK d \in Accepted : /\ Held(d) /\ Soon(d, e.filt).st = "on"
                              /\ e = Event(e.filt, fdOf[d], d)
    BY <1>0, <1>1, ScanFacts
  <2>2. e.fd = fdOf[d] /\ e.id = d
    BY <2>1 DEF Event
  <2>3. e = Event(e.filt, e.fd, e.id)
    BY <2>1, <2>2
  <2>4. Accepted' = Accepted /\ fdOf' = fdOf
    BY <1>1 DEF Scan, Accepted, clientVars
  <2>5. \A c \in Accepted : Held(c)' => Held(c)
    BY HeldStep
  <2> QED
    BY <2>1, <2>2, <2>3, <2>4, <2>5 DEF IInv, SlotsOK
<1>2. CASE ~ Scan
  <2>1. e \in batch
    <3>1. batch' \subseteq batch
      <4>1. CASE \/ Take \/ Apply \/ DispatchError \/ DispatchAccept \/ DispatchDisable
                 \/ DispatchPush \/ DispatchDone
        BY <4>1 DEF Take, Apply, DispatchError, DispatchAccept, DispatchDisable,
           DispatchPush, DispatchDone
      <4> QED
        BY <1>2, <4>1, OthersKeep DEF Next, MainNext
    <3> QED
      BY <3>1
  <2>2. ASSUME NEW c \in Accepted', Held(c)', fdOf'[c] = e.fd, c # e.id
        PROVE  Untouched(c)'
    <3>1. CASE c \in Accepted
      <4>1. Held(c) /\ fdOf[c] = e.fd
        BY <2>2, <3>1, HeldStep, IdsStay
      <4>2. Untouched(c)
        BY <1>0, <2>1, <2>2, <3>1, <4>1 DEF Newcomers
      <4> QED
        BY <1>2, <3>1, <4>2, UntouchedStays
    <3>2. CASE c \notin Accepted
      <4>1. PICK id \in Ids : Enters(id) /\ DispatchAccept
        BY <1>0, <3>2, NewClients
      <4>2. id = c /\ ustate' = ustate /\ ustate[c] = "NEW" /\ outBuf[c] = 0
        BY <1>0, <3>2, <4>1 DEF Enters, ClientsOK
      <4>3. outBuf' = outBuf /\ todo' = todo /\ UNCHANGED workerVars
        BY <4>1 DEF DispatchAccept, workerVars
      <4>4. ASSUME NEW f \in Filters PROVE ~ AtBatch(f, c)' /\ ~ Passed(f, c)'
        <5>1. ~ AtBatch(f, c) /\ ~ Passed(f, c)
          BY <1>0, <3>2, Nowhere
        <5>2. ~ Queued(f, c)'
          BY <1>2, <5>1, QueuedFrom DEF Queued, Passed
        <5>3. \A w \in Workers : ~ InHands(w, f, c)'
          BY <5>1, HandFrom DEF Queued, Passed, AtHand
        <5> QED
          BY <5>2, <5>3 DEF Queued, Passed, AtHand
      <4>5. \A w \in Workers : ~ StillToDo(w, c)'
        BY <3>2, <4>3 DEF StillToDo, IInv, WorkersOK
      <4> QED
        BY <4>2, <4>3, <4>4, <4>5 DEF Untouched
    <3> QED
      BY <3>1, <3>2
  <2> QED
    BY <1>0, <2>1, <2>2 DEF Newcomers
<1> QED
  BY <1>1, <1>2

------------------------------------------------------------------------------

(* Nobody comes back to the list.                                          *)
LEMMA ListedBefore ==
  ASSUME IInv, KnotesOK, [Next]_vars, NEW c \in Accepted, c \in Listed'
  PROVE  c \in Listed
<1>0. /\ fdOf[c] \in Fds /\ c # None /\ clList \in [Fds -> Ids \cup {None}] /\ c \in Ids
  BY ConstantsAssumption DEF IInv, SlotsOK, TypeOK, Accepted, None, Ids
<1>1. clList'[fdOf[c]] = c /\ (c \in Listed <=> clList[fdOf[c]] = c)
  BY ListedAfter
<1>2. CASE clList' = clList
  BY <1>1, <1>2
<1>3. ASSUME NEW id \in Ids, Enters(id) PROVE c \in Listed
  <2>1. id # c /\ clList' = [clList EXCEPT ![fdOf'[id]] = id]
    BY <1>3 DEF Enters
  <2> QED
    BY <1>0, <1>1, <2>1
<1>4. ASSUME NEW d, Closes(d) PROVE c \in Listed
  BY <1>0, <1>1, <1>4 DEF Closes
<1> QED
  BY <1>2, <1>3, <1>4, ClientSteps DEF Marks, Enrols

(* What is left to do for a client after a step: more, an ENABLE of its    *)
(* WRITE knote, or nothing because it is closed.                           *)
LEMMA LeftToDo ==
  ASSUME IInv, ReaderInv, WatchInv, WriteInv, [Next]_vars, NEW c \in Accepted,
         c \in Listed', NEW w \in Workers, StillToDo(w, c)
  PROVE  StillToDo(w, c)' \/ Coming(c, "WRITE")'.st = "on"
<1>0. /\ TypeOK /\ WorkersOK /\ KnotesOK /\ WriteKnote /\ TodoShape /\ "WRITE" \in Filters
      /\ Accepted \subseteq Ids
  BY ConstantsAssumption
  DEF IInv, TypeOK, ReaderInv, WatchInv, WriteInv, Filters, Accepted, Ids
<1>1. PICK i \in DOMAIN todo[w] : todo[w][i].cl = c
  BY DEF StillToDo
<1>2. todo[w] # <<>>
  BY <1>1
<1>3. CASE todo'[w] = todo[w]
  BY <1>1, <1>3 DEF StillToDo
<1>4. CASE Do(w) /\ wpc[w] \in {"cmd", "bye"} /\ todo'[w] = Tail(todo[w])
  <2> DEFINE n == Len(todo[w])
  <2>1. /\ n \in Nat \ {0} /\ DOMAIN todo[w] = 1..n /\ DOMAIN todo'[w] = 1..(n - 1)
        /\ \A j \in 1..(n - 1) : todo'[w][j] = todo[w][j + 1]
        /\ Head(todo[w]) = todo[w][1] /\ Head(todo[w]) \in Ops
        /\ Head(todo[w]).cl \in Accepted /\ Held(Head(todo[w]).cl)
    BY <1>4, HeadOfTodo
  <2>2. ASSUME NEW j \in 1..n, j # 1, todo[w][j].cl = c PROVE StillToDo(w, c)'
    <3>1. j - 1 \in 1..(n - 1) /\ (j - 1) + 1 = j
      <4> HIDE DEF n
      <4> QED
        BY <2>1, <2>2
    <3>2. j - 1 \in DOMAIN todo'[w] /\ todo'[w][j - 1] = todo[w][j]
      BY <2>1, <3>1
    <3> QED
      BY <2>2, <3>2 DEF StillToDo
  <2>3. CASE i # 1
    BY <1>1, <2>1, <2>2, <2>3
  <2>4. CASE i = 1
    <3>1. todo[w][1].cl = c /\ Head(todo[w]).cl = c /\ Held(c) /\ 1 \in DOMAIN todo[w]
      BY <1>1, <2>1, <2>4
    <3> DEFINE op == Head(todo[w]).op
    <3>2. DoesTo(w, op, c) /\ op = todo[w][1].op
          /\ op \in {"delete", "mark", "register", "append", "enable", "close"}
      BY <1>4, <2>1, <3>1 DEF DoesTo, Ops
    <3>3. CASE op \in {"delete", "mark", "append", "register"}
      <4>1. 1 + 1 \in DOMAIN todo[w] /\ todo[w][1 + 1].cl = todo[w][1].cl
        BY <1>0, <3>1, <3>2, <3>3 DEF TodoShape, Shaped
      <4>2. 2 \in 1..n /\ 2 # 1 /\ todo[w][2].cl = c
        BY <2>1, <3>1, <4>1
      <4> QED
        BY <2>2, <4>2
    <3>4. CASE op = "close"
      BY <3>2, <3>4, RemovedGoes
    <3>5. CASE op = "enable"
      <4> DEFINE ch == Change(fdOf[c], "WRITE", "enable", c)
      <4>1. ch \in Changes /\ ch.op = "enable" /\ ch.fd = fdOf[c] /\ ch.filt = "WRITE"
        BY <1>0, ChangeOK DEF Change
      <4>2. changes' = changes \o <<ch>> /\ UNCHANGED <<knote, fdOf, tmpList, mpc>>
        BY <1>4, <3>1, <3>5 DEF Do, Perform, RegEvents, Udata, mainVars
      <4> HIDE DEF ch
      <4>3. Registers(ch)
        BY <1>0, <4>1, <4>2, OneMoreChange DEF KnotesOK
      <4>4. Coming(c, "WRITE")' = Eff(Coming(c, "WRITE"), ch, fdOf[c], "WRITE")
        BY <1>0, <3>1, <4>3 DEF Registers
      <4>5. Coming(c, "WRITE").st # "absent"
        BY <1>0, <3>1 DEF WriteKnote
      <4>6. Eff(Coming(c, "WRITE"), ch, fdOf[c], "WRITE").st = "on"
        BY <4>1, <4>5, EffFacts
      <4> QED
        BY <4>4, <4>6
    <3> QED
      BY <3>2, <3>3, <3>4, <3>5
  <2> QED
    BY <2>3, <2>4
<1> QED
  BY <1>2, <1>3, <1>4, TodoSteps

(* An append and a mark are not the last step of a command.                *)
LEMMA Followed ==
  ASSUME IInv, ReaderInv, WatchInv, [Next]_vars, NEW c \in Accepted, NEW w \in Workers,
         DoesTo(w, "append", c) \/ DoesTo(w, "mark", c)
  PROVE  StillToDo(w, c)'
<1>1. /\ Do(w) /\ wpc[w] \in {"cmd", "bye"}
      /\ Head(todo[w]).op \in {"append", "mark"} /\ Head(todo[w]).cl = c
  BY DEF DoesTo
<1> DEFINE n == Len(todo[w])
<1>2. /\ n \in Nat \ {0} /\ DOMAIN todo[w] = 1..n /\ DOMAIN Tail(todo[w]) = 1..(n - 1)
      /\ \A j \in 1..(n - 1) : Tail(todo[w])[j] = todo[w][j + 1]
      /\ Head(todo[w]) = todo[w][1]
  BY <1>1, HeadOfTodo
<1>3. todo'[w] = Tail(todo[w])
  BY <1>1 DEF Do, IInv, TypeOK
<1>4. 1 + 1 \in DOMAIN todo[w] /\ todo[w][1 + 1].cl = c
  <2>1. 1 \in DOMAIN todo[w] /\ todo[w][1].op \in {"append", "mark"} /\ todo[w][1].cl = c
    BY <1>1, <1>2
  <2> QED
    BY <2>1 DEF WatchInv, TodoShape, Shaped
<1>5. 1 \in 1..(n - 1)
  <2>1. 1 + 1 \in 1..n /\ n \in Nat
    BY <1>2, <1>4
  <2> HIDE DEF n
  <2> QED
    BY <2>1
<1>6. 1 \in DOMAIN todo'[w] /\ todo'[w][1].cl = c
  BY <1>2, <1>3, <1>4, <1>5
<1> QED
  BY <1>6 DEF StillToDo

(* A client comes to need a write by a step that another step of the same  *)
(* client follows.                                                         *)
LEMMA ObligedFrom ==
  ASSUME IInv, ReaderInv, WatchInv, [Next]_vars, NEW c \in Accepted,
         Obliged(c)', ~ Obliged(c)
  PROVE  \E w \in Workers : StillToDo(w, c)'
<1>0. /\ TypeOK /\ WorkersOK /\ KnotesOK /\ ClientsOK /\ TodoShape /\ c \in Ids
      /\ ustate \in [Ids -> {"NEW", "LIVE", "UNAVAIL", "CLOSE"}]
      /\ outBuf \in [Ids -> Nat] /\ Accepted \subseteq Ids
  BY ConstantsAssumption
  DEF IInv, TypeOK, ReaderInv, WatchInv, ClientsOK, Accepted, Ids
<1>1. c \in Listed' /\ c \in Listed
  BY <1>0, ListedBefore DEF Obliged
<1>2. /\ outBuf[c] = 0 /\ ustate[c] # "UNAVAIL"
      /\ outBuf'[c] > 0 \/ ustate'[c] = "UNAVAIL"
  BY <1>0, <1>1 DEF Obliged
<1>3. CASE outBuf'[c] > 0
  <2>1. outBuf'[c] # outBuf[c]
    BY <1>2, <1>3
  <2>2. ASSUME NEW d \in Accepted, Empties(d) PROVE FALSE
    <3>1. outBuf'[c] \in {outBuf[c], 0}
      BY <1>0, <2>2 DEF Empties
    <3> QED
      BY <1>2, <1>3, <3>1
  <2>3. ASSUME NEW d \in Accepted, NEW n \in 0..outBuf[d], outBuf' = [outBuf EXCEPT ![d] = @ - n]
        PROVE  FALSE
    <3>1. CASE d # c
      BY <1>0, <2>1, <2>3, <3>1
    <3>2. CASE d = c
      <4>1. n = 0 /\ outBuf'[c] = outBuf[c] - n
        BY <1>0, <1>2, <2>3, <3>2
      <4> QED
        BY <1>2, <2>1, <4>1
    <3> QED
      BY <3>1, <3>2
  <2>4. ASSUME NEW d \in Accepted, outBuf' = [outBuf EXCEPT ![d] = @ + 1] PROVE d = c
    BY <1>0, <2>1, <2>4
  <2>5. PICK w \in Workers : DoesTo(w, "append", c)
    BY <1>0, <2>1, <2>2, <2>3, <2>4, OutSteps
  <2> QED
    BY <2>5, Followed
<1>4. CASE ustate'[c] = "UNAVAIL"
  <2>1. ASSUME NEW d \in Accepted, Marks(d), d # c PROVE FALSE
    BY <1>0, <1>2, <1>4, <2>1 DEF Marks
  <2>2. ASSUME NEW d \in Accepted, Enrols(d) \/ Closes(d) PROVE FALSE
    BY <1>0, <1>2, <1>4, <2>2 DEF Enrols, Closes
  <2>3. ASSUME NEW id \in Ids, Enters(id) PROVE FALSE
    BY <1>2, <1>4, <2>3 DEF Enters
  <2>4. PICK w \in Workers : DoesTo(w, "mark", c)
    BY <1>0, <1>2, <1>4, <2>1, <2>2, <2>3, ClientSteps
  <2> QED
    BY <2>4, Followed
<1> QED
  BY <1>2, <1>3, <1>4

------------------------------------------------------------------------------

(* Output that is there stays, or a worker is about to look at what it     *)
(* sent of it.                                                             *)
LEMMA OutputLeft ==
  ASSUME IInv, ReaderInv, WatchInv, [Next]_vars, NEW c \in Accepted, c \in Listed',
         outBuf[c] > 0
  PROVE  outBuf'[c] > 0 \/ \E v \in Workers : Writes(v, c)'
<1>0. /\ TypeOK /\ KnotesOK /\ ClientsOK /\ c \in Ids /\ outBuf \in [Ids -> Nat]
      /\ Accepted \subseteq Ids
  BY ConstantsAssumption
  DEF IInv, TypeOK, ReaderInv, WatchInv, ClientsOK, Accepted, Ids
<1>1. CASE outBuf' = outBuf
  BY <1>1
<1>2. ASSUME NEW d \in Accepted, outBuf' = [outBuf EXCEPT ![d] = @ + 1]
      PROVE  outBuf'[c] > 0
  <2>1. outBuf'[c] = outBuf[c] \/ outBuf'[c] = outBuf[c] + 1
    BY <1>0, <1>2
  <2>2. outBuf[c] \in Nat
    BY <1>0
  <2> QED
    BY <2>1, <2>2
<1>3. ASSUME NEW d \in Accepted, Empties(d), d # c PROVE outBuf'[c] > 0
  <2>1. outBuf'[c] = outBuf[c]
    BY <1>0, <1>3 DEF Empties
  <2> QED
    BY <2>1
<1>4. ASSUME Closes(c) PROVE FALSE
  <2>1. fdOf[c] \in Fds /\ c # None /\ clList \in [Fds -> Ids \cup {None}]
    BY <1>0, ConstantsAssumption DEF IInv, SlotsOK, TypeOK, Accepted, None, Ids
  <2>2. clList'[fdOf[c]] = None
    BY <1>4, <2>1 DEF Closes
  <2> QED
    BY <2>1, <2>2, ListedAfter
<1>5. ASSUME NEW w \in Workers, Send(w), NEW d \in Accepted, d = opCl[w],
             NEW n \in 0..outBuf[d], outBuf' = [outBuf EXCEPT ![d] = @ - n]
      PROVE  outBuf'[c] > 0 \/ Writes(w, c)'
  <2>1. CASE d # c
    <3>1. outBuf'[c] = outBuf[c]
      BY <1>0, <1>5, <2>1
    <3> QED
      BY <3>1
  <2>2. CASE d = c
    <3>1. InHands(w, "WRITE", c)
      BY <1>5, <2>2, Writing DEF Send
    <3>2. msg' = msg /\ wpc'[w] = "sent"
      BY <1>0, <1>5 DEF Send, Goto, TypeOK
    <3> QED
      BY <3>1, <3>2 DEF InHands, Is, Writes
  <2> QED
    BY <2>1, <2>2
<1> QED
  BY <1>0, <1>1, <1>2, <1>3, <1>4, <1>5, OutSteps

(* A worker that holds a WRITE event sends, and then closes the client or  *)
(* enables the knote again unless nothing needs it.                        *)
LEMMA HandMoves ==
  ASSUME IInv, ReaderInv, WatchInv, WriteInv, [Next]_vars, NEW c \in Accepted,
         Obliged(c), Obliged(c)', NEW w \in Workers, Writes(w, c)
  PROVE  (\E v \in Workers : Writes(v, c)') \/ Coming(c, "WRITE")'.st = "on"
<1>0. /\ TypeOK /\ WorkersOK /\ KnotesOK /\ MessagesGood /\ ClientsOK /\ Roles
      /\ AnswersItsOwn /\ WriteKnote /\ "WRITE" \in Filters
      /\ msg[w].filt = "WRITE" /\ msg[w].id = c /\ wpc[w] \notin {"idle", "release"}
      /\ c \in Listed /\ clList[fdOf[c]] = c /\ c # None /\ ustate[c] # "CLOSE"
      /\ fdOf[c] \in Fds /\ clList \in [Fds -> Ids \cup {None}]
      /\ c \in Listed' /\ c \in Ids /\ outBuf[c] \in Nat
      /\ outBuf[c] > 0 \/ ustate[c] = "UNAVAIL"
  BY ConstantsAssumption
  DEF IInv, SlotsOK, TypeOK, ReaderInv, WatchInv, WriteInv, InHands, Is, Listed, Accepted,
      Ids, None, Filters, Writes, Obliged, ClientsOK
<1> USE DEF kernelVars, mainVars, clientVars, workerVars
<1>1. ASSUME msg'[w] = msg[w], wpc'[w] \notin {"idle", "release", "more"}
      PROVE  Writes(w, c)'
  BY <1>0, <1>1 DEF Writes, InHands, Is
<1>2. ASSUME msg'[w] = msg[w], wpc'[w] = wpc[w]
      PROVE  \E v \in Workers : Writes(v, c)'
  <2>1. CASE wpc[w] # "more"
    BY <1>0, <1>1, <1>2, <2>1
  <2>2. CASE wpc[w] = "more"
    <3>1. outBuf[c] > 0
      BY <2>2 DEF Writes
    <3>2. outBuf'[c] > 0 \/ \E v \in Workers : Writes(v, c)'
      BY <1>0, <3>1, OutputLeft
    <3>3. outBuf'[c] > 0 => Writes(w, c)'
      BY <1>0, <1>2, <2>2 DEF Writes, InHands, Is
    <3> QED
      BY <3>2, <3>3
  <2> QED
    BY <2>1, <2>2
<1>3. CASE MainNext \/ PeerNext \/ UNCHANGED vars
  <2>1. UNCHANGED <<wpc, msg>>
    BY <1>3 DEF MainNext, Take, Apply, Scan, DispatchError, DispatchAccept,
       DispatchDisable, DispatchPush, DispatchDone, PeerNext, Connect, PeerSend, PeerShut,
       PeerReset, vars
  <2> QED
    BY <1>2, <2>1
<1>4. ASSUME NEW v \in Workers, WorkerNext(v), v # w PROVE \E u \in Workers : Writes(u, c)'
  BY <1>2, <1>4, WorkerMessages
<1>5. CASE WorkerNext(w)
  <2>1. CASE Pop(w) \/ Release(w)
    BY <1>0, <2>1 DEF Pop, Release
  <2>2. CASE Find(w)
    <3>1. msg[w].fd = fdOf[c] /\ wpc[w] = "find"
      BY <1>0, <2>2 DEF MessagesGood, Good, Find
    <3>2. msg' = msg /\ wpc'[w] = "check"
      BY <1>0, <2>2, <3>1 DEF Find, SameClient, Goto, TypeOK
    <3> QED
      BY <1>1, <3>2
  <2>3. CASE Check(w)
    <3>1. msg' = msg /\ wpc'[w] = "send"
      BY <1>0, <2>3 DEF Check, Goto, TypeOK
    <3> QED
      BY <1>1, <3>1
  <2>4. CASE Recv(w) \/ Line(w) \/ Do(w) \/ Rearm(w)
    BY <1>0, <2>4 DEF Recv, Line, Do, Rearm, Roles
  <2>5. CASE Send(w)
    <3>1. msg' = msg /\ wpc'[w] = "sent"
      BY <1>0, <2>5 DEF Send, Goto, TypeOK
    <3> QED
      BY <1>1, <3>1
  <2>6. CASE Sent(w)
    <3>1. /\ msg' = msg /\ outBuf' = outBuf /\ opCl[w] = c
          /\ wpc'[w] = IF ustate[c] = "UNAVAIL" /\ outBuf[c] = 0 THEN "close" ELSE "more"
      BY <1>0, <2>6 DEF Sent, Goto, TypeOK, AnswersItsOwn
    <3>2. CASE wpc'[w] = "close"
      BY <1>1, <3>1, <3>2
    <3>3. CASE wpc'[w] = "more"
      <4>1. outBuf[c] > 0
        BY <1>0, <3>1, <3>3
      <4> QED
        BY <1>0, <3>1, <3>3, <4>1 DEF Writes, InHands, Is
    <3> QED
      BY <3>1, <3>2, <3>3
  <2>7. CASE CloseSent(w)
    <3>1. opCl[w] = c /\ CloseAt(fdOf[c])
      BY <1>0, <2>7 DEF CloseSent, AnswersItsOwn
    <3>2. clList'[fdOf[c]] = None
      BY <1>0, <3>1 DEF CloseAt
    <3> QED
      BY <1>0, <3>2, ListedAfter
  <2>8. CASE More(w)
    <3>1. opCl[w] = c /\ outBuf[c] > 0
      BY <1>0, <2>8 DEF More, AnswersItsOwn, Writes
    <3> DEFINE ch == Change(fdOf[c], "WRITE", "enable", c)
    <3>2. ch \in Changes /\ ch.op = "enable" /\ ch.fd = fdOf[c] /\ ch.filt = "WRITE"
      BY <1>0, ChangeOK DEF Change
    <3>3. changes' = changes \o <<ch>> /\ UNCHANGED <<knote, fdOf, tmpList, mpc>>
      BY <1>0, <2>8, <3>1 DEF More, RegEvents, Udata, mainVars
    <3> HIDE DEF ch
    <3>4. Registers(ch)
      BY <1>0, <3>2, <3>3, OneMoreChange DEF KnotesOK
    <3>5. Held(c)
      BY <1>0 DEF Held
    <3>6. Coming(c, "WRITE")' = Eff(Coming(c, "WRITE"), ch, fdOf[c], "WRITE")
      BY <1>0, <3>4, <3>5 DEF Registers
    <3>7. Coming(c, "WRITE").st # "absent"
      BY <1>0, <3>5 DEF WriteKnote
    <3>8. Eff(Coming(c, "WRITE"), ch, fdOf[c], "WRITE").st = "on"
      BY <3>2, <3>7, EffFacts
    <3> QED
      BY <3>6, <3>8
  <2> QED
    BY <1>5, <2>1, <2>2, <2>3, <2>4, <2>5, <2>6, <2>7, <2>8 DEF WorkerNext
<1> QED
  BY <1>3, <1>4, <1>5 DEF Next

(* Every step keeps output, and the close of a removed client, on its      *)
(* way.                                                                    *)
LEMMA OutputMovesStep ==
  ASSUME IInv, ReaderInv, WatchInv, WriteInv, [Next]_vars
  PROVE  OutputMoves'
<1>0. KnotesOK /\ ClientsOK /\ OutputMoves /\ Newcomers /\ "WRITE" \in Filters
  BY DEF ReaderInv, WatchInv, WriteInv, Filters
<1> SUFFICES ASSUME NEW c \in Accepted', Obliged(c)'
             PROVE  \/ Queued("WRITE", c)'
                    \/ \E w \in Workers : Writes(w, c)'
                    \/ Coming(c, "WRITE")'.st = "on"
                    \/ \E w \in Workers : StillToDo(w, c)'
  BY DEF OutputMoves
<1>1. CASE c \notin Accepted
  <2>1. PICK id \in Ids : Enters(id) /\ DispatchAccept
    BY <1>0, <1>1, NewClients
  <2>2. id = c /\ ustate' = ustate /\ outBuf' = outBuf
    BY <1>1, <2>1 DEF Enters, DispatchAccept
  <2>3. ustate[c] = "NEW" /\ outBuf[c] = 0
    BY <1>0, <1>1, <2>1, <2>2 DEF ClientsOK
  <2> QED
    BY <2>2, <2>3 DEF Obliged
<1>2. CASE c \in Accepted /\ ~ Obliged(c)
  BY <1>2, ObligedFrom
<1>3. CASE c \in Accepted /\ Obliged(c)
  <2>1. c \in Listed' /\ c \in Listed /\ Held(c)
    BY <1>0, <1>3, ListedBefore DEF Obliged, Listed, Held, IInv, SlotsOK
  <2>2. CASE Queued("WRITE", c)
    <3>1. Queued("WRITE", c)' \/ \E w \in Workers : InHands(w, "WRITE", c)' /\ wpc'[w] = "find"
      BY <1>0, <2>2, QueuedTo
    <3> QED
      BY <3>1 DEF Writes
  <2>3. CASE \E w \in Workers : Writes(w, c)
    BY <1>3, <2>3, HandMoves
  <2>4. CASE Coming(c, "WRITE").st = "on"
    <3>0. Coming(c, "WRITE").st # "absent"
      BY <2>4
    <3>1. CASE Coming(c, "WRITE")' = Coming(c, "WRITE")
      BY <2>4, <3>1
    <3>2. ASSUME NEW e \in batch, Disables(e), e.filt = "WRITE", e.fd = fdOf[c]
          PROVE  Queued("WRITE", c)'
      <4>1. regMsg' = e
        BY <3>2 DEF Disables
      <4>2. e.id = c
        <5>1. c = e.id \/ Untouched(c)
          BY <1>0, <1>3, <2>1, <3>2 DEF Newcomers
        <5>2. ~ Untouched(c)
          BY <1>3 DEF Untouched, Obliged
        <5> QED
          BY <5>1, <5>2
      <4> QED
        BY <3>2, <4>1, <4>2 DEF Queued, AtReg, Is
    <3>3. \A w, ch : WorkerDoes(w, c, ch) /\ ch.filt = "WRITE" => ch.op = "enable"
      BY DEF WorkerDoes, WorkerRegisters, Change
    <3> QED
      BY <1>0, <1>3, <2>1, <3>0, <3>1, <3>2, <3>3, KnoteOf
  <2>5. CASE \E w \in Workers : StillToDo(w, c)
    BY <1>3, <2>1, <2>5, LeftToDo
  <2> QED
    BY <1>0, <1>3, <2>2, <2>3, <2>4, <2>5 DEF OutputMoves
<1> QED
  BY <1>1, <1>2, <1>3

(* Before the first connection there is no output.                         *)
LEMMA InitWrite == Init => WriteInv
<1> SUFFICES ASSUME Init PROVE WriteInv
  OBVIOUS
<1>1. Accepted = {} /\ batch = {}
  BY DEF Init, Accepted
<1> QED
  BY <1>1 DEF WriteInv, Newcomers, WriteKnote, OutputMoves

(* The invariant of the WRITE knotes is inductive, beside the three        *)
(* before it.                                                              *)
LEMMA WriteStep == IInv /\ ReaderInv /\ WatchInv /\ WriteInv /\ [Next]_vars => WriteInv'
BY NewcomersStep, WriteKnoteStep, OutputMovesStep DEF WriteInv

(* The invariant under which output is written holds in every state that   *)
(* is reached.                                                             *)
THEOREM WriteInvariance == Spec => []WriteInv
BY InitWrite, WriteStep, Invariance, ReaderInvariance, WatchInvariance, PTL DEF Spec

(* A WRITE event that is somewhere is counted.                             *)
LEMMA WriteCounted ==
  ASSUME IInv, WriteInv, MessagesGood, NEW c \in Accepted,
         Queued("WRITE", c) \/ \E w \in Workers : InHands(w, "WRITE", c)
  PROVE  InFlight("WRITE", c) > 0
<1> DEFINE S1 == {e \in batch : e.filt = "WRITE" /\ e.id = c}
           S2 == {i \in DOMAIN msgQ : msgQ[i].filt = "WRITE" /\ msgQ[i].id = c}
           S3 == InHand("WRITE", c)
           r  == IF regMsg.filt = "WRITE" /\ regMsg.id = c THEN 1 ELSE 0
<1>1. S1 # {} \/ r = 1 \/ S2 # {} \/ S3 # {}
  BY DEF Queued, AtBatch, AtReg, AtQueue, Is, InHands, InHand
<1>2. r \in {0, 1}
  OBVIOUS
<1>3. IsFiniteSet(S1)
  <2>1. \A e \in S1 : e = Event("WRITE", fdOf[c], c)
    BY DEF WriteInv, Newcomers, MessagesGood, Good, Filters
  <2> DEFINE e == Event("WRITE", fdOf[c], c)
  <2>2. S1 \subseteq {e}
    BY <2>1
  <2> HIDE DEF S1, e
  <2>3. IsFiniteSet({e})
    BY FS_Singleton
  <2> QED
    BY <2>2, <2>3, FS_Subset
<1>4. IsFiniteSet(S2)
  <2>1. DOMAIN msgQ = 1..Len(msgQ) /\ Len(msgQ) \in Nat
    BY SeqFacts DEF IInv, MessagesOK
  <2>2. IsFiniteSet(DOMAIN msgQ)
    BY <2>1, FS_Interval
  <2>3. S2 \subseteq DOMAIN msgQ
    OBVIOUS
  <2> HIDE DEF S2
  <2> QED
    BY <2>2, <2>3, FS_Subset
<1>5. IsFiniteSet(S3)
  BY FS_Subset, ConstantsAssumption DEF InHand
<1>6. InFlight("WRITE", c) = Cardinality(S1) + r + Cardinality(S2) + Cardinality(S3)
  BY DEF InFlight
<1> HIDE DEF S1, S2, S3, r
<1>7. \A S : IsFiniteSet(S) => Cardinality(S) \in Nat /\ (S # {} => Cardinality(S) # 0)
  BY FS_CardinalityType, FS_EmptySet
<1>8. /\ Cardinality(S1) \in Nat /\ Cardinality(S2) \in Nat /\ Cardinality(S3) \in Nat
      /\ S1 # {} => Cardinality(S1) # 0
      /\ S2 # {} => Cardinality(S2) # 0
      /\ S3 # {} => Cardinality(S3) # 0
  BY <1>3, <1>4, <1>5, <1>7
<1> QED
  BY <1>1, <1>2, <1>6, <1>8

(* WriteToCome: buffered output always has a write to come, and so has a   *)
(* removed client, which only a write closes.                              *)
THEOREM OutputIsWritten == Spec => []WriteToCome
<1>1. IInv /\ ReaderInv /\ WriteInv => WriteToCome
  <2> SUFFICES ASSUME IInv, ReaderInv, WriteInv, NEW c \in Listed,
                      outBuf[c] > 0 \/ ustate[c] = "UNAVAIL"
               PROVE  \/ InFlight("WRITE", c) > 0
                      \/ WillFire("WRITE", c)
                      \/ \E w \in Workers : StillToDo(w, c)
    BY DEF WriteToCome
  <2>1. c \in Accepted /\ Obliged(c) /\ "WRITE" \in Filters
    BY DEF Listed, Obliged, Filters
  <2>2. Held(c)
    BY <2>1 DEF Listed, Held, IInv, SlotsOK
  <2>3. \/ Queued("WRITE", c)
        \/ \E w \in Workers : InHands(w, "WRITE", c)
        \/ Coming(c, "WRITE").st = "on"
        \/ \E w \in Workers : StillToDo(w, c)
    BY <2>1 DEF WriteInv, OutputMoves, Writes
  <2>4. KernelOK /\ MessagesGood
    BY DEF ReaderInv, KnotesOK
  <2> QED
    BY <2>1, <2>2, <2>3, <2>4, WriteCounted, FiresWhenOn
<1> QED
  BY <1>1, Invariance, ReaderInvariance, WriteInvariance, PTL
==============================================================================
