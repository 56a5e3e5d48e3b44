-------------------------------- MODULE Framing --------------------------------
(***************************************************************************)
(* How bytes become lines, on both ends of the connection: the server      *)
(* (client_read and get_input_buffer of Client.cpp, called by the worker)  *)
(* and the bot (run of Bot.cpp, cmd_proc of BotCore.cpp).  The peer sends  *)
(* some bytes; recv takes any piece of them that fits the local buffer,    *)
(* and the piece is appended as a C string, so a NUL hides the rest of it. *)
(***************************************************************************)
EXTENDS Naturals, Sequences, FiniteSetsExt

CONSTANTS
  Text,       \* bytes other than the next three
  CR, LF, NUL,
  Chunk,      \* INPUT_BUF_SIZE - 1 (server), INPUT_TMP_SIZE - 1 (bot)
  MaxBytes    \* bound on what the peer sends, for TLC

ASSUME FramingAssumption ==
  /\ {CR, LF, NUL} \cap Text = {} /\ CR # LF /\ CR # NUL /\ LF # NUL
  /\ Chunk \in Nat \ {0} /\ MaxBytes \in Nat

VARIABLES
  side,     \* "server" or "bot": whose buffer it is
  sent,     \* what the peer sends in all
  got,      \* how many of its bytes recv has taken
  kept,     \* history: of each piece the bytes before its first NUL
  buffer,   \* _input_buf
  start,    \* start_idx of the bot
  pc,       \* "idle": waits for bytes, "lines": in the loop over the lines
  lines     \* the lines taken out of the buffer

framingVars == <<side, sent, got, kept, buffer, start, pc, lines>>

Bytes == Text \cup {CR, LF, NUL}

FramingInit ==
  /\ side \in {"server", "bot"}
  /\ sent \in UNION {[1..n -> Bytes] : n \in 0..MaxBytes}
  /\ got = 0 /\ start = 0 /\ pc = "idle"
  /\ kept = <<>> /\ buffer = <<>> /\ lines = <<>>

(* _input_buf += buf: the characters before the first NUL.                 *)
UpToNul(piece) ==
  LET nuls == {i \in DOMAIN piece : piece[i] = NUL}
  IN  IF nuls = {} THEN piece ELSE SubSeq(piece, 1, Min(nuls) - 1)

(* buf[ret_recv] = 0 ends the piece after its last byte.                   *)
Piece(n) == SubSeq(sent, got + 1, got + n)

Recv ==
  /\ pc = "idle"
  /\ \E n \in 1..Chunk :
       /\ got + n <= Len(sent)
       /\ got' = got + n
       /\ kept' = kept \o UpToNul(SubSeq(sent, got + 1, got + n))
       /\ buffer' = buffer \o UpToNul(Piece(n))
  /\ pc' = "lines"
  /\ UNCHANGED <<side, sent, start, lines>>

(* find(CRLF, from): where the next line ends, counted from 0, or Len.     *)
EndOfLine(from) ==
  LET ends == {i \in from..(Len(buffer) - 2) :
                 buffer[i + 1] = CR /\ buffer[i + 2] = LF}
  IN  IF ends = {} THEN Len(buffer) ELSE Min(ends)

Complete(from) == EndOfLine(from) < Len(buffer)

------------------------------------------------------------------------------
(* The server: each call of get_input_buffer takes a line off the buffer.  *)
(* The loop of the worker ends when it gets an empty string, which it does *)
(* when no line is complete and when the line is empty.                    *)
MutantRest(end) == SubSeq(buffer, end + 2, Len(buffer))
Rest(end) == SubSeq(buffer, end + 3, Len(buffer))

MutantAfterLine(line) == "idle"
AfterLine(line) == IF line = <<>> THEN "idle" ELSE "lines"

GetInputBuffer ==
  LET end  == EndOfLine(0)
      line == SubSeq(buffer, 1, end)
  IN  /\ side = "server" /\ pc = "lines" /\ Complete(0)
      /\ buffer' = Rest(end)
      /\ lines' = Append(lines, line)
      /\ pc' = AfterLine(line)
      /\ UNCHANGED <<side, sent, got, kept, start>>

NoLine ==
  /\ side = "server" /\ pc = "lines" /\ ~Complete(0)
  /\ pc' = "idle"
  /\ UNCHANGED <<side, sent, got, kept, buffer, start, lines>>

------------------------------------------------------------------------------
(* The bot: cmd_proc goes over the lines by an index and erases them       *)
(* together when no other is complete.                                     *)
NextStart(end) == end + 2

OneCmdProc ==
  LET end == EndOfLine(start)
  IN  /\ side = "bot" /\ pc = "lines" /\ Complete(start)
      /\ lines' = Append(lines, SubSeq(buffer, start + 1, end))
      /\ start' = NextStart(end)
      /\ UNCHANGED <<side, sent, got, kept, buffer, pc>>

Erase ==
  /\ side = "bot" /\ pc = "lines" /\ ~Complete(start)
  /\ buffer' = SubSeq(buffer, start + 1, Len(buffer))
  /\ start' = 0
  /\ pc' = "idle"
  /\ UNCHANGED <<side, sent, got, kept, lines>>

------------------------------------------------------------------------------
FramingNext == Recv \/ GetInputBuffer \/ NoLine \/ OneCmdProc \/ Erase

(* Both sides take bytes that are there and handle what they took: kevent  *)
(* reports the descriptor and the workers run; recv of the bot blocks only *)
(* while there is nothing to read.                                         *)
FramingSpec ==
  FramingInit /\ [][FramingNext]_framingVars /\ WF_framingVars(FramingNext)

------------------------------------------------------------------------------
(* Properties.                                                             *)

Stream == INSTANCE LineStream WITH arrived <- kept, delivered <- lines

(* Server and bot hand on the lines of what they received, each once, in   *)
(* order and cut at CR LF only, however recv splits them, a CR LF          *)
(* included; a NUL costs the rest of its piece and nothing else.           *)
ImplementsStream == Stream!Spec

(* Every complete line is handed on in the end, whether or not another     *)
(* byte comes: by the bot always, by the server if no empty line precedes  *)
(* it, since an empty line ends the loop of the worker as no line does.    *)
LinesServed ==
  \A n \in 1..(MaxBytes \div 2) :
    LET earlier(e) == Stream!EndsBefore(kept, e)
        due == \E e \in Stream!Ends(kept) :
                 /\ Cardinality(earlier(e)) = n - 1
                 /\ side = "bot" \/ \A d \in earlier(e) : Stream!Line(kept, d) # <<>>
    IN  due ~> Len(lines) >= n
==============================================================================
