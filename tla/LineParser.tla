------------------------------ MODULE LineParser ------------------------------
(***************************************************************************)
(* _parsing_msg of Operator.cpp: one line is cut into prefix, command and  *)
(* arguments by an index that walks over it.  Positions and lengths are    *)
(* size_t, find answers npos (the largest of them) when it finds nothing,  *)
(* and the walk relies on the arithmetic wrapping around: cmd_len is npos  *)
(* less the index, and the sum is npos again, which ends it.  The parser   *)
(* of the bot (BotCore.cpp) is the same code with other command names.     *)
(*                                                                         *)
(* A line is a sequence of characters, positions in it count from 0.       *)
(***************************************************************************)
EXTENDS Naturals, Sequences, FiniteSets

CONSTANTS
  Chars,      \* characters that are neither a space nor a colon
  Commands,   \* the command names, as sequences of characters
  Width,      \* width of size_t in bits
  MaxLen      \* bound on the length of a line, for TLC

SPACE == " "
COLON == ":"

ASSUME ParserAssumption ==
  /\ SPACE \notin Chars /\ COLON \notin Chars
  /\ Commands \subseteq Seq(Chars) \ {<<>>}
  /\ Width \in Nat /\ MaxLen \in Nat /\ MaxLen < 2 ^ Width - 1

VARIABLES
  line,     \* _cmd_str
  idx,      \* _cmd_idx
  phase,    \* which of the parts comes next, or how _parsing_msg ended
  prefix,   \* _prefix
  command,  \* _command_str
  argu      \* _argu

vars == <<line, idx, phase, prefix, command, argu>>

npos == 2 ^ Width - 1
Size(n) == n % (2 ^ Width)

Init ==
  /\ line \in UNION {[1..n -> Chars \cup {SPACE, COLON}] : n \in 0..MaxLen}
  /\ idx = 0 /\ phase = "prefix"
  /\ prefix = <<>> /\ command = <<>> /\ argu = <<>>

(* std::string: find, substr (it throws when the position is past the end, *)
(* see InRange), and the character at an index, none at the end.           *)
Find(c, from) ==
  LET at == {i \in from..(Len(line) - 1) : line[i + 1] = c}
  IN  IF at = {} THEN npos ELSE CHOOSE i \in at : \A j \in at : i <= j

Substr(from, n) == SubSeq(line, from + 1, from + (IF n > Len(line) - from
                                                    THEN Len(line) - from ELSE n))

Is(c, i) == i < Len(line) /\ line[i + 1] = c

(* The while loop over spaces, which follows each part.                    *)
MutantSkipped(i) == IF Is(SPACE, i) THEN i + 1 ELSE i
Skipped(i) ==
  IF Is(SPACE, i) THEN CHOOSE j \in i..Len(line) :
                         /\ \A k \in i..(j - 1) : Is(SPACE, k)
                         /\ ~Is(SPACE, j)
                  ELSE i

MutantPast(i) == IF i = npos THEN Len(line) ELSE Skipped(i)
Past(i) == IF i = npos THEN npos ELSE Skipped(i)

(* _prefix_setting, when the line starts with a colon: there has to be     *)
(* something between it and the first space.                               *)
NoPrefix ==
  /\ phase = "prefix" /\ ~Is(COLON, 0)
  /\ phase' = "command"
  /\ UNCHANGED <<line, idx, prefix, command, argu>>

Prefix ==
  /\ phase = "prefix" /\ Is(COLON, 0)
  /\ LET space == Find(SPACE, 0)
     IN  IF space \in {npos, 1}
           THEN phase' = "refused" /\ idx' = space /\ UNCHANGED prefix
           ELSE /\ phase' = "command"
                /\ prefix' = Substr(1, space - 1)
                /\ idx' = Skipped(space)
  /\ UNCHANGED <<line, command, argu>>

(* The word at idx: its length wraps around when no space follows it.      *)
MutantWordLen == Find(SPACE, idx)
WordLen == Size(Find(SPACE, idx) + 2 ^ Width - idx)

(* _cmd_setting.                                                           *)
Command ==
  /\ phase = "command"
  /\ command' = Substr(idx, WordLen)
  /\ idx' = Past(Size(idx + WordLen))
  /\ phase' = IF command' \in Commands THEN "argu" ELSE "refused"
  /\ UNCHANGED <<line, prefix, argu>>

(* _argu_setting: a colon makes the rest of the line the last argument.    *)
Trailing ==
  /\ phase = "argu" /\ idx # npos /\ Is(COLON, idx)
  /\ argu' = Append(argu, Substr(idx + 1, npos))
  /\ idx' = npos
  /\ UNCHANGED <<line, phase, prefix, command>>

Middle ==
  /\ phase = "argu" /\ idx # npos /\ ~Is(COLON, idx)
  /\ argu' = Append(argu, Substr(idx, WordLen))
  /\ idx' = Past(Size(idx + WordLen))
  /\ UNCHANGED <<line, phase, prefix, command>>

Parsed ==
  /\ phase = "argu" /\ idx = npos
  /\ phase' = "parsed"
  /\ UNCHANGED <<line, idx, prefix, command, argu>>

Next == NoPrefix \/ Prefix \/ Command \/ Trailing \/ Middle \/ Parsed

Spec == Init /\ [][Next]_vars

------------------------------------------------------------------------------
(* The words of the line, from the line alone: one starts where a          *)
(* character follows a space or the beginning.                             *)
Starts == {i \in 1..Len(line) : line[i] # SPACE /\ (i = 1 \/ line[i - 1] = SPACE)}

Nth(i) == Cardinality({j \in Starts : j <= i})

EndsAt(i, e) ==
  /\ e \in i..Len(line) /\ \A k \in i..e : line[k] # SPACE
  /\ e = Len(line) \/ line[e + 1] = SPACE

WordFrom(i) == SubSeq(line, i, CHOOSE e \in i..Len(line) : EndsAt(i, e))

FirstArg == IF line[1] = COLON THEN 3 ELSE 2

Args  == {i \in Starts : Nth(i) >= FirstArg}
Plain == {i \in Args : \A j \in Args : j <= i => line[j] # COLON}

(* No position handed to substr is past the end of the line, where it      *)
(* would throw an exception that nobody catches: whatever the line, the    *)
(* index is inside it, at its end, or npos, which ends the walk.           *)
InRange ==
  /\ idx <= Len(line) \/ idx = npos
  /\ phase = "command" => idx <= Len(line)

CommandTaken == \E i \in Starts : Nth(i) = FirstArg - 1 /\ command = WordFrom(i)

ArgumentsTaken ==
  /\ \A i \in Plain : argu[Nth(i) - FirstArg + 1] = WordFrom(i)
  /\ LET n == Cardinality(Plain) IN
     \/ Plain = Args /\ line[Len(line)] # SPACE /\ Len(argu) = n
     \/ Plain = Args /\ line[Len(line)] = SPACE /\ Len(argu) = n + 1 /\ argu[n + 1] = <<>>
     \/ \E i \in Args : /\ line[i] = COLON /\ Nth(i) = FirstArg + n
                        /\ Len(argu) = n + 1
                        /\ argu[n + 1] = SubSeq(line, i + 1, Len(line))

(* A command that gets through has exactly the words of the line as its    *)
(* arguments, in order, the last one with its spaces when a colon starts   *)
(* it; spaces at the end of the line count as one more, empty argument.    *)
SplitsTheLine == phase = "parsed" => CommandTaken /\ ArgumentsTaken

(* Each step moves the index on or goes to the next part, so the walk ends *)
(* on every line: none keeps the worker in the loop over the arguments.    *)
Advances == [][phase' # phase \/ idx' > idx]_vars
==============================================================================
