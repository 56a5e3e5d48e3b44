------------------------------- MODULE ModeArgs -------------------------------
(***************************************************************************)
(* The arguments of one MODE command: _mode of Operator.cpp filters the    *)
(* letters and counts the arguments they need, mode_set of Channel.cpp     *)
(* walks over the letters it is left with and counts the arguments again,  *)
(* by a rule of its own.  The command, the channel it finds and the nicks  *)
(* of the members are picked at the start; mode_set holds _channel_m all   *)
(* along.  The sender may change the modes: a refusal changes nothing.     *)
(*                                                                         *)
(* An argument is numbered from 1 here; the code's arg_idx is one more.    *)
(***************************************************************************)
EXTENDS Integers, Sequences

CONSTANTS
  Words,       \* the strings used as arguments
  Empty,       \* the empty string, which as _passwd means no key
  Nicks,       \* the words that are nicknames of members
  Ircops,      \* those of members that are IRC operators
  Number,      \* what strtol makes of a word
  Width,       \* width of long and size_t in bits
  Letters,     \* mode letters: of "+", "-", "o", "k", "l", "i", "t", "?"
  MaxLetters,  \* bound on the length of the mode string
  MaxParams    \* bound on the number of arguments behind it

ASSUME ModeArgsAssumption ==
  /\ Empty \in Words /\ Nicks \subseteq Words \ {Empty} /\ Ircops \subseteq Nicks
  /\ Number \in [Words -> Int]
  /\ Width \in Nat \ {0}
  /\ Letters \subseteq {"+", "-", "o", "k", "l", "i", "t", "?"}
  /\ MaxLetters \in Nat /\ MaxParams \in Nat

VARIABLES
  letters,    \* _argu[1]
  params,     \* the arguments behind it
  phase,      \* "filter" in _mode, "apply" in mode_set, "done", "aborted"
  pos,        \* the letter at hand
  flag,       \* + or -, in either function
  argIdx,     \* arg_idx, in either function
  modeStr,    \* what _mode hands to mode_set
  chan,       \* the channel
  change,     \* change_str: the letters announced to the members
  announced,  \* args_str: their arguments
  given,      \* history: the argument _mode counted for each letter kept
  before,     \* history: the channel when the command began
  took,       \* history: a -l took an argument
  kept,       \* history: an o or k left its argument to the next letter
  overrun     \* history: an argument was read past the last one

vars == <<letters, params, phase, pos, flag, argIdx, modeStr, chan, change,
          announced, given, before, took, kept, overrun>>

(* _user_limit is a size_t; -1 stands for no limit.                        *)
Size(n) == n % (2 ^ Width)
NoLimit == 2 ^ Width - 1

UpTo(S, n) == UNION {[1..m -> S] : m \in 0..n}

Init ==
  /\ letters \in UpTo(Letters, MaxLetters) \ {<<>>}
  /\ params \in UpTo(Words, MaxParams)
  /\ chan \in [oper : SUBSET Nicks, key : Words \ Nicks,
               limit : {Size(Number[w]) : w \in Words \ Nicks} \cup {NoLimit}, mode : {{}}]
  /\ phase = "filter" /\ pos = 1 /\ flag = TRUE /\ argIdx = 1
  /\ modeStr = <<>> /\ given = <<>> /\ change = <<>> /\ announced = <<>>
  /\ before = chan /\ took = FALSE /\ kept = FALSE /\ overrun = FALSE

Left(i) == i <= Len(params)

Signed(x) == IF x = "+" THEN TRUE ELSE IF x = "-" THEN FALSE ELSE flag

------------------------------------------------------------------------------
(* _mode: o and k need an argument under either sign, l under + only; a    *)
(* letter is dropped when there is none left for it, or when it is not     *)
(* known.                                                                  *)
MutantTakes(x) == x = "o" \/ (x = "l" /\ flag)
Takes(x) == x \in {"o", "k"} \/ (x = "l" /\ flag)

Filter ==
  /\ phase = "filter" /\ pos <= Len(letters)
  /\ LET x == letters[pos]
     IN  /\ IF x # "?" /\ (Takes(x) => Left(argIdx))
              THEN /\ modeStr' = Append(modeStr, x)
                   /\ given' = Append(given, argIdx)
                   /\ argIdx' = IF Takes(x) THEN argIdx + 1 ELSE argIdx
              ELSE UNCHANGED <<modeStr, given, argIdx>>
         /\ flag' = Signed(x)
  /\ pos' = pos + 1
  /\ UNCHANGED <<letters, params, phase, chan, change, announced, before,
                 took, kept, overrun>>

(* The call of mode_set, unless no letter is left.                         *)
Call ==
  /\ phase = "filter" /\ pos > Len(letters)
  /\ phase' = IF modeStr = <<>> THEN "done" ELSE "apply"
  /\ pos' = 1 /\ flag' = TRUE /\ argIdx' = 1
  /\ UNCHANGED <<letters, params, modeStr, chan, change, announced, given,
                 before, took, kept, overrun>>

------------------------------------------------------------------------------
(* mode_set at letter x.                                                   *)
At(x) == phase = "apply" /\ pos <= Len(modeStr) /\ modeStr[pos] = x

Onward == pos' = pos + 1 /\ UNCHANGED <<letters, params, phase, modeStr, given, before>>

(* args[arg_idx], with no look at the size of the vector: past its end a   *)
(* string that an earlier command left there, if the process is not        *)
(* aborted (Abort).                                                        *)
Reads(w) ==
  /\ IF Left(argIdx) THEN w = params[argIdx] ELSE w \in Words
  /\ overrun' = (overrun \/ ~Left(argIdx))

(* A letter with effect is announced, and takes the argument at arg_idx if *)
(* there is one.                                                           *)
Announce(x) ==
  /\ change' = Append(change, x)
  /\ IF Left(argIdx)
       THEN /\ announced' = Append(announced, params[argIdx])
            /\ argIdx' = argIdx + 1
       ELSE UNCHANGED <<announced, argIdx>>
  /\ UNCHANGED <<flag, kept>>

Silent(i) == argIdx' = i /\ UNCHANGED <<flag, chan, change, announced, took>>

MutantShown(x) == pos = 1
Shown(x) == pos = 1 \/ flag # Signed(x)

Sign(x) ==
  /\ x \in {"+", "-"} /\ At(x)
  /\ flag' = Signed(x)
  /\ change' = IF Shown(x) THEN Append(change, x) ELSE change
  /\ UNCHANGED <<argIdx, chan, announced, took, kept, overrun>>
  /\ Onward

IsOperator(n) == n \in chan.oper \cup Ircops

(* o with a nickname that no member has: a reply, and the next argument.   *)
MutantAfterUnknown(i) == i
AfterUnknown(i) == i + 1

OperUnknown(w) ==
  /\ At("o") /\ Reads(w)
  /\ w \notin Nicks
  /\ Silent(AfterUnknown(argIdx))
  /\ UNCHANGED kept
  /\ Onward

OperSet(w) ==
  /\ At("o") /\ Reads(w)
  /\ w \in Nicks /\ IsOperator(w) = ~flag
  /\ chan' = [chan EXCEPT !.oper = IF flag THEN @ \cup {w} ELSE @ \ {w}]
  /\ Announce("o")
  /\ UNCHANGED took
  /\ Onward

(* o with nothing to change leaves its argument to the next letter.        *)
OperKeep(w) ==
  /\ At("o") /\ Reads(w)
  /\ w \in Nicks /\ IsOperator(w) = flag
  /\ Silent(argIdx)
  /\ kept' = TRUE
  /\ Onward

Switch(x) ==
  /\ x \in {"i", "t"} /\ At(x)
  /\ IF (x \in chan.mode) = flag
       THEN UNCHANGED <<chan, change>>
       ELSE /\ chan' = [chan EXCEPT !.mode = IF flag THEN @ \cup {x} ELSE @ \ {x}]
            /\ change' = Append(change, x)
  /\ UNCHANGED <<flag, argIdx, announced, took, kept, overrun>>
  /\ Onward

(* +l: oper_limit is unsigned, so "oper_limit < 0" refuses nothing.        *)
LimitSet(w) ==
  /\ At("l") /\ flag /\ Reads(w)
  /\ IF Size(Number[w]) = chan.limit
       THEN Silent(argIdx + 1) /\ UNCHANGED kept
       ELSE /\ chan' = [chan EXCEPT !.limit = Size(Number[w])]
            /\ Announce("l")
            /\ UNCHANGED took
  /\ Onward

(* -l: _mode counted no argument for it, but it takes one.                 *)
LimitClear ==
  /\ At("l") /\ ~flag
  /\ IF chan.limit = NoLimit
       THEN Silent(argIdx) /\ UNCHANGED kept
       ELSE /\ chan' = [chan EXCEPT !.limit = NoLimit]
            /\ Announce("l")
            /\ took' = (took \/ Left(argIdx))
  /\ UNCHANGED overrun
  /\ Onward

(* +k reads its argument when there is no key yet, -k always; either       *)
(* leaves it to the next letter when there is nothing to change.           *)
KeyChange(w) ==
  /\ At("k") /\ Reads(w)
  /\ IF flag THEN chan.key = Empty ELSE w = chan.key
  /\ chan' = [chan EXCEPT !.key = IF flag THEN w ELSE Empty]
  /\ Announce("k")
  /\ UNCHANGED took
  /\ Onward

KeyKeep(w) ==
  /\ At("k")
  /\ IF flag THEN chan.key # Empty /\ UNCHANGED overrun ELSE Reads(w) /\ w # chan.key
  /\ Silent(argIdx)
  /\ kept' = TRUE
  /\ Onward

Abort ==
  /\ \/ At("o")
     \/ At("l") /\ flag
     \/ At("k") /\ (flag => chan.key = Empty)
  /\ ~Left(argIdx)
  /\ phase' = "aborted" /\ overrun' = TRUE
  /\ UNCHANGED <<letters, params, pos, flag, argIdx, modeStr, chan, change,
                 announced, given, before, took, kept>>

Return ==
  /\ phase = "apply" /\ pos > Len(modeStr)
  /\ phase' = "done"
  /\ UNCHANGED <<letters, params, pos, flag, argIdx, modeStr, chan, change,
                 announced, given, before, took, kept, overrun>>

Next ==
  \/ Filter \/ Call \/ LimitClear \/ Abort \/ Return
  \/ \E x \in Letters : Sign(x) \/ Switch(x)
  \/ \E w \in Words : \/ OperUnknown(w) \/ OperSet(w) \/ OperKeep(w)
                      \/ LimitSet(w) \/ KeyChange(w) \/ KeyKeep(w)

Spec == Init /\ [][Next]_vars

------------------------------------------------------------------------------
(* What letters with arguments mean to whoever writes or reads them: each  *)
(* o, k and +l has the next argument, and without one it is void.          *)
Needs(x, f) == x \in {"o", "k"} \/ (x = "l" /\ f)

Effect(c, x, f, w) ==
  CASE x = "o" -> [c EXCEPT !.oper = IF f THEN @ \cup ({w} \cap Nicks) ELSE @ \ {w}]
    [] x = "k" -> [c EXCEPT !.key = IF f THEN w ELSE Empty]
    [] x = "l" -> [c EXCEPT !.limit = IF f THEN Size(Number[w]) ELSE NoLimit]
    [] x \in {"i", "t"} -> [c EXCEPT !.mode = IF f THEN @ \cup {x} ELSE @ \ {x}]
    [] OTHER -> c

(* The walk of such a reader: the sign, the next argument and the channel  *)
(* after each letter.                                                      *)
Start(from) == [flag |-> TRUE, next |-> 1, chan |-> from]

Turned(s, x)    == IF x \in {"+", "-"} THEN x = "+" ELSE s.flag
Void(s, x, arg) == Needs(x, Turned(s, x)) /\ s.next > Len(arg)

Step(s, x, arg) ==
  LET f     == Turned(s, x)
      taken == Needs(x, f) /\ ~Void(s, x, arg)
      w     == IF taken THEN arg[s.next] ELSE Empty
  IN  [flag |-> f,
       next |-> IF taken THEN s.next + 1 ELSE s.next,
       chan |-> IF Void(s, x, arg) THEN s.chan ELSE Effect(s.chan, x, f, w)]

Walk(from, str, arg) ==
  LET walk[i \in 0..Len(str)] ==
        IF i = 0 THEN Start(from) ELSE Step(walk[i - 1], str[i], arg)
  IN  walk

Meaning(str, arg) == Walk(before, str, arg)[Len(str)].chan

(* mode_set never checks arg_idx against the arguments it was given and    *)
(* relies on what _mode counted: it reads past the last one only after a   *)
(* -l that cleared a limit took an argument of another letter.             *)
OverrunOnlyAfterLimitCleared == overrun => took

(* The channel ends up as the command says, whatever signs, unknown        *)
(* letters, unknown nicknames and missing arguments it has, unless a -l    *)
(* took an argument or an o or k without effect left one: only then can a  *)
(* letter get the argument that was meant for another.                     *)
AppliedAsWritten ==
  phase = "done" /\ ~took /\ ~kept => chan = Meaning(letters, params)

(* The members are told what happened: replaying the announced letters     *)
(* with the announced arguments leads to the channel's modes, even when    *)
(* they are not those the command asked for, unless a -l announced an      *)
(* argument it has no use for.                                             *)
AnnouncedAsApplied ==
  phase = "done" /\ ~took => chan = Meaning(change, announced)

(* Why the indices agree.  Plus(j) is the sign at letter j of modeStr,     *)
(* TakesAt(j) says that _mode counted an argument for it.                  *)
Plus(j) ==
  \A i \in 1..(j - 1) : modeStr[i] = "-" =>
    \E k \in (i + 1)..(j - 1) : modeStr[k] = "+"

TakesAt(j) == modeStr[j] \in {"o", "k"} \/ (modeStr[j] = "l" /\ Plus(j))

(* The ranges of the variables that the indices depend on.                 *)
ArgsType ==
  /\ params \in Seq(Words) /\ modeStr \in Seq(Letters) /\ given \in Seq(Nat \ {0})
  /\ letters \in Seq(Letters)
  /\ Len(given) = Len(modeStr)
  /\ pos \in Nat \ {0} /\ argIdx \in Nat \ {0} /\ flag \in BOOLEAN
  /\ took \in BOOLEAN /\ kept \in BOOLEAN /\ overrun \in BOOLEAN

(* _mode counts upwards, and never past the last argument.                 *)
Counted ==
  /\ \A j \in 1..Len(modeStr) : TakesAt(j) => given[j] <= Len(params)
  /\ \A i, j \in 1..Len(modeStr) :
       i < j => /\ given[i] <= given[j]
                /\ TakesAt(i) => given[i] + 1 <= given[j]

Filtering ==
  phase = "filter" =>
    /\ (flag <=> Plus(Len(modeStr) + 1)) /\ overrun = FALSE
    /\ \A j \in 1..Len(modeStr) :
         given[j] <= argIdx /\ (TakesAt(j) => given[j] + 1 <= argIdx)

(* mode_set is never ahead of it, as long as no -l took an argument.       *)
Applying ==
  phase = "apply" =>
    /\ flag <=> Plus(pos)
    /\ ~took => \A j \in pos..Len(modeStr) : argIdx <= given[j]

IInv == ArgsType /\ Counted /\ Filtering /\ Applying /\ OverrunOnlyAfterLimitCleared
==============================================================================
