---------------------------- MODULE ModeArgsProofs ----------------------------
(***************************************************************************)
(* For any words, letters and lengths: the index of mode_set stays behind  *)
(* the one of _mode, and so inside the vector, until a -l takes an         *)
(* argument.                                                               *)
(*                                                                         *)
(* Then what the letters mean: mode_set is where a reader of the command   *)
(* is, and where a reader of what it announces is.                         *)
(***************************************************************************)
EXTENDS ModeArgs, WellFoundedInduction, TLAPS

(* The sign moves on with the letters, in _mode and in mode_set alike.     *)
LEMMA PlusStep ==
  ASSUME modeStr \in Seq(Letters), NEW j \in 1..Len(modeStr)
  PROVE  /\ modeStr[j] = "+" => Plus(j + 1)
         /\ modeStr[j] = "-" => ~Plus(j + 1)
         /\ modeStr[j] \notin {"+", "-"} => (Plus(j + 1) <=> Plus(j))
<1> DEFINE P(n, i) == modeStr[i] = "-" => \E k \in (i + 1)..(n - 1) : modeStr[k] = "+"
<1>1. CASE modeStr[j] = "+"
  BY <1>1 DEF Plus
<1>2. CASE modeStr[j] = "-"
  <2>1. j \in 1..((j + 1) - 1) /\ (j + 1)..((j + 1) - 1) = {}
    OBVIOUS
  <2>. QED BY <1>2, <2>1 DEF Plus
<1>3. CASE modeStr[j] \notin {"+", "-"}
  BY <1>3 DEF Plus
<1>. QED BY <1>1, <1>2, <1>3

(* What one letter appended does to Plus and TakesAt: nothing behind it.   *)
LEMMA Extended ==
  ASSUME modeStr \in Seq(Letters), NEW x \in Letters,
         modeStr' = Append(modeStr, x)
  PROVE  /\ Len(modeStr') = Len(modeStr) + 1
         /\ modeStr'[Len(modeStr) + 1] = x
         /\ \A j \in 1..Len(modeStr) : modeStr'[j] = modeStr[j]
         /\ \A j \in 1..(Len(modeStr) + 1) : Plus(j)' <=> Plus(j)
         /\ \A j \in 1..Len(modeStr) : TakesAt(j)' <=> TakesAt(j)
         /\ modeStr' \in Seq(Letters)
<1>1. /\ Len(modeStr') = Len(modeStr) + 1
      /\ modeStr'[Len(modeStr) + 1] = x
      /\ \A j \in 1..Len(modeStr) : modeStr'[j] = modeStr[j]
      /\ modeStr' \in Seq(Letters)
  OBVIOUS
<1>2. ASSUME NEW j \in 1..(Len(modeStr) + 1)
      PROVE  Plus(j)' <=> Plus(j)
  BY <1>1, <1>2 DEF Plus
<1>3. ASSUME NEW j \in 1..Len(modeStr)
      PROVE  TakesAt(j)' <=> TakesAt(j)
  BY <1>1, <1>2 DEF TakesAt
<1>. QED BY <1>1, <1>2, <1>3

(* A command starts with indices that agree.                               *)
LEMMA InitInv == Init => IInv
<1> SUFFICES ASSUME Init PROVE IInv
  OBVIOUS
<1>1. ASSUME NEW S, NEW n \in Nat, NEW s \in UpTo(S, n)
      PROVE  s \in Seq(S)
  BY <1>1 DEF UpTo
<1>2. params \in Seq(Words) /\ letters \in Seq(Letters)
  BY <1>1, ModeArgsAssumption DEF Init
<1>3. /\ modeStr = <<>> /\ given = <<>> /\ pos = 1 /\ argIdx = 1 /\ flag = TRUE
      /\ took = FALSE /\ kept = FALSE /\ overrun = FALSE /\ phase = "filter"
  BY DEF Init
<1>4. ArgsType
  <2>1. modeStr \in Seq(Letters) /\ given \in Seq(Nat \ {0}) /\ Len(given) = Len(modeStr)
    BY <1>3
  <2>2. flag \in BOOLEAN /\ took \in BOOLEAN /\ kept \in BOOLEAN /\ overrun \in BOOLEAN
    BY <1>3
  <2>3. pos \in Nat \ {0} /\ argIdx \in Nat \ {0}
    BY <1>3
  <2>. QED BY <1>2, <2>1, <2>2, <2>3 DEF ArgsType
<1>5. Counted /\ Filtering /\ Applying
  BY <1>3 DEF Counted, Filtering, Applying, Plus
<1>. QED BY <1>3, <1>4, <1>5 DEF IInv, OverrunOnlyAfterLimitCleared

(* _mode at a letter.                                                      *)
LEMMA FilterInv == IInv /\ Filter => IInv'
<1> SUFFICES ASSUME IInv, Filter PROVE IInv'
  OBVIOUS
<1> PICK n \in Nat : n = Len(modeStr)
  BY DEF IInv, ArgsType
<1> PICK x : x = letters[pos]
  OBVIOUS
<1>1. /\ phase = "filter" /\ phase' = "filter" /\ x \in Letters
      /\ UNCHANGED <<letters, params, took, kept, overrun>>
      /\ pos' = pos + 1 /\ flag' = Signed(x)
      /\ overrun = FALSE /\ (flag <=> Plus(n + 1))
  BY DEF IInv, Filter, ArgsType, Filtering
<1>2. CASE x # "?" /\ (Takes(x) => Left(argIdx))
  <2>1. /\ modeStr' = Append(modeStr, x) /\ given' = Append(given, argIdx)
        /\ argIdx' = IF Takes(x) THEN argIdx + 1 ELSE argIdx
    BY <1>2 DEF Filter
  <2>2. /\ Len(modeStr') = n + 1 /\ modeStr'[n + 1] = x
        /\ \A j \in 1..n : modeStr'[j] = modeStr[j]
        /\ modeStr' \in Seq(Letters)
    BY <1>1, <2>1, Extended DEF IInv, ArgsType
  <2>3. /\ \A j \in 1..(n + 1) : Plus(j)' <=> Plus(j)
        /\ \A j \in 1..n : TakesAt(j)' <=> TakesAt(j)
    BY <1>1, <2>1, Extended DEF IInv, ArgsType
  <2>4. /\ Len(given') = n + 1 /\ given'[n + 1] = argIdx
        /\ \A j \in 1..n : given'[j] = given[j]
        /\ given' \in Seq(Nat \ {0})
    BY <2>1 DEF IInv, ArgsType
  <2>5. Plus(n + 1)' <=> flag
    <3>1. n + 1 \in 1..(n + 1)
      OBVIOUS
    <3>2. Plus(n + 1)' <=> Plus(n + 1)
      BY <2>3, <3>1
    <3>. QED BY <1>1, <3>2, Zenon
  <2>6. TakesAt(n + 1)' <=> Takes(x)
    BY <2>2, <2>5 DEF TakesAt, Takes
  <2>7. ArgsType'
    <3>1. argIdx' \in Nat \ {0} /\ pos' \in Nat \ {0}
      BY <1>1, <2>1 DEF IInv, ArgsType
    <3>2. flag' \in BOOLEAN
      BY <1>1 DEF IInv, ArgsType, Signed
    <3>. QED BY <1>1, <2>2, <2>4, <3>1, <3>2 DEF IInv, ArgsType
  <2>8. ASSUME NEW j \in 1..(n + 1), TakesAt(j)'
        PROVE  given'[j] <= Len(params)
    <3>1. CASE j = n + 1
      BY <2>8, <3>1, <1>2, <2>4, <2>6 DEF Left
    <3>2. CASE j # n + 1
      <4>1. j \in 1..n /\ TakesAt(j)
        BY <2>8, <3>2, <2>3
      <4>. QED BY <4>1, <2>4 DEF IInv, Counted
    <3>. QED BY <3>1, <3>2
  <2>9. ASSUME NEW i \in 1..(n + 1), NEW j \in 1..(n + 1), i < j
        PROVE  /\ given'[i] <= given'[j]
               /\ TakesAt(i)' => given'[i] + 1 <= given'[j]
    <3>1. i \in 1..n /\ (TakesAt(i)' <=> TakesAt(i)) /\ given'[i] = given[i]
      BY <2>9, <2>3, <2>4
    <3>2. CASE j = n + 1
      BY <3>1, <3>2, <1>1, <2>4 DEF IInv, Filtering
    <3>3. CASE j # n + 1
      <4>1. j \in 1..n /\ given'[j] = given[j]
        BY <3>3, <2>4
      <4>. QED BY <2>9, <3>1, <4>1 DEF IInv, Counted
    <3>. QED BY <3>2, <3>3
  <2>10. Counted'
    BY <1>1, <2>2, <2>8, <2>9 DEF Counted
  <2>11. flag' <=> Plus(n + 2)'
    <3>1. ASSUME modeStr' \in Seq(Letters), n + 1 \in 1..Len(modeStr')
          PROVE  /\ x = "+" => Plus((n + 1) + 1)'
                 /\ x = "-" => ~Plus((n + 1) + 1)'
                 /\ x \notin {"+", "-"} => (Plus((n + 1) + 1)' <=> Plus(n + 1)')
      <4>1. CASE x = "+"
        BY <4>1, <2>2, <3>1 DEF Plus
      <4>2. CASE x = "-"
        <5>1. n + 1 \in 1..(n + 1) /\ ((n + 1) + 1)..(n + 1) = {}
          OBVIOUS
        <5>2. ((n + 1) + 1) - 1 = n + 1
          OBVIOUS
        <5>. QED BY <4>2, <5>1, <5>2, <2>2 DEF Plus
      <4>3. CASE x \notin {"+", "-"}
        BY <4>3, <2>2 DEF Plus
      <4>. QED BY <4>1, <4>2, <4>3
    <3>2. (n + 1) + 1 = n + 2 /\ n + 1 \in 1..Len(modeStr')
      BY <2>2
    <3>3. CASE x = "+"
      BY <1>1, <2>2, <3>1, <3>2, <3>3 DEF Signed
    <3>4. CASE x = "-"
      BY <1>1, <2>2, <3>1, <3>2, <3>4 DEF Signed
    <3>5. CASE x \notin {"+", "-"}
      <4>1. flag' = flag
        BY <1>1, <3>5 DEF Signed
      <4>2. Plus(n + 2)' <=> Plus(n + 1)'
        BY <2>2, <3>1, <3>2, <3>5
      <4>. QED BY <2>5, <4>1, <4>2, Zenon
    <3>. QED BY <3>3, <3>4, <3>5
  <2>12. ASSUME NEW j \in 1..(n + 1)
         PROVE  given'[j] <= argIdx' /\ (TakesAt(j)' => given'[j] + 1 <= argIdx')
    <3>1. CASE j = n + 1
      BY <3>1, <2>1, <2>4, <2>6 DEF IInv, ArgsType
    <3>2. CASE j # n + 1
      <4>1. j \in 1..n /\ (TakesAt(j)' <=> TakesAt(j)) /\ given'[j] = given[j]
        BY <3>2, <2>3, <2>4
      <4>2. given[j] \in Nat /\ argIdx \in Nat
        BY <4>1 DEF IInv, ArgsType
      <4>. QED BY <4>1, <4>2, <1>1, <2>1 DEF IInv, Filtering
    <3>. QED BY <3>1, <3>2
  <2>13. Filtering'
    <3>1. Len(modeStr') + 1 = n + 2
      BY <2>2
    <3>2. flag' <=> Plus(Len(modeStr) + 1)'
      BY <2>11, <3>1
    <3>. QED BY <1>1, <2>2, <2>12, <3>2 DEF Filtering
  <2>. QED BY <1>1, <2>7, <2>10, <2>13 DEF IInv, Applying, OverrunOnlyAfterLimitCleared
<1>3. CASE ~(x # "?" /\ (Takes(x) => Left(argIdx)))
  <2>1. UNCHANGED <<modeStr, given, argIdx>>
    BY <1>3 DEF Filter
  <2>2. x \notin {"+", "-"} /\ flag' = flag
    BY <1>1, <1>3 DEF Takes, Signed
  <2>3. ArgsType' /\ Counted'
    BY <1>1, <2>1, <2>2 DEF IInv, ArgsType, Counted, TakesAt, Plus
  <2>4. Filtering'
    BY <1>1, <2>1, <2>2 DEF IInv, Filtering, TakesAt, Plus
  <2>. QED BY <1>1, <2>3, <2>4 DEF IInv, Applying, OverrunOnlyAfterLimitCleared
<1>. QED BY <1>2, <1>3

(* The call, and the two ways out.                                         *)
LEMMA PhaseInv == IInv /\ (Call \/ Abort \/ Return) => IInv'
<1> SUFFICES ASSUME IInv, Call \/ Abort \/ Return PROVE IInv'
  OBVIOUS
<1>1. UNCHANGED <<letters, params, modeStr, given, took, kept>>
  BY DEF Call, Abort, Return
<1>2. ArgsType' /\ Counted' /\ Filtering'
  <2>1. ArgsType'
    <3>1. pos' \in {1, pos} /\ argIdx' \in {1, argIdx} /\ flag' \in {TRUE, flag}
          /\ overrun' \in {TRUE, overrun}
      BY DEF Call, Abort, Return
    <3>2. pos' \in Nat \ {0} /\ argIdx' \in Nat \ {0}
      BY <3>1 DEF IInv, ArgsType
    <3>3. flag' \in BOOLEAN /\ overrun' \in BOOLEAN
      BY <3>1 DEF IInv, ArgsType
    <3>. QED BY <1>1, <3>2, <3>3 DEF IInv, ArgsType
  <2>2. Counted'
    BY <1>1 DEF IInv, Counted, TakesAt, Plus
  <2>3. phase' # "filter"
    BY DEF Call, Abort, Return
  <2>. QED BY <2>1, <2>2, <2>3 DEF Filtering
<1>3. CASE Call
  BY <1>1, <1>2, <1>3
     DEF IInv, Call, Applying, ArgsType, Plus, OverrunOnlyAfterLimitCleared
<1>4. CASE Return
  BY <1>1, <1>2, <1>4 DEF IInv, Return, Applying, OverrunOnlyAfterLimitCleared
<1>5. CASE Abort
  <2>1. TakesAt(pos) /\ pos \in 1..Len(modeStr) /\ ~Left(argIdx)
    BY <1>5 DEF IInv, Abort, At, Applying, ArgsType, TakesAt
  <2>2. took = TRUE
    BY <2>1, <1>5 DEF IInv, Abort, At, Applying, Counted, ArgsType, Left
  <2>. QED BY <1>1, <1>2, <1>5, <2>2 DEF IInv, Abort, Applying, OverrunOnlyAfterLimitCleared
<1>. QED BY <1>3, <1>4, <1>5

(* A step of mode_set at a letter: what all of them have in common.  A     *)
(* letter counted by _mode moves the index by one at most, any other       *)
(* leaves it alone unless it is a -l that takes an argument.               *)
LEMMA LetterInv ==
  ASSUME IInv, phase = "apply", pos <= Len(modeStr), Onward,
         argIdx' \in Nat \ {0}, took' \in BOOLEAN, kept' \in BOOLEAN,
         flag' = Signed(modeStr[pos]),
         took => took',
         took' \/ argIdx' <= argIdx \/ (TakesAt(pos) /\ argIdx' = argIdx + 1),
         overrun' = overrun
           \/ (TakesAt(pos) /\ overrun' = (overrun \/ ~Left(argIdx)))
  PROVE  IInv'
<1> DEFINE n == Len(modeStr)
<1>1. /\ UNCHANGED <<letters, params, phase, modeStr, given>> /\ pos' = pos + 1
      /\ pos \in 1..n
  BY DEF Onward, IInv, ArgsType
<1>2. overrun' \in BOOLEAN /\ (overrun' => took')
  <2>1. CASE overrun' = overrun
    BY <2>1 DEF IInv, ArgsType, OverrunOnlyAfterLimitCleared
  <2>2. CASE TakesAt(pos) /\ overrun' = (overrun \/ ~Left(argIdx))
    <3>1. ~took => Left(argIdx)
      BY <1>1, <2>2 DEF IInv, Counted, Applying, ArgsType, Left
    <3>2. took \in BOOLEAN /\ overrun \in BOOLEAN /\ (overrun => took)
      BY DEF IInv, ArgsType, OverrunOnlyAfterLimitCleared
    <3>. QED BY <2>2, <3>1, <3>2
  <2>. QED BY <2>1, <2>2
<1>3. ArgsType' /\ Counted' /\ Filtering'
  <2>1. flag' \in BOOLEAN
    BY DEF Signed, IInv, ArgsType
  <2>2. ArgsType'
    BY <1>1, <1>2, <2>1 DEF IInv, ArgsType
  <2>3. Counted'
    BY <1>1 DEF IInv, Counted, TakesAt, Plus
  <2>. QED BY <1>1, <2>2, <2>3 DEF Filtering
<1>4. flag' <=> Plus(pos + 1)
  <2>1. (flag <=> Plus(pos)) /\ flag \in BOOLEAN /\ modeStr \in Seq(Letters)
    BY DEF IInv, ArgsType, Applying
  <2>2. /\ modeStr[pos] = "+" => Plus(pos + 1)
        /\ modeStr[pos] = "-" => ~Plus(pos + 1)
        /\ modeStr[pos] \notin {"+", "-"} => (Plus(pos + 1) <=> Plus(pos))
    BY <1>1, <2>1, PlusStep
  <2>3. Plus(pos + 1) \in BOOLEAN /\ Plus(pos) \in BOOLEAN
    BY DEF Plus
  <2>. QED BY <2>1, <2>2, <2>3 DEF Signed
<1>5. ASSUME ~took', NEW j \in (pos + 1)..n
      PROVE  argIdx' <= given[j]
  <2>1. /\ argIdx \in Nat /\ argIdx' \in Nat /\ given \in [1..n -> Nat] /\ n \in Nat /\ pos \in Nat
        /\ argIdx <= given[pos] /\ argIdx <= given[j]
    BY <1>1, <1>5 DEF IInv, ArgsType, Applying
  <2>2. TakesAt(pos) => given[pos] + 1 <= given[j]
    BY <1>1, <2>1 DEF IInv, Counted
  <2>3. argIdx' <= argIdx \/ (TakesAt(pos) /\ argIdx' = argIdx + 1)
    BY <1>5
  <2>4. given[j] \in Nat /\ given[pos] \in Nat
    BY <1>1, <2>1
  <2>. QED BY <2>1, <2>2, <2>3, <2>4
<1>6. Applying'
  <2>1. Plus(pos)' <=> Plus(pos + 1)
    BY <1>1 DEF Plus
  <2>. QED BY <1>1, <1>4, <1>5, <2>1 DEF Applying
<1>. QED BY <1>2, <1>3, <1>6 DEF IInv, OverrunOnlyAfterLimitCleared

(* Each letter of mode_set has the shape LetterInv asks for.               *)
LEMMA ApplyInv ==
  ASSUME IInv, NEW w \in Words, NEW x \in Letters,
         \/ Sign(x) \/ Switch(x) \/ LimitClear
         \/ OperUnknown(w) \/ OperSet(w) \/ OperKeep(w)
         \/ LimitSet(w) \/ KeyChange(w) \/ KeyKeep(w)
  PROVE  IInv'
<1>1. /\ argIdx \in Nat \ {0} /\ took \in BOOLEAN /\ kept \in BOOLEAN /\ flag \in BOOLEAN
      /\ overrun \in BOOLEAN
  BY DEF IInv, ArgsType
<1>2. phase = "apply" /\ pos <= Len(modeStr) /\ Onward
  BY DEF Sign, Switch, LimitClear, OperUnknown, OperSet, OperKeep, LimitSet, KeyChange,
         KeyKeep, At
<1>3. phase = "apply" => (flag <=> Plus(pos))
  BY DEF IInv, Applying, ArgsType
<1>4. CASE Sign(x) \/ Switch(x)
  <2>1. UNCHANGED <<argIdx, took, kept, overrun>> /\ flag' = Signed(modeStr[pos])
    BY <1>4 DEF Sign, Switch, At, Signed
  <2>. QED BY <1>1, <1>2, <2>1, LetterInv
<1>5. CASE LimitClear
  <2>1. overrun' = overrun /\ flag' = Signed(modeStr[pos])
    BY <1>5 DEF LimitClear, At, Signed, Silent, Announce
  <2>2. kept' = kept
    BY <1>5 DEF LimitClear, Announce
  <2>3. \/ argIdx' = argIdx /\ took' = took
        \/ argIdx' = argIdx /\ took' = (took \/ Left(argIdx)) 
        \/ argIdx' = argIdx + 1 /\ Left(argIdx) /\ took' = (took \/ Left(argIdx))
    BY <1>5 DEF LimitClear, Silent, Announce
  <2>4. Left(argIdx) \in BOOLEAN
    BY DEF Left
  <2>5. argIdx' \in Nat \ {0} /\ took' \in BOOLEAN /\ (took => took')
    BY <1>1, <2>3, <2>4
  <2>6. took' \/ argIdx' <= argIdx
    BY <1>1, <2>3, <2>4
  <2>. QED BY <1>1, <1>2, <2>1, <2>2, <2>5, <2>6, LetterInv
<1>6. CASE \/ OperUnknown(w) \/ OperSet(w) \/ OperKeep(w) \/ LimitSet(w)
           \/ KeyChange(w)
  <2>1. TakesAt(pos)
    BY <1>2, <1>3, <1>6
       DEF OperUnknown, OperSet, OperKeep, LimitSet, KeyChange, At, TakesAt
  <2>2. overrun' = (overrun \/ ~Left(argIdx))
    BY <1>6 DEF OperUnknown, OperSet, OperKeep, LimitSet, KeyChange, Reads
  <2>3. took' = took /\ kept' \in BOOLEAN /\ flag' = flag
    BY <1>1, <1>6
       DEF OperUnknown, OperSet, OperKeep, LimitSet, KeyChange, Silent, Announce
  <2>4. argIdx' = argIdx \/ argIdx' = argIdx + 1
    BY <1>6 DEF OperUnknown, OperSet, OperKeep, LimitSet, KeyChange, Silent, Announce,
                AfterUnknown
  <2>5. flag' = Signed(modeStr[pos])
    BY <1>6, <2>3
       DEF OperUnknown, OperSet, OperKeep, LimitSet, KeyChange, At, Signed
  <2>6. argIdx' \in Nat \ {0} /\ (argIdx' <= argIdx \/ argIdx' = argIdx + 1)
    BY <1>1, <2>4
  <2>. QED BY <1>1, <1>2, <2>1, <2>2, <2>3, <2>5, <2>6, LetterInv
<1>7. CASE KeyKeep(w)
  <2>1. TakesAt(pos)
    BY <1>2, <1>7 DEF KeyKeep, At, TakesAt
  <2>2. overrun' = overrun \/ overrun' = (overrun \/ ~Left(argIdx))
    BY <1>7 DEF KeyKeep, Reads
  <2>3. took' = took /\ kept' = TRUE /\ flag' = flag /\ argIdx' = argIdx
    BY <1>7 DEF KeyKeep, Silent
  <2>4. flag' = Signed(modeStr[pos])
    BY <1>7, <2>3 DEF KeyKeep, At, Signed
  <2>. QED BY <1>1, <1>2, <2>1, <2>2, <2>3, <2>4, LetterInv
<1>. QED BY <1>4, <1>5, <1>6, <1>7

(* The invariant of MODE, for every command line and every channel.        *)
THEOREM Invariance == Spec => []IInv
<1>1. Init => IInv
  BY InitInv
<1>2. IInv /\ [Next]_vars => IInv'
  <2> SUFFICES ASSUME IInv, [Next]_vars PROVE IInv'
    OBVIOUS
  <2>1. CASE Filter
    BY <2>1, FilterInv
  <2>2. CASE Call \/ Abort \/ Return
    BY <2>2, PhaseInv
  <2>3. ASSUME NEW x \in Letters, Sign(x) \/ Switch(x)
        PROVE  IInv'
    BY <2>3, ApplyInv, ModeArgsAssumption
  <2>4. ASSUME NEW w \in Words,
               \/ OperUnknown(w) \/ OperSet(w) \/ OperKeep(w)
               \/ LimitSet(w) \/ KeyChange(w) \/ KeyKeep(w)
        PROVE  IInv'
    <3>1. \E x \in Letters : TRUE
      <4>1. modeStr \in Seq(Letters) /\ modeStr # <<>>
        BY <2>4 DEF IInv, ArgsType, OperUnknown, OperSet, OperKeep, LimitSet, KeyChange,
                    KeyKeep, At
      <4>. QED BY <4>1
    <3>. QED BY <2>4, <3>1, ApplyInv
  <2>5. CASE LimitClear
    <3>1. \E x \in Letters : TRUE
      <4>1. modeStr \in Seq(Letters) /\ modeStr # <<>>
        BY <2>5 DEF IInv, ArgsType, LimitClear, At
      <4>. QED BY <4>1
    <3>. QED BY <2>5, <3>1, ApplyInv, ModeArgsAssumption
  <2>6. CASE UNCHANGED vars
    BY <2>6 DEF vars, IInv, ArgsType, Counted, Filtering, Applying, TakesAt, Plus,
                OverrunOnlyAfterLimitCleared
  <2>. QED BY <2>1, <2>2, <2>3, <2>4, <2>5, <2>6 DEF Next
<1>. QED BY <1>1, <1>2, PTL DEF Spec

(* No read past the arguments but after a -l that took one.                *)
THEOREM ReadsInRange == Spec => []OverrunOnlyAfterLimitCleared
<1>1. IInv => OverrunOnlyAfterLimitCleared
  BY DEF IInv
<1>. QED BY <1>1, Invariance, PTL

------------------------------------------------------------------------------
(* The natural numbers are well-founded.                                   *)
LEMMA Smallest ==
  ASSUME NEW T, T \subseteq Nat, T # {}
  PROVE  \E m \in T : \A n \in T : m <= n
<1> DEFINE R == {ss \in Nat \X Nat : ss[1] < ss[2]}
<1>1. IsWellFoundedOn(R, Nat)
  BY NatLessThanWellFounded DEF OpToRel
<1>2. PICK m \in T : \A n \in T : ~ (<<n, m>> \in R)
  <2> HIDE DEF R
  <2> QED
    BY <1>1, WFMin
<1>3. ASSUME NEW n \in T PROVE m <= n
  <2>1. ~ (<<n, m>> \in R) /\ <<n, m>> \in Nat \X Nat
    BY <1>2
  <2>2. ~ (n < m)
    BY <2>1
  <2> QED
    BY <2>2
<1> QED
  BY <1>3

(* What a channel is, as far as the letters depend on it.                  *)
Shape(c) ==
  /\ c = [oper |-> c.oper, key |-> c.key, limit |-> c.limit, mode |-> c.mode]
  /\ c.oper \subseteq Nicks

(* Where a reader who began at the channel as it was is, after n letters.  *)
State(f, i, c) == [flag |-> f, next |-> i, chan |-> c]
Read(str, arg, n) == Walk(before, str, arg)[n]

ShapeOK ==
  /\ Shape(chan) /\ change \in Seq(Letters) /\ announced \in Seq(Words)

(* A letter that _mode drops means nothing, so what it keeps means what    *)
(* was written.                                                            *)
FilterMeant ==
  phase = "filter" =>
    /\ chan = before /\ change = <<>> /\ announced = <<>>
    /\ pos <= Len(letters) + 1
    /\ LET s == Read(letters, params, pos - 1)
       IN  /\ s = State(flag, argIdx, s.chan)
           /\ Read(modeStr, params, Len(modeStr)) = s

KeptMeant == phase # "filter" => Meaning(letters, params) = Meaning(modeStr, params)

(* mode_set is where a reader of those letters is.                         *)
ApplyMeant ==
  phase = "apply" =>
    /\ pos <= Len(modeStr) + 1
    /\ ~took /\ ~kept => Read(modeStr, params, pos - 1) = State(flag, argIdx, chan)

(* So is a reader of what it announced, to whom no argument is missing.    *)
Replayed ==
  phase \in {"apply", "done"} /\ ~took =>
    /\ Read(change, announced, Len(change)) = State(flag, Len(announced) + 1, chan)
    /\ \A i \in 1..Len(change) :
         /\ ~ Void(Read(change, announced, i - 1), change[i], announced)
         /\ Read(change, announced, i - 1).next \in Nat \ {0}

Meant ==
  /\ ~took => ShapeOK
  /\ FilterMeant /\ KeptMeant /\ ApplyMeant /\ Replayed
  /\ AppliedAsWritten

(* The recursion is well-founded: each letter follows the one before.      *)
LEMMA WalkSteps ==
  ASSUME NEW from, NEW S, NEW str \in Seq(S), NEW arg
  PROVE  /\ Walk(from, str, arg)[0] = Start(from)
         /\ \A i \in 1..Len(str) :
              Walk(from, str, arg)[i] = Step(Walk(from, str, arg)[i - 1], str[i], arg)
<1> DEFINE n == Len(str)
           IsWalk(f, k) == f = [i \in 0..k |-> IF i = 0 THEN Start(from)
                                               ELSE Step(f[i - 1], str[i], arg)]
<1>0. n \in Nat
  OBVIOUS
<1>1. \A k \in 0..n : \E f : IsWalk(f, k)
  <2> DEFINE T == {k \in 0..n : ~ \E f : IsWalk(f, k)}
  <2> SUFFICES ASSUME T # {} PROVE FALSE
    OBVIOUS
  <2>1. PICK m \in T : \A k \in T : m <= k
    <3>1. T \subseteq Nat
      BY <1>0
    <3> HIDE DEF T
    <3> QED
      BY <3>1, Smallest
  <2>2. m \in 0..n /\ (\A f : ~ IsWalk(f, m)) /\ (m > 0 => \E g : IsWalk(g, m - 1))
    <3> HIDE DEF IsWalk
    <3>1. m \in 0..n /\ ~ \E f : IsWalk(f, m)
      OBVIOUS
    <3>2. m > 0 => m - 1 \in 0..n /\ m - 1 \notin T
      BY <1>0, <2>1, <3>1
    <3> QED
      BY <3>1, <3>2
  <2>3. CASE m = 0
    <3> DEFINE f == [i \in 0..0 |-> Start(from)]
    <3>1. IsWalk(f, m)
      BY <2>3
    <3> QED
      BY <2>2, <3>1
  <2>4. CASE m > 0
    <3>1. PICK g : IsWalk(g, m - 1)
      BY <2>2, <2>4
    <3> DEFINE st(s, i) == Step(s, str[i], arg)
    <3> DEFINE f == [i \in 0..m |-> IF i = m THEN st(g[m - 1], m) ELSE g[i]]
    <3>2. \A i \in 0..(m - 1) : g[i] = IF i = 0 THEN Start(from) ELSE st(g[i - 1], i)
      BY <3>1
    <3>3. \A i \in 0..m : f[i] = IF i = m THEN st(g[m - 1], m) ELSE g[i]
      OBVIOUS
    <3>4. \A i \in 0..m : f[i] = IF i = 0 THEN Start(from) ELSE st(f[i - 1], i)
      <4> HIDE DEF st, f
      <4> QED
        BY <1>0, <2>2, <2>4, <3>2, <3>3
    <3>5. f = [i \in 0..m |-> IF i = 0 THEN Start(from) ELSE st(f[i - 1], i)]
      <4>1. f = [i \in 0..m |-> f[i]]
        OBVIOUS
      <4> HIDE DEF st, f
      <4> QED
        BY <3>4, <4>1
    <3>6. IsWalk(f, m)
      BY <3>5
    <3> QED
      BY <2>2, <3>6
  <2> QED
    BY <1>0, <2>2, <2>3, <2>4
<1>2. IsWalk(Walk(from, str, arg), n)
  <2>1. \E f : IsWalk(f, n)
    BY <1>0, <1>1
  <2>2. Walk(from, str, arg) = CHOOSE f : IsWalk(f, n)
    BY DEF Walk
  <2> HIDE DEF IsWalk
  <2> QED
    BY <2>1, <2>2
<1> QED
  BY <1>0, <1>2

(* Two texts, two walks, and two lists of arguments up to n.               *)
SameText(str, str2, n) ==
  n <= Len(str) /\ n <= Len(str2) /\ \A i \in 1..n : str[i] = str2[i]

SameWalks(walk, walk2, n) == \A i \in 0..n : walk[i] = walk2[i]

SameReading(from, str, arg, arg2, n) ==
  \A i \in 1..n : Step(Walk(from, str, arg)[i - 1], str[i], arg)
                   = Step(Walk(from, str, arg)[i - 1], str[i], arg2)

(* Two texts with the same beginning read the same up to there, and so do  *)
(* two lists of arguments as far as they do the same to the letters.       *)
LEMMA SameWalk ==
  ASSUME NEW from, NEW S, NEW str \in Seq(S), NEW str2 \in Seq(S), NEW arg, NEW arg2,
         NEW n \in Nat, SameText(str, str2, n), SameReading(from, str, arg, arg2, n)
  PROVE  SameWalks(Walk(from, str, arg), Walk(from, str2, arg2), n)
<1> DEFINE V == Walk(from, str, arg)
           W == Walk(from, str2, arg2)
<1>1. /\ V[0] = Start(from) /\ W[0] = Start(from)
      /\ \A i \in 1..Len(str) : V[i] = Step(V[i - 1], str[i], arg)
      /\ \A i \in 1..Len(str2) : W[i] = Step(W[i - 1], str2[i], arg2)
  BY WalkSteps
<1>2. \A i \in 1..n : V[i] = Step(V[i - 1], str2[i], arg2)
                     /\ W[i] = Step(W[i - 1], str2[i], arg2)
  <2>1. \A i \in 1..n : i \in 1..Len(str) /\ i \in 1..Len(str2) /\ str[i] = str2[i]
    BY DEF SameText
  <2>2. \A i \in 1..n : Step(V[i - 1], str[i], arg) = Step(V[i - 1], str[i], arg2)
    BY DEF SameReading
  <2> HIDE DEF V, W
  <2> QED
    BY <1>1, <2>1, <2>2
<1> HIDE DEF V, W
<1> DEFINE T == {i \in 0..n : V[i] # W[i]}
<1> SUFFICES ASSUME T # {} PROVE FALSE
  BY DEF V, W, SameWalks
<1>3. PICK m \in T : \A i \in T : m <= i
  <2>1. T \subseteq Nat
    OBVIOUS
  <2> HIDE DEF T
  <2> QED
    BY <2>1, Smallest
<1>4. m \in 0..n /\ V[m] # W[m]
  OBVIOUS
<1>5. m # 0
  BY <1>1, <1>4
<1>6. m - 1 \in 0..n /\ m - 1 \notin T /\ m \in 1..n
  BY <1>3, <1>4, <1>5
<1>7. V[m - 1] = W[m - 1]
  BY <1>6
<1> QED
  BY <1>2, <1>4, <1>6, <1>7
(* walk2 is walk with one letter more.                                     *)
OneMore(walk, walk2, n, x, arg) ==
  SameWalks(walk, walk2, n) /\ walk2[n + 1] = Step(walk[n], x, arg)

(* One letter more, and perhaps an argument that no letter missed.         *)
LEMMA LongerWalk ==
  ASSUME NEW from, NEW S, NEW str \in Seq(S), NEW x \in S, NEW new, new = Append(str, x),
         NEW arg, NEW arg2, SameReading(from, str, arg, arg2, Len(str))
  PROVE  OneMore(Walk(from, str, arg), Walk(from, new, arg2), Len(str), x, arg2)
<1> DEFINE n == Len(str)
<1>1. /\ new \in Seq(S) /\ n \in Nat /\ Len(new) = n + 1 /\ new[n + 1] = x
      /\ \A i \in 1..n : str[i] = new[i]
  OBVIOUS
<1>2. n <= Len(str) /\ n <= Len(new) /\ n + 1 \in 1..Len(new) /\ n \in 0..n /\ (n + 1) - 1 = n
  BY <1>1
<1>3. SameText(str, new, n)
  BY <1>1, <1>2 DEF SameText
<1>4. \A i \in 0..n : Walk(from, str, arg)[i] = Walk(from, new, arg2)[i]
  <2>1. n \in Nat /\ new \in Seq(S) /\ SameReading(from, str, arg, arg2, n)
    BY <1>1
  <2> HIDE DEF n
  <2>2. SameWalks(Walk(from, str, arg), Walk(from, new, arg2), n)
    BY <2>1, <1>3, SameWalk
  <2> QED
    BY <2>2 DEF SameWalks
<1>5. Walk(from, new, arg2)[n + 1] = Step(Walk(from, new, arg2)[(n + 1) - 1], new[n + 1], arg2)
  <2>1. new \in Seq(S)
    BY <1>1
  <2>2. \A t \in Seq(S) : \A i \in 1..Len(t) : Walk(from, t, arg2)[i] = Step(Walk(from, t, arg2)[i - 1], t[i], arg2)
    BY WalkSteps
  <2> DEFINE w == Walk(from, new, arg2)
  <2>3. \A i \in 1..Len(new) : w[i] = Step(w[i - 1], new[i], arg2)
    BY <2>1, <2>2
  <2> HIDE DEF n, w
  <2>4. w[n + 1] = Step(w[(n + 1) - 1], new[n + 1], arg2)
    <3>1. n + 1 \in 1..Len(new)
      BY <1>2
    <3> QED
      BY <2>3, <3>1, Zenon
  <2> QED
    BY <2>4 DEF w
<1>6. Walk(from, new, arg2)[n] = Walk(from, str, arg)[n]
  BY <1>2, <1>4
<1> QED
  BY <1>1, <1>2, <1>4, <1>5, <1>6 DEF OneMore, SameWalks

(* A sign, for a reader.                                                   *)
LEMMA SignRead ==
  ASSUME NEW f \in BOOLEAN, NEW i, NEW c, NEW arg, NEW x \in {"+", "-"}
  PROVE  /\ Step(State(f, i, c), x, arg) = State(x = "+", i, c)
         /\ ~ Void(State(f, i, c), x, arg)
BY DEF Step, State, Turned, Void, Needs, Effect

(* A letter that is not known changes nothing.                             *)
LEMMA UnknownRead ==
  ASSUME NEW f \in BOOLEAN, NEW i, NEW c, NEW arg
  PROVE  Step(State(f, i, c), "?", arg) = State(f, i, c)
BY DEF Step, State, Turned, Void, Needs, Effect

(* A mode without an argument is set or cleared.                           *)
LEMMA SwitchRead ==
  ASSUME NEW f \in BOOLEAN, NEW i, NEW c, NEW arg, NEW x \in {"i", "t"},
         NEW d, d = [c EXCEPT !.mode = IF f THEN @ \cup {x} ELSE @ \ {x}]
  PROVE  /\ Step(State(f, i, c), x, arg) = State(f, i, d)
         /\ ~ Void(State(f, i, c), x, arg)
BY DEF Step, State, Turned, Void, Needs, Effect

(* A -l takes no argument.                                                 *)
LEMMA ClearRead ==
  ASSUME NEW f, f = FALSE, NEW i, NEW c, NEW arg
  PROVE  /\ Step(State(f, i, c), "l", arg) = State(f, i, [c EXCEPT !.limit = NoLimit])
         /\ ~ Void(State(f, i, c), "l", arg)
BY DEF Step, State, Turned, Void, Needs, Effect

(* A letter with an argument takes the next one, or is void.               *)
LEMMA ArgumentRead ==
  ASSUME NEW f \in BOOLEAN, NEW i \in Nat, NEW c, NEW S, NEW arg \in Seq(S), NEW x,
         Needs(x, f)
  PROVE  /\ Void(State(f, i, c), x, arg) <=> i > Len(arg)
         /\ i > Len(arg) => Step(State(f, i, c), x, arg) = State(f, i, c)
         /\ i <= Len(arg) =>
              Step(State(f, i, c), x, arg) = State(f, i + 1, Effect(c, x, f, arg[i]))
<1> DEFINE s == State(f, i, c)
<1>1. x \notin {"+", "-"} /\ s.flag = f /\ s.next = i /\ s.chan = c
  BY DEF Needs, State
<1> HIDE DEF s
<1>2. Turned(s, x) = f
  BY <1>1 DEF Turned
<1>3. Void(s, x, arg) <=> i > Len(arg)
  BY <1>1, <1>2 DEF Void
<1>4. i > Len(arg) => Step(s, x, arg) = State(f, i, c)
  BY <1>1, <1>2, <1>3 DEF Step, State
<1>5. i <= Len(arg) => Step(s, x, arg) = State(f, i + 1, Effect(c, x, f, arg[i]))
  BY <1>1, <1>2, <1>3 DEF Step, State
<1> QED
  BY <1>3, <1>4, <1>5 DEF s

(* What an argument does to the channel.                                   *)
LEMMA OperEffect ==
  ASSUME NEW f \in BOOLEAN, NEW c, NEW w
  PROVE  Effect(c, "o", f, w)
           = [c EXCEPT !.oper = IF f THEN @ \cup ({w} \cap Nicks) ELSE @ \ {w}]
BY DEF Effect

(* A key is set, or emptied.                                               *)
LEMMA KeyEffect ==
  ASSUME NEW f \in BOOLEAN, NEW c, NEW w
  PROVE  Effect(c, "k", f, w) = [c EXCEPT !.key = IF f THEN w ELSE Empty]
BY DEF Effect

(* A limit is set.                                                         *)
LEMMA LimitEffect ==
  ASSUME NEW c, NEW w
  PROVE  Effect(c, "l", TRUE, w) = [c EXCEPT !.limit = Size(Number[w])]
BY DEF Effect

(* A letter that _mode counted an argument for has one.                    *)
LEMMA HasArgument ==
  ASSUME IInv, phase = "apply", pos <= Len(modeStr), ~took,
         Needs(modeStr[pos], flag)
  PROVE  Left(argIdx) /\ argIdx \in Nat
<1>1. TakesAt(pos) /\ pos \in 1..Len(modeStr)
  BY DEF IInv, Applying, ArgsType, TakesAt, Needs
<1> QED
  BY <1>1 DEF IInv, Counted, Applying, ArgsType, Left
(* What a letter of mode_set does is what a reader takes it for: of the    *)
(* letters as they were written, and of those it announces.                *)
Obeyed ==
  ~kept' => ~kept /\ Step(State(flag, argIdx, chan), modeStr[pos], params)
                       = State(flag', argIdx', chan')

Told(y) ==
  LET s == State(flag, Len(announced) + 1, chan)
  IN  /\ change' = Append(change, y)
      /\ announced' = announced \/ \E v \in Words : announced' = Append(announced, v)
      /\ Step(s, y, announced') = State(flag', Len(announced') + 1, chan')
      /\ ~ Void(s, y, announced')

Untold == UNCHANGED <<flag, chan, change, announced>>

Understood ==
  /\ Shape(chan') /\ ~took /\ Obeyed
  /\ Untold \/ \E y \in Letters : Told(y)

(* A sign.                                                                 *)
LEMMA SignUnderstood ==
  ASSUME IInv, ShapeOK, NEW x \in Letters, Sign(x), ~took'
  PROVE  Understood
<1>1. /\ x \in {"+", "-"} /\ modeStr[pos] = x /\ flag' = (x = "+") /\ flag \in BOOLEAN
      /\ UNCHANGED <<argIdx, chan, announced, took, kept>>
      /\ change' = IF Shown(x) THEN Append(change, x) ELSE change
      /\ ~ Shown(x) => flag' = flag
  BY DEF Sign, At, Signed, Shown, IInv, ArgsType
<1>2. Obeyed
  BY <1>1, SignRead DEF Obeyed
<1>3. Shown(x) => Told(x)
  BY <1>1, SignRead DEF Told
<1>4. ~ Shown(x) => Untold
  BY <1>1 DEF Untold
<1> QED
  BY <1>1, <1>2, <1>3, <1>4 DEF Understood, ShapeOK

(* i and t.                                                                *)
LEMMA SwitchUnderstood ==
  ASSUME IInv, ShapeOK, NEW x \in Letters, Switch(x), ~took'
  PROVE  Understood
<1> DEFINE new == [chan EXCEPT !.mode = IF flag THEN @ \cup {x} ELSE @ \ {x}]
<1>1. /\ x \in {"i", "t"} /\ modeStr[pos] = x /\ flag \in BOOLEAN
      /\ UNCHANGED <<flag, argIdx, announced, took, kept>>
      /\ IF (x \in chan.mode) = flag THEN chan' = chan /\ change' = change
                                     ELSE chan' = new /\ change' = Append(change, x)
  BY DEF Switch, At, IInv, ArgsType
<1>2. Shape(new) /\ ((x \in chan.mode) = flag => new = chan)
  BY <1>1 DEF ShapeOK, Shape
<1>3. chan' = new
  BY <1>1, <1>2
<1>4. /\ Step(State(flag, argIdx, chan), x, params) = State(flag, argIdx, new)
      /\ Step(State(flag, Len(announced) + 1, chan), x, announced)
           = State(flag, Len(announced) + 1, new)
      /\ ~ Void(State(flag, Len(announced) + 1, chan), x, announced)
  <2> DEFINE n == Len(announced) + 1
  <2>1. Step(State(flag, argIdx, chan), x, params) = State(flag, argIdx, new)
    BY <1>1, SwitchRead
  <2> HIDE DEF n
  <2>2. /\ Step(State(flag, n, chan), x, announced) = State(flag, n, new)
        /\ ~ Void(State(flag, n, chan), x, announced)
    BY <1>1, SwitchRead
  <2> QED
    BY <2>1, <2>2 DEF n
<1> HIDE DEF new
<1>5. Obeyed
  BY <1>1, <1>3, <1>4 DEF Obeyed
<1>6. CASE (x \in chan.mode) = flag
  BY <1>1, <1>2, <1>3, <1>5, <1>6 DEF Understood, Untold
<1>7. CASE (x \in chan.mode) # flag
  <2>1. Told(x)
    BY <1>1, <1>3, <1>4, <1>7 DEF Told
  <2> QED
    BY <1>1, <1>2, <1>3, <1>5, <2>1 DEF Understood
<1> QED
  BY <1>6, <1>7

(* -l.                                                                     *)
LEMMA ClearUnderstood ==
  ASSUME IInv, ShapeOK, LimitClear, ~took'
  PROVE  Understood
<1> DEFINE new == [chan EXCEPT !.limit = NoLimit]
<1>1. /\ modeStr[pos] = "l" /\ modeStr[pos] \in Letters /\ flag = FALSE
      /\ UNCHANGED <<flag, argIdx, announced, kept>> /\ ~took
      /\ IF chan.limit = NoLimit THEN chan' = chan /\ change' = change
                                 ELSE chan' = new /\ change' = Append(change, "l")
  <2>1. /\ modeStr[pos] = "l" /\ pos \in 1..Len(modeStr) /\ ~flag /\ UNCHANGED overrun
        /\ modeStr \in Seq(Letters) /\ flag \in BOOLEAN /\ took \in BOOLEAN
        /\ IF chan.limit = NoLimit
             THEN Silent(argIdx) /\ UNCHANGED kept
             ELSE chan' = new /\ Announce("l") /\ took' = (took \/ Left(argIdx))
    BY DEF LimitClear, At, IInv, ArgsType
  <2>2. CASE chan.limit = NoLimit
    BY <2>1, <2>2 DEF Silent
  <2>3. CASE chan.limit # NoLimit
    <3>1. ~took /\ ~Left(argIdx)
      BY <2>1, <2>3 DEF Left
    <3> QED
      BY <2>1, <2>3, <3>1 DEF Announce
  <2> QED
    BY <2>2, <2>3
<1>2. Shape(new) /\ (chan.limit = NoLimit => new = chan)
  BY DEF ShapeOK, Shape
<1>3. chan' = new
  BY <1>1, <1>2
<1>4. /\ Step(State(flag, argIdx, chan), "l", params) = State(flag, argIdx, new)
      /\ Step(State(flag, Len(announced) + 1, chan), "l", announced)
           = State(flag, Len(announced) + 1, new)
      /\ ~ Void(State(flag, Len(announced) + 1, chan), "l", announced)
  BY <1>1, ClearRead
<1> HIDE DEF new
<1>5. Obeyed
  BY <1>1, <1>3, <1>4 DEF Obeyed
<1>6. CASE chan.limit = NoLimit
  BY <1>1, <1>2, <1>3, <1>5, <1>6 DEF Understood, Untold
<1>7. CASE chan.limit # NoLimit
  <2>1. Told("l")
    BY <1>1, <1>3, <1>4, <1>7 DEF Told
  <2> QED
    BY <1>1, <1>2, <1>3, <1>5, <2>1 DEF Understood
<1> QED
  BY <1>6, <1>7

(* A letter with an argument that changes the channel, or has to.          *)
LEMMA TakenUnderstood ==
  ASSUME IInv, ShapeOK, NEW x \in Letters, At(x), NEW w \in Words, Reads(w), Needs(x, flag),
         ~took, UNCHANGED <<flag, kept>>, Shape(chan'), chan' = Effect(chan, x, flag, w),
         \/ /\ argIdx' = argIdx + 1 /\ chan' = chan
            /\ UNCHANGED <<change, announced>>
         \/ Announce(x)
  PROVE  Understood
<1>1. /\ phase = "apply" /\ pos <= Len(modeStr) /\ modeStr[pos] = x /\ flag \in BOOLEAN
      /\ params \in Seq(Words) /\ announced \in Seq(Words) /\ kept \in BOOLEAN
  BY DEF At, IInv, ArgsType, ShapeOK
<1>2. Left(argIdx) /\ argIdx \in Nat
  BY <1>1, HasArgument
<1>3. params[argIdx] = w /\ argIdx <= Len(params)
  BY <1>2 DEF Reads, Left
<1>4. argIdx' = argIdx + 1
  BY <1>2 DEF Announce
<1>5. Obeyed
  <2>1. Step(State(flag, argIdx, chan), x, params)
          = State(flag, argIdx + 1, Effect(chan, x, flag, params[argIdx]))
    BY <1>1, <1>2, <1>3, ArgumentRead
  <2> QED
    BY <1>1, <1>3, <1>4, <2>1 DEF Obeyed
<1>6. CASE argIdx' = argIdx + 1 /\ chan' = chan /\ UNCHANGED <<change, announced>>
  BY <1>5, <1>6 DEF Understood, Untold
<1>7. CASE Announce(x)
  <2> DEFINE n == Len(announced)
  <2>1. change' = Append(change, x) /\ announced' = Append(announced, w)
    BY <1>2, <1>3, <1>7 DEF Announce
  <2>2. /\ announced' \in Seq(Words) /\ Len(announced') = n + 1 /\ n \in Nat
        /\ announced'[n + 1] = w
    BY <1>1, <2>1
  <2>3. /\ ~ Void(State(flag, n + 1, chan), x, announced')
        /\ Step(State(flag, n + 1, chan), x, announced')
             = State(flag, (n + 1) + 1, Effect(chan, x, flag, announced'[n + 1]))
    <3> HIDE DEF n
    <3>1. n + 1 \in Nat /\ n + 1 <= Len(announced') /\ ~ (n + 1 > Len(announced'))
      BY <2>2
    <3>2. ASSUME NEW arg \in Seq(Words), NEW i \in Nat, i <= Len(arg), ~ (i > Len(arg))
          PROVE  /\ ~ Void(State(flag, i, chan), x, arg)
                 /\ Step(State(flag, i, chan), x, arg)
                      = State(flag, i + 1, Effect(chan, x, flag, arg[i]))
      <4>1. Void(State(flag, i, chan), x, arg) <=> i > Len(arg)
        BY <1>1, ArgumentRead
      <4>2. i <= Len(arg) => Step(State(flag, i, chan), x, arg)
                               = State(flag, i + 1, Effect(chan, x, flag, arg[i]))
        BY <1>1, ArgumentRead
      <4> QED
        BY <3>2, <4>1, <4>2
    <3> QED
      BY <2>2, <3>1, <3>2
  <2>4. Told(x)
    BY <2>1, <2>2, <2>3 DEF Told
  <2> QED
    BY <1>5, <2>4 DEF Understood
<1> QED
  BY <1>6, <1>7

(* A letter that leaves its argument does nothing else.                    *)
LEMMA KeptUnderstood ==
  ASSUME IInv, ShapeOK, NEW w \in Words, OperKeep(w) \/ KeyKeep(w), ~took'
  PROVE  Understood
<1>1. kept' = TRUE /\ UNCHANGED <<flag, chan, change, announced, took>>
  BY DEF OperKeep, KeyKeep, Silent
<1> QED
  BY <1>1 DEF Understood, Obeyed, Untold, ShapeOK

(* o, with the nickname of a member or of nobody.                          *)
LEMMA OperUnderstood ==
  ASSUME IInv, ShapeOK, NEW w \in Words, OperUnknown(w) \/ OperSet(w), ~took'
  PROVE  Understood
<1>1. /\ At("o") /\ Reads(w) /\ Needs("o", flag) /\ "o" \in Letters /\ flag \in BOOLEAN
  BY DEF OperUnknown, OperSet, Needs, At, IInv, ArgsType
<1> DEFINE new == [chan EXCEPT !.oper = IF flag THEN @ \cup ({w} \cap Nicks) ELSE @ \ {w}]
<1>2. Effect(chan, "o", flag, w) = new
  BY <1>1, OperEffect
<1>3. Shape(new)
  <2> DEFINE opers == IF flag THEN chan.oper \cup ({w} \cap Nicks) ELSE chan.oper \ {w}
  <2>1. chan = [oper |-> chan.oper, key |-> chan.key, limit |-> chan.limit, mode |-> chan.mode]
        /\ opers \subseteq Nicks
    BY DEF ShapeOK, Shape
  <2>2. new = [chan EXCEPT !.oper = opers]
    OBVIOUS
  <2> HIDE DEF opers, new
  <2> QED
    BY <2>1, <2>2 DEF Shape
<1>4. CASE OperUnknown(w)
  <2>1. /\ w \notin Nicks /\ argIdx' = argIdx + 1
        /\ UNCHANGED <<flag, chan, change, announced, took, kept>>
    BY <1>4 DEF OperUnknown, Silent, AfterUnknown
  <2>2. new = chan
    BY <2>1 DEF ShapeOK, Shape
  <2> HIDE DEF new
  <2> QED
    BY <1>1, <1>2, <1>3, <2>1, <2>2, TakenUnderstood
<1>5. CASE OperSet(w)
  <2>1. w \in Nicks /\ Announce("o") /\ UNCHANGED <<flag, took, kept>>
    BY <1>5 DEF OperSet, Announce
  <2>2. chan' = new
    BY <1>5, <2>1 DEF OperSet
  <2> HIDE DEF new
  <2> QED
    BY <1>1, <1>2, <1>3, <2>1, <2>2, TakenUnderstood
<1> QED
  BY <1>4, <1>5

(* +l.                                                                     *)
LEMMA LimitUnderstood ==
  ASSUME IInv, ShapeOK, NEW w \in Words, LimitSet(w), ~took'
  PROVE  Understood
<1>1. /\ At("l") /\ Reads(w) /\ Needs("l", flag) /\ "l" \in Letters
      /\ flag \in BOOLEAN /\ flag = TRUE /\ UNCHANGED <<flag, took, kept>>
  <2>1. At("l") /\ Reads(w) /\ flag = TRUE
    BY DEF LimitSet, IInv, ArgsType
  <2>2. UNCHANGED <<flag, took, kept>>
    BY DEF LimitSet, Silent, Announce
  <2> QED
    BY <2>1, <2>2 DEF Needs, At, IInv, ArgsType
<1> DEFINE new == [chan EXCEPT !.limit = Size(Number[w])]
<1>2. Effect(chan, "l", flag, w) = new
  <2>1. Effect(chan, "l", TRUE, w) = new
    BY LimitEffect
  <2> QED
    BY <1>1, <2>1
<1>3. Shape(new)
  BY DEF ShapeOK, Shape
<1>4. CASE Size(Number[w]) = chan.limit
  <2>1. argIdx' = argIdx + 1 /\ UNCHANGED <<chan, change, announced>>
    BY <1>4 DEF LimitSet, Silent
  <2>2. new = chan
    BY <1>4 DEF ShapeOK, Shape
  <2> HIDE DEF new
  <2> QED
    BY <1>1, <1>2, <1>3, <2>1, <2>2, TakenUnderstood
<1>5. CASE Size(Number[w]) # chan.limit
  <2>1. chan' = new /\ Announce("l")
    BY <1>5 DEF LimitSet
  <2> HIDE DEF new
  <2> QED
    BY <1>1, <1>2, <1>3, <2>1, TakenUnderstood
<1> QED
  BY <1>4, <1>5

(* k, with a key to set or the right one to clear.                         *)
LEMMA KeyUnderstood ==
  ASSUME IInv, ShapeOK, NEW w \in Words, KeyChange(w), ~took'
  PROVE  Understood
<1>1. /\ At("k") /\ Reads(w) /\ Needs("k", flag) /\ "k" \in Letters /\ flag \in BOOLEAN
      /\ UNCHANGED <<flag, took, kept>> /\ Announce("k")
  BY DEF KeyChange, Needs, At, IInv, ArgsType, Announce
<1> DEFINE new == [chan EXCEPT !.key = IF flag THEN w ELSE Empty]
<1>2. Effect(chan, "k", flag, w) = new
  BY <1>1, KeyEffect
<1>3. Shape(new)
  BY DEF ShapeOK, Shape
<1>4. chan' = new
  BY DEF KeyChange
<1> HIDE DEF new
<1> QED
  BY <1>1, <1>2, <1>3, <1>4, TakenUnderstood

(* Each letter is understood as it is meant.                               *)
LEMMA LetterUnderstood ==
  ASSUME IInv, ShapeOK, ~took', NEW x \in Letters, NEW w \in Words,
         \/ Sign(x) \/ Switch(x) \/ LimitClear
         \/ OperUnknown(w) \/ OperSet(w) \/ OperKeep(w)
         \/ LimitSet(w) \/ KeyChange(w) \/ KeyKeep(w)
  PROVE  Understood
BY SignUnderstood, SwitchUnderstood, ClearUnderstood, KeptUnderstood, OperUnderstood,
   LimitUnderstood, KeyUnderstood

(* A step at a letter keeps the whole of it.                               *)
LEMMA ApplyMeantStep ==
  ASSUME IInv, Meant, phase = "apply", pos <= Len(modeStr), Onward,
         took => took', ~took' => Understood
  PROVE  ApplyMeant'
<1>1. /\ UNCHANGED <<letters, params, phase, modeStr, before>> /\ pos' = pos + 1
      /\ pos \in 1..Len(modeStr) /\ modeStr \in Seq(Letters)
  BY DEF Onward, IInv, ArgsType
<1>2. pos' <= Len(modeStr') + 1
  BY <1>1
<1>3. ASSUME ~took', ~kept'
      PROVE  Walk(before, modeStr, params)[pos] = State(flag', argIdx', chan')
  <2>1. ~took /\ ~kept /\ Step(State(flag, argIdx, chan), modeStr[pos], params)
                             = State(flag', argIdx', chan')
    BY <1>3 DEF Understood, Obeyed
  <2>2. Walk(before, modeStr, params)[pos - 1] = State(flag, argIdx, chan)
    BY <2>1 DEF Meant, ApplyMeant, Read
  <2>3. Walk(before, modeStr, params)[pos]
          = Step(Walk(before, modeStr, params)[pos - 1], modeStr[pos], params)
    <3>1. modeStr \in Seq(Letters) /\ pos \in 1..Len(modeStr)
      BY <1>1
    <3> QED
      BY <3>1, WalkSteps, Zenon
  <2> QED
    BY <2>1, <2>2, <2>3
<1>4. (pos + 1) - 1 = pos
  BY <1>1
<1> QED
  BY <1>1, <1>2, <1>3, <1>4 DEF ApplyMeant, Read

(* What is announced of it can be replayed.                                *)
LEMMA ReplayedStep ==
  ASSUME IInv, Meant, phase = "apply", Onward, took => took', ~took' => Understood
  PROVE  Replayed' /\ (took' \/ (change' \in Seq(Letters) /\ announced' \in Seq(Words)))
<1> SUFFICES ASSUME ~took'
             PROVE  /\ Replayed'
                    /\ change' \in Seq(Letters) /\ announced' \in Seq(Words)
  BY DEF Replayed
<1> DEFINE n == Len(change)
           m == Len(announced)
           V == Walk(before, change, announced)
           W == Walk(before, change', announced')
<1>1. /\ before' = before /\ phase' = "apply" /\ ~took /\ Understood
      /\ change \in Seq(Letters) /\ announced \in Seq(Words)
      /\ V[n] = State(flag, m + 1, chan)
      /\ \A i \in 1..n : ~ Void(V[i - 1], change[i], announced) /\ V[i - 1].next \in Nat \ {0}
  BY DEF Onward, Meant, ShapeOK, Replayed, Read
<1>2. CASE Untold
  BY <1>1, <1>2 DEF Untold, Replayed, Read
<1>3. ASSUME NEW y \in Letters, Told(y)
      PROVE  /\ Replayed'
             /\ change' \in Seq(Letters) /\ announced' \in Seq(Words)
  <2>1. /\ change' = Append(change, y)
        /\ announced' = announced \/ \E v \in Words : announced' = Append(announced, v)
        /\ Step(State(flag, m + 1, chan), y, announced') = State(flag', Len(announced') + 1, chan')
        /\ ~ Void(State(flag, m + 1, chan), y, announced')
    BY <1>3 DEF Told
  <2>2. /\ change' \in Seq(Letters) /\ Len(change') = n + 1 /\ n \in Nat
        /\ change'[n + 1] = y /\ \A i \in 1..n : change'[i] = change[i]
    BY <1>1, <2>1
  <2>3. /\ announced' \in Seq(Words) /\ m \in Nat /\ m <= Len(announced')
        /\ \A i \in 1..m : announced'[i] = announced[i]
    <3>1. CASE announced' = announced
      BY <1>1, <3>1
    <3>2. ASSUME NEW v \in Words, announced' = Append(announced, v)
          PROVE  /\ announced' \in Seq(Words) /\ m \in Nat /\ m <= Len(announced')
                 /\ \A i \in 1..m : announced'[i] = announced[i]
      BY <1>1, <3>2
    <3> QED
      BY <2>1, <3>1, <3>2
  <2>4. ASSUME NEW i \in 1..n
        PROVE  /\ Step(V[i - 1], change[i], announced) = Step(V[i - 1], change[i], announced')
               /\ ~ Void(V[i - 1], change[i], announced')
               /\ V[i - 1].next \in Nat \ {0}
    <3> DEFINE s == V[i - 1]
               x == change[i]
    <3>1. ~ Void(s, x, announced) /\ s.next \in Nat \ {0}
      BY <1>1
    <3> HIDE DEF s, x
    <3>2. Needs(x, Turned(s, x)) => s.next \in 1..m
      BY <1>1, <2>3, <3>1 DEF Void
    <3>3. ~ Void(s, x, announced')
      BY <2>3, <3>1, <3>2 DEF Void
    <3>4. Step(s, x, announced) = Step(s, x, announced')
      BY <2>3, <3>1, <3>2, <3>3 DEF Step
    <3> QED
      BY <3>1, <3>3, <3>4 DEF s, x
  <2>5. /\ \A i \in 0..n : W[i] = V[i]
        /\ W[n + 1] = Step(V[n], y, announced')
    <3>1. SameReading(before, change, announced, announced', Len(change))
      BY <2>4 DEF SameReading
    <3>2. change \in Seq(Letters) /\ change' = Append(change, y)
      BY <1>1, <2>1
    <3>3. OneMore(V, W, n, y, announced')
      BY <3>1, <3>2, LongerWalk
    <3> QED
      BY <3>3 DEF OneMore, SameWalks
  <2>6. W[n + 1] = State(flag', Len(announced') + 1, chan')
    BY <1>1, <2>1, <2>5
  <2>7. ASSUME NEW i \in 1..(n + 1)
        PROVE  ~ Void(W[i - 1], change'[i], announced') /\ W[i - 1].next \in Nat \ {0}
    <3>1. CASE i = n + 1
      <4>1. (n + 1) - 1 = n /\ n \in 0..n
        BY <2>2
      <4>2. W[i - 1] = V[n] /\ change'[i] = y
        BY <2>1, <2>2, <2>5, <3>1, <4>1
      <4> QED
        BY <1>1, <2>1, <2>2, <2>3, <4>2 DEF State
    <3>2. CASE i # n + 1
      <4>1. i \in 1..n /\ i - 1 \in 0..n
        BY <2>2, <3>2
      <4> QED
        BY <2>2, <2>4, <2>5, <4>1
    <3> QED
      BY <3>1, <3>2
  <2> QED
    BY <1>1, <2>2, <2>3, <2>6, <2>7 DEF Replayed, Read
<1> QED
  BY <1>1, <1>2, <1>3 DEF Understood

(* A letter of the command, in _mode.                                      *)
LEMMA FilterMeantStep ==
  ASSUME IInv, Meant, Filter
  PROVE  Meant'
<1> DEFINE x == letters[pos]
           V == Walk(before, letters, params)
           s == V[pos - 1]
           n == Len(modeStr)
           kp == x # "?" /\ (Takes(x) => Left(argIdx))
<1>1. /\ phase = "filter" /\ pos \in 1..Len(letters) /\ letters \in Seq(Letters)
      /\ modeStr \in Seq(Letters) /\ params \in Seq(Words) /\ x \in Letters
      /\ pos' = pos + 1 /\ flag' = Signed(x) /\ flag \in BOOLEAN /\ argIdx \in Nat
      /\ UNCHANGED <<letters, params, phase, chan, change, announced, before, took, kept>>
      /\ IF kp THEN /\ modeStr' = Append(modeStr, x)
                    /\ argIdx' = IF Takes(x) THEN argIdx + 1 ELSE argIdx
               ELSE modeStr' = modeStr /\ argIdx' = argIdx
  BY DEF Filter, IInv, ArgsType
<1>2. /\ s = State(flag, argIdx, s.chan) /\ Walk(before, modeStr, params)[n] = s
      /\ chan = before /\ change = <<>> /\ announced = <<>>
  BY <1>1 DEF Meant, FilterMeant, Read
<1>3. V[pos] = Step(s, x, params)
  <2>1. letters \in Seq(Letters) /\ pos \in 1..Len(letters)
    BY <1>1
  <2> QED
    BY <2>1, WalkSteps, Zenon
<1> DEFINE c == s.chan
<1>4. s = State(flag, argIdx, c)
  BY <1>2
<1> HIDE DEF x, V, s, c
<1>5. V[pos] = State(flag', argIdx', V[pos].chan) /\ (~ kp => V[pos] = s)
  <2>1. CASE x \in {"+", "-"}
    <3>1. V[pos] = State(x = "+", argIdx, c)
      BY <1>1, <1>3, <1>4, <2>1, SignRead
    <3>2. flag' = (x = "+") /\ argIdx' = argIdx /\ kp
      BY <1>1, <2>1 DEF Signed, Takes
    <3> QED
      BY <3>1, <3>2 DEF State
  <2>2. CASE x = "?"
    BY <1>1, <1>3, <1>4, <2>2, UnknownRead DEF Signed, State
  <2>3. CASE Needs(x, flag)
    <3>1. Takes(x) /\ flag' = flag /\ x # "?" /\ Takes(x) \in BOOLEAN
      BY <1>1, <2>3 DEF Takes, Needs, Signed
    <3>2. CASE argIdx <= Len(params)
      <4>1. kp /\ argIdx' = argIdx + 1
        BY <1>1, <3>1, <3>2 DEF Left
      <4>2. V[pos] = State(flag, argIdx + 1, Effect(c, x, flag, params[argIdx]))
        BY <1>1, <1>3, <1>4, <2>3, <3>2, ArgumentRead
      <4> QED
        BY <3>1, <4>1, <4>2 DEF State
    <3>3. CASE argIdx > Len(params)
      <4>1. ~ kp /\ argIdx' = argIdx
        BY <1>1, <3>1, <3>3 DEF Left
      <4>2. V[pos] = State(flag, argIdx, c)
        BY <1>1, <1>3, <1>4, <2>3, <3>3, ArgumentRead
      <4> QED
        BY <1>4, <3>1, <4>1, <4>2 DEF State
    <3> QED
      BY <1>1, <3>2, <3>3
  <2>4. CASE x = "l" /\ flag = FALSE
    <3> DEFINE d == [c EXCEPT !.limit = NoLimit]
    <3>0. V[pos] = Step(State(flag, argIdx, c), "l", params) /\ flag = FALSE
      BY <1>3, <1>4, <2>4
    <3>1. V[pos] = State(flag, argIdx, d)
      <4>1. Step(State(flag, argIdx, c), "l", params) = State(flag, argIdx, [c EXCEPT !.limit = NoLimit])
        BY <3>0, ClearRead
      <4> QED
        BY <3>0, <4>1
    <3>2. kp /\ argIdx' = argIdx /\ flag' = flag
      BY <1>1, <2>4 DEF Takes, Signed
    <3> HIDE DEF d
    <3>3. V[pos] = State(flag', argIdx', V[pos].chan)
      BY <3>1, <3>2 DEF State
    <3> QED
      BY <3>2, <3>3
  <2>5. CASE x \in {"i", "t"}
    <3>0. V[pos] = Step(State(flag, argIdx, c), x, params) /\ flag \in BOOLEAN
      BY <1>1, <1>3, <1>4
    <3>1. V[pos] = State(flag, argIdx, [c EXCEPT !.mode = IF flag THEN @ \cup {x} ELSE @ \ {x}])
      <4>1. Step(State(flag, argIdx, c), x, params)
              = State(flag, argIdx, [c EXCEPT !.mode = IF flag THEN @ \cup {x} ELSE @ \ {x}])
        BY <2>5, <3>0, SwitchRead
      <4> QED
        BY <3>0, <4>1
    <3>2. kp /\ argIdx' = argIdx /\ flag' = flag
      BY <1>1, <2>5 DEF Takes, Signed
    <3> QED
      BY <3>1, <3>2 DEF State
  <2>6. x \in {"+", "-", "o", "k", "l", "i", "t", "?"}
    BY <1>1, ModeArgsAssumption
  <2> QED
    BY <1>1, <2>1, <2>2, <2>3, <2>4, <2>5, <2>6 DEF Needs
<1>6. Walk(before, modeStr', params)[Len(modeStr')] = V[pos]
  <2>1. CASE kp
    <3>1. modeStr' = Append(modeStr, x)
      BY <1>1, <2>1
    <3>2. Len(modeStr') = n + 1
      BY <1>1, <3>1
    <3>3. SameReading(before, modeStr, params, params, Len(modeStr))
      BY DEF SameReading
    <3>4. Walk(before, modeStr', params)[n + 1] = Step(Walk(before, modeStr, params)[n], x, params)
      <4>1. modeStr \in Seq(Letters) /\ x \in Letters
        BY <1>1
      <4>2. OneMore(Walk(before, modeStr, params), Walk(before, modeStr', params), n, x, params)
        BY <3>1, <3>3, <4>1, LongerWalk
      <4> QED
        BY <4>2 DEF OneMore
    <3> QED
      BY <1>2, <1>3, <3>2, <3>4
  <2>2. CASE ~ kp
    BY <1>1, <1>2, <1>5, <2>2
  <2> QED
    BY <2>1, <2>2
<1>7. FilterMeant'
  <2>1. (pos + 1) - 1 = pos /\ pos + 1 <= Len(letters) + 1
    BY <1>1
  <2> QED
    BY <1>1, <1>2, <1>5, <1>6, <2>1 DEF FilterMeant, Read, V
<1>8. (~took => ShapeOK)'
  BY <1>1 DEF Meant, ShapeOK, Shape
<1> QED
  BY <1>1, <1>7, <1>8 DEF Meant, KeptMeant, ApplyMeant, Replayed, AppliedAsWritten

(* The first letter is still to come.                                      *)
LEMMA InitMeant == Init => Meant
<1> SUFFICES ASSUME Init PROVE Meant
  OBVIOUS
<1>1. /\ letters \in Seq(Letters) /\ phase = "filter" /\ pos = 1 /\ flag = TRUE /\ argIdx = 1
      /\ modeStr = <<>> /\ change = <<>> /\ announced = <<>> /\ before = chan
  BY InitInv DEF Init, IInv, ArgsType
<1>2. <<>> \in Seq(Letters) /\ <<>> \in Seq(Words) /\ Len(<<>>) = 0
  OBVIOUS
<1>3. ShapeOK
  <2>1. PICK c \in [oper : SUBSET Nicks, key : Words \ Nicks,
                    limit : {Size(Number[w]) : w \in Words \ Nicks} \cup {NoLimit}, mode : {{}}] :
          chan = c
    BY DEF Init
  <2>2. c = [oper |-> c.oper, key |-> c.key, limit |-> c.limit, mode |-> c.mode]
        /\ c.oper \in SUBSET Nicks
    OBVIOUS
  <2> QED
    BY <1>1, <1>2, <2>1, <2>2 DEF ShapeOK, Shape
<1>4. /\ Walk(before, letters, params)[0] = Start(before)
      /\ Walk(before, modeStr, params)[0] = Start(before)
  BY <1>1, <1>2, WalkSteps, ZenonT(30)
<1>5. FilterMeant
  <2>1. pos - 1 = 0 /\ pos <= Len(letters) + 1 /\ Len(modeStr) = 0
    BY <1>1, <1>2
  <2>2. Start(before) = State(flag, argIdx, Start(before).chan)
    BY <1>1 DEF Start, State
  <2> QED
    BY <1>1, <1>4, <2>1, <2>2 DEF FilterMeant, Read
<1> QED
  BY <1>1, <1>3, <1>5 DEF Meant, KeptMeant, ApplyMeant, Replayed, AppliedAsWritten

(* The call: the reader of the letters that were kept is at the end of the *)
(* command, and mode_set begins.                                           *)
LEMMA CallMeant ==
  ASSUME IInv, Meant, Call
  PROVE  Meant'
<1>1. /\ phase = "filter" /\ pos > Len(letters) /\ pos' = 1 /\ flag' = TRUE /\ argIdx' = 1
      /\ phase' = IF modeStr = <<>> THEN "done" ELSE "apply"
      /\ UNCHANGED <<letters, params, modeStr, chan, change, announced, before, took, kept>>
      /\ letters \in Seq(Letters) /\ modeStr \in Seq(Letters) /\ pos \in Nat
  BY DEF Call, IInv, ArgsType
<1>2. /\ chan = before /\ change = <<>> /\ announced = <<>> /\ pos - 1 = Len(letters)
      /\ Walk(before, modeStr, params)[Len(modeStr)] = Walk(before, letters, params)[Len(letters)]
  <2>1. pos - 1 = Len(letters)
    BY <1>1 DEF Meant, FilterMeant
  <2> QED
    BY <1>1, <2>1 DEF Meant, FilterMeant, Read
<1>3. Meaning(letters, params) = Meaning(modeStr, params)
  BY <1>2 DEF Meaning
<1>4. KeptMeant'
  BY <1>1, <1>3 DEF KeptMeant, Meaning
<1>5. /\ <<>> \in Seq(Letters) /\ Len(<<>>) = 0 /\ Start(before) = State(TRUE, 1, before)
  BY DEF Start, State
<1>6. /\ Walk(before, modeStr, params)[0] = State(TRUE, 1, before)
      /\ Walk(before, change, announced)[0] = State(TRUE, 1, before)
  BY <1>1, <1>2, <1>5, WalkSteps
<1>7. ApplyMeant'
  <2>1. 1 <= Len(modeStr) + 1 /\ 1 - 1 = 0
    BY <1>1
  <2> QED
    BY <1>1, <1>2, <1>6, <2>1 DEF ApplyMeant, Read
<1>8. Replayed'
  <2>1. Len(change) = 0 /\ Len(announced) + 1 = 1 /\ 1..0 = {}
    BY <1>2, <1>5
  <2>2. Walk(before, change, announced)[Len(change)] = State(flag', Len(announced) + 1, chan)
    BY <1>1, <1>2, <1>6, <2>1
  <2>3. \A i \in 1..Len(change) : FALSE
    BY <2>1
  <2> QED
    BY <1>1, <2>2, <2>3 DEF Replayed, Read
<1>9. AppliedAsWritten'
  <2>1. CASE modeStr = <<>>
    <3>1. Meaning(letters, params) = chan
      BY <1>2, <1>3, <1>5, <1>6, <2>1 DEF Meaning, State
    <3> QED
      BY <1>1, <3>1 DEF AppliedAsWritten, Meaning
  <2>2. CASE modeStr # <<>>
    BY <1>1, <2>2 DEF AppliedAsWritten
  <2> QED
    BY <2>1, <2>2
<1>10. (~took => ShapeOK)' /\ FilterMeant'
  BY <1>1 DEF Meant, ShapeOK, Shape, FilterMeant
<1> QED
  BY <1>4, <1>7, <1>8, <1>9, <1>10 DEF Meant

(* The return: the reader is at the end, too.                              *)
LEMMA ReturnMeant ==
  ASSUME IInv, Meant, Return
  PROVE  Meant'
<1>1. /\ phase = "apply" /\ phase' = "done" /\ pos > Len(modeStr)
      /\ UNCHANGED <<letters, params, flag, modeStr, chan, change, announced, before, took, kept>>
      /\ modeStr \in Seq(Letters) /\ pos \in Nat
  BY DEF Return, IInv, ArgsType
<1>2. pos - 1 = Len(modeStr)
  BY <1>1 DEF Meant, ApplyMeant
<1>3. ~took /\ ~kept => chan = Meaning(letters, params)
  BY <1>1, <1>2 DEF Meant, ApplyMeant, KeptMeant, Meaning, Read, State
<1>4. AppliedAsWritten'
  BY <1>1, <1>3 DEF AppliedAsWritten, Meaning
<1>5. Replayed'
  BY <1>1 DEF Meant, Replayed, Read
<1>6. KeptMeant'
  BY <1>1 DEF Meant, KeptMeant, Meaning
<1> QED
  BY <1>1, <1>4, <1>5, <1>6 DEF Meant, ShapeOK, Shape, FilterMeant, ApplyMeant

(* The end of the process in the middle of a command.                      *)
LEMMA AbortMeant ==
  ASSUME IInv, Meant, Abort
  PROVE  Meant'
<1>1. /\ phase = "apply" /\ phase' = "aborted"
      /\ UNCHANGED <<letters, params, modeStr, chan, change, announced, before, took>>
  BY DEF Abort, At
<1>2. KeptMeant'
  BY <1>1 DEF Meant, KeptMeant, Meaning
<1> QED
  BY <1>1, <1>2 DEF Meant, ShapeOK, Shape, FilterMeant, ApplyMeant, Replayed, AppliedAsWritten

(* A letter of mode_set.                                                   *)
LEMMA LetterMeant ==
  ASSUME IInv, Meant, NEW x \in Letters, NEW w \in Words,
         \/ Sign(x) \/ Switch(x) \/ LimitClear
         \/ OperUnknown(w) \/ OperSet(w) \/ OperKeep(w)
         \/ LimitSet(w) \/ KeyChange(w) \/ KeyKeep(w)
  PROVE  Meant'
<1>1. phase = "apply" /\ pos <= Len(modeStr) /\ Onward
  BY DEF Sign, Switch, LimitClear, OperUnknown, OperSet, OperKeep, LimitSet, KeyChange,
         KeyKeep, At
<1>2. took => took'
  <2>1. took' = took \/ took' = (took \/ Left(argIdx))
    BY DEF Sign, Switch, LimitClear, OperUnknown, OperSet, OperKeep, LimitSet, KeyChange,
           KeyKeep, Silent
  <2> QED
    BY <2>1 DEF IInv, ArgsType
<1>3. ~took' => Understood
  BY <1>2, LetterUnderstood DEF Meant
<1>4. /\ ApplyMeant' /\ Replayed'
      /\ took' \/ (change' \in Seq(Letters) /\ announced' \in Seq(Words))
  BY <1>1, <1>2, <1>3, ApplyMeantStep, ReplayedStep
<1>5. (~took => ShapeOK)'
  BY <1>3, <1>4 DEF Understood, ShapeOK, Shape
<1>6. UNCHANGED <<letters, params, modeStr, phase, before>>
  BY <1>1 DEF Onward
<1>7. KeptMeant'
  BY <1>6 DEF Meant, KeptMeant, Meaning
<1> QED
  BY <1>1, <1>4, <1>5, <1>6, <1>7 DEF Meant, FilterMeant, AppliedAsWritten

(* Why a command means what it does, whatever the letters and arguments.   *)
THEOREM MeaningInvariance == Spec => []Meant
<1>1. Init => Meant
  BY InitMeant
<1>2. IInv /\ Meant /\ [Next]_vars => Meant'
  <2> SUFFICES ASSUME IInv, Meant, [Next]_vars PROVE Meant'
    OBVIOUS
  <2>1. CASE Filter \/ Call \/ Abort \/ Return
    BY <2>1, FilterMeantStep, CallMeant, AbortMeant, ReturnMeant
  <2>2. ASSUME NEW x \in Letters, NEW w \in Words, Sign(x) \/ Switch(x)
        PROVE  Meant'
    BY <2>2, LetterMeant
  <2>3. ASSUME NEW x \in Letters, NEW w \in Words,
               \/ LimitClear
               \/ OperUnknown(w) \/ OperSet(w) \/ OperKeep(w)
               \/ LimitSet(w) \/ KeyChange(w) \/ KeyKeep(w)
        PROVE  Meant'
    BY <2>3, LetterMeant
  <2>4. CASE UNCHANGED vars
    <3>1. UNCHANGED <<letters, params, phase, pos, flag, argIdx, modeStr, chan, change,
                      announced, before, took, kept>>
      BY <2>4 DEF vars
    <3> QED
      BY <3>1 DEF Meant, ShapeOK, Shape, FilterMeant, KeptMeant, ApplyMeant, Replayed, Read,
                  Meaning, AppliedAsWritten
  <2>5. CASE Next
    <3>1. \E w \in Words : TRUE
      BY ModeArgsAssumption
    <3>2. CASE LimitClear \/ \E w \in Words : \/ OperUnknown(w) \/ OperSet(w) \/ OperKeep(w)
                                            \/ LimitSet(w) \/ KeyChange(w) \/ KeyKeep(w)
      <4>1. modeStr[pos] \in Letters
        BY <3>2 DEF IInv, ArgsType, OperUnknown, OperSet, OperKeep, LimitSet, KeyChange,
                    KeyKeep, LimitClear, At
      <4> QED
        BY <2>3, <3>1, <3>2, <4>1
    <3> QED
      BY <2>1, <2>2, <2>5, <3>1, <3>2 DEF Next
  <2> QED
    BY <2>4, <2>5
<1> QED
  BY <1>1, <1>2, Invariance, PTL DEF Spec

(* AppliedAsWritten: the channel ends up as the command says.              *)
THEOREM ObeysTheCommand == Spec => []AppliedAsWritten
<1>1. Meant => AppliedAsWritten
  BY DEF Meant
<1> QED
  BY <1>1, MeaningInvariance, PTL

(* AnnouncedAsApplied: what the members are told leads to the same modes.  *)
THEOREM TellsTheTruth == Spec => []AnnouncedAsApplied
<1>1. Meant => AnnouncedAsApplied
  BY DEF Meant, Replayed, AnnouncedAsApplied, Meaning, Read, State
<1> QED
  BY <1>1, MeaningInvariance, PTL
==============================================================================
