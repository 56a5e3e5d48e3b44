----------------------------- MODULE InputProofs -----------------------------
(***************************************************************************)
(* From bytes to words.  For any stream, bytes and pieces of any size, the *)
(* lines handed on are those of the stream.  For any line, command names   *)
(* and width of the positions that holds the length of the line, the walk  *)
(* stays inside the line, goes on with every step, and splits the line     *)
(* into its words.                                                         *)
(***************************************************************************)
EXTENDS Framing, LineParser, FiniteSetTheorems, WellFoundedInduction, TLAPS

(* The natural numbers are well-founded.                                   *)
LEMMA Smallest ==
  ASSUME NEW T, T \subseteq Nat, T # {}
  PROVE  \E m \in T : \A n \in T : m <= n
<1> DEFINE R == {ss \in Nat \X Nat : ss[1] < ss[2]}
<1>1. IsWellFoundedOn(R, Nat)
  BY NatLessThanWellFounded DEF OpToRel
<1>2. PICK m \in T : \A n \in T : ~ (<<n, m>> \in R)
  <2> HIDE DEF R
  <2> QED
    BY <1>1, WFMin
<1>3. ASSUME NEW n \in T PROVE m <= n
  <2>1. ~ (<<n, m>> \in R) /\ <<n, m>> \in Nat \X Nat
    BY <1>2
  <2>2. ~ (n < m)
    BY <2>1
  <2> QED
    BY <2>2
<1> QED
  BY <1>3

------------------------------------------------------------------------------
(* Bytes become lines.                                                     *)

(* Up to here the bytes that came were handed on in lines.                 *)
Consumed == Len(kept) - Len(buffer) + start

BytesOK ==
  /\ side \in {"server", "bot"}
  /\ sent \in Seq(Bytes) /\ kept \in Seq(Bytes) /\ buffer \in Seq(Bytes)
  /\ got \in Nat /\ start \in Nat /\ start <= Len(buffer)
  /\ lines \in Seq(Seq(Bytes))

(* The buffer is the end of what came, and the bot's index is in it; the   *)
(* server has none.                                                        *)
EndOfKept ==
  /\ side = "server" => start = 0
  /\ Len(buffer) <= Len(kept)
  /\ \A i \in 1..Len(buffer) : buffer[i] = kept[Len(kept) - Len(buffer) + i]

(* What is left begins the stream, or follows a CR LF.                     *)
BetweenLines ==
  \/ Consumed = 0
  \/ Consumed > 1 /\ kept[Consumed - 1] = CR /\ kept[Consumed] = LF

(* As many lines were handed on as end before that place.                  *)
HandedOn == Cardinality(Stream!EndsBefore(kept, Consumed + 1)) = Len(lines)

FramingInv == BytesOK /\ EndOfKept /\ BetweenLines /\ HandedOn

(* The greatest of some positions.                                         *)
LEMMA GreatestIs ==
  ASSUME NEW S, S \subseteq Int, NEW m \in S, \A k \in S : k <= m
  PROVE  Stream!Max(S) = m
<1>1. \A x \in S : (\A y \in S : x >= y) => x = m OBVIOUS
<1>2. \A y \in S : m >= y OBVIOUS
<1>3. Stream!Max(S) \in S /\ \A y \in S : Stream!Max(S) >= y BY <1>2 DEF Stream!Max
<1> QED BY <1>1, <1>3

(* The least of some numbers.                                              *)
LEMMA HasMin ==
  ASSUME NEW S, S \subseteq Nat, S # {}
  PROVE  Min(S) \in S /\ \A k \in S : Min(S) <= k
<1>1. PICK m \in S : \A n \in S : m <= n BY Smallest
<1> QED BY <1>1 DEF Min

(* What a C string keeps of a piece is bytes.                              *)
LEMMA UpToNulBytes ==
  ASSUME NEW piece \in Seq(Bytes)
  PROVE  UpToNul(piece) \in Seq(Bytes)
<1> DEFINE nuls == {i \in DOMAIN piece : piece[i] = NUL}
<1>1. UpToNul(piece) = IF nuls = {} THEN piece ELSE SubSeq(piece, 1, Min(nuls) - 1)
  BY DEF UpToNul
<1>2. DOMAIN piece = 1..Len(piece) /\ Len(piece) \in Nat OBVIOUS
<1>3. nuls \subseteq 1..Len(piece) BY <1>2
<1> HIDE DEF nuls
<1>4. CASE nuls # {}
  <2>1. nuls \subseteq Nat BY <1>2, <1>3
  <2>2. PICK m \in nuls : m = Min(nuls) BY <1>4, <2>1, HasMin
  <2>3. m \in 1..Len(piece) BY <1>3
  <2>4. SubSeq(piece, 1, m - 1) \in Seq(Bytes) BY <1>2, <2>3
  <2> QED BY <1>1, <1>4, <2>2, <2>4
<1> QED BY <1>1, <1>4

(* No place is in two pairs of a stream.                                   *)
LEMMA EndsFacts ==
  ASSUME NEW s \in Seq(Bytes)
  PROVE  /\ \A e \in Stream!Ends(s) :
              /\ e \in Nat /\ 1 <= e /\ e <= Len(s) /\ e + 1 <= Len(s)
              /\ s[e] = CR /\ s[e + 1] = LF
         /\ \A e \in 1..Len(s) : s[e] = LF => e \notin Stream!Ends(s)
<1>0. Len(s) \in Nat OBVIOUS
<1>1. \A e \in Stream!Ends(s) : /\ e \in Nat /\ 1 <= e /\ e <= Len(s) /\ e + 1 <= Len(s)
                                /\ s[e] = CR /\ s[e + 1] = LF
  BY <1>0 DEF Stream!Ends
<1>2. \A e \in 1..Len(s) : s[e] = LF => e \notin Stream!Ends(s)
  BY FramingAssumption DEF Stream!Ends
<1> QED BY <1>1, <1>2

(* There are finitely many.                                                *)
LEMMA EndsFinite ==
  ASSUME NEW s \in Seq(Bytes), NEW i
  PROVE  IsFiniteSet(Stream!EndsBefore(s, i))
<1>0. Len(s) \in Int /\ 1 \in Int OBVIOUS
<1>1. IsFiniteSet(1..Len(s)) BY <1>0, FS_Interval
<1>2. Stream!EndsBefore(s, i) \subseteq 1..Len(s)
  BY <1>0, EndsFacts DEF Stream!EndsBefore
<1> QED BY <1>1, <1>2, FS_Subset

(* More bytes leave the pairs before a CR LF, or the beginning, as they    *)
(* were.                                                                   *)
LEMMA MoreBytes ==
  ASSUME NEW s \in Seq(Bytes), NEW u \in Seq(Bytes), NEW p \in Nat, p <= Len(s),
         p = 0 \/ s[p] = LF
  PROVE  Stream!EndsBefore(s \o u, p + 1) = Stream!EndsBefore(s, p + 1)
<1> DEFINE t == s \o u
<1>1. /\ t \in Seq(Bytes) /\ Len(t) = Len(s) + Len(u) /\ Len(s) \in Nat /\ Len(u) \in Nat
      /\ \A i \in 1..Len(s) : t[i] = s[i]
  OBVIOUS
<1> HIDE DEF t
<1>2. ASSUME NEW j \in Nat, 1 <= j, j < p + 1 PROVE j \in Stream!Ends(t) <=> j \in Stream!Ends(s)
  <2>1. CASE j = p
    <3>1. p \in 1..Len(s) /\ p \in 1..Len(t) BY <1>1, <1>2, <2>1
    <3>2. s[p] = LF /\ t[p] = LF BY <1>1, <1>2, <2>1, <3>1
    <3> QED BY <1>1, <2>1, <3>1, <3>2, EndsFacts
  <2>2. CASE j < p
    <3>1. j \in 1..Len(s) /\ j + 1 \in 1..Len(s) BY <1>2, <2>2, <1>1
    <3>2. t[j] = s[j] /\ t[j + 1] = s[j + 1] BY <1>1, <3>1
    <3> QED BY <1>1, <3>1, <3>2 DEF Stream!Ends
  <2> QED BY <1>2, <2>1, <2>2
<1>3. /\ \A j \in Stream!Ends(t) : j \in Nat /\ 1 <= j
      /\ \A j \in Stream!Ends(s) : j \in Nat /\ 1 <= j
  BY <1>1, EndsFacts
<1> QED BY <1>2, <1>3 DEF Stream!EndsBefore, t

(* b is what is left of the stream k after its first o bytes, of which     *)
(* p - o were handed on as well; its next CR LF is after the first n.      *)
RestOf(k, b, o, p, n) ==
  /\ Len(k) = o + Len(b) /\ \A i \in 1..Len(b) : b[i] = k[o + i]
  /\ p = 0 \/ (p > 1 /\ k[p - 1] = CR /\ k[p] = LF)
  /\ o <= p /\ p <= o + n /\ n + 2 <= Len(b) /\ b[n + 1] = CR /\ b[n + 2] = LF
  /\ \A i \in Nat : p <= o + i /\ i < n => ~ (b[i + 1] = CR /\ b[i + 2] = LF)

(* The next line of the buffer is the next line of the stream.             *)
LEMMA NextLine ==
  ASSUME NEW k \in Seq(Bytes), NEW b \in Seq(Bytes), NEW o \in Nat, NEW p \in Nat,
         NEW n \in Nat, RestOf(k, b, o, p, n), NEW e \in Nat, e = o + n + 1
  PROVE  /\ e \in Stream!Ends(k)
         /\ Stream!EndsBefore(k, e) = Stream!EndsBefore(k, p + 1)
         /\ Stream!EndsBefore(k, e + 2) = Stream!EndsBefore(k, p + 1) \cup {e}
         /\ Stream!Begins(k, e) = p + 1
<1> DEFINE E == Stream!Ends(k)
<1>0. /\ Len(k) \in Nat /\ Len(b) \in Nat /\ Len(k) = o + Len(b)
      /\ \A i \in 1..Len(b) : b[i] = k[o + i]
      /\ p < e /\ e + 1 <= Len(k) /\ n + 2 <= Len(b)
  BY SMTT(30) DEF RestOf
<1>1. e \in E /\ k[e + 1] = LF
  <2>1. n + 1 \in 1..Len(b) /\ n + 2 \in 1..Len(b) BY <1>0
  <2>2. k[o + (n + 1)] = CR /\ k[o + (n + 2)] = LF BY <1>0, <2>1 DEF RestOf
  <2>3. o + (n + 1) = e /\ o + (n + 2) = e + 1 /\ e \in 1..(Len(k) - 1) BY <1>0
  <2> QED BY <2>2, <2>3 DEF Stream!Ends
<1>2. \A j \in E : /\ j \in Nat /\ 1 <= j /\ j + 1 <= Len(k)
                   /\ k[j] = CR /\ k[j + 1] = LF
  BY EndsFacts
<1>3. ASSUME NEW j \in E, j < e PROVE j < p + 1
  <2> SUFFICES ASSUME j > p PROVE FALSE BY <1>2
  <2>1. PICK i \in Nat : j = o + i + 1
    <3>1. j - o - 1 \in Nat BY <1>2 DEF RestOf
    <3>2. j = o + (j - o - 1) + 1 BY <1>2
    <3> QED BY <3>1, <3>2
  <2>2. p <= o + i /\ i < n /\ i + 1 \in 1..Len(b) /\ i + 2 \in 1..Len(b)
    BY <1>0, <1>3, <2>1
  <2>3. o + (i + 1) = j /\ o + (i + 2) = j + 1 BY <2>1
  <2>4. b[i + 1] = CR /\ b[i + 2] = LF BY <1>0, <1>2, <2>2, <2>3
  <2> QED BY <2>2, <2>4 DEF RestOf
<1>4. e + 1 \notin E
  <2>1. e + 1 \in 1..Len(k) BY <1>0
  <2> QED BY <1>1, <2>1, EndsFacts
<1>5. p \notin E
  <2> SUFFICES ASSUME p \in E PROVE FALSE OBVIOUS
  <2>1. k[p] = CR /\ p # 0 BY <1>2
  <2> QED BY <2>1, FramingAssumption DEF RestOf
<1>6. p # 0 => p > 1 /\ p - 1 \in E
  <2> SUFFICES ASSUME p # 0 PROVE p > 1 /\ p - 1 \in E OBVIOUS
  <2>1. p > 1 /\ k[p - 1] = CR /\ k[p] = LF BY DEF RestOf
  <2>2. p - 1 \in 1..(Len(k) - 1) /\ (p - 1) + 1 = p BY <1>0, <2>1
  <2> QED BY <2>1, <2>2 DEF Stream!Ends
<1> HIDE DEF E
<1>7. /\ Stream!EndsBefore(k, e) = {j \in E : j < e}
      /\ Stream!EndsBefore(k, p + 1) = {j \in E : j < p + 1}
      /\ Stream!EndsBefore(k, e + 2) = {j \in E : j < e + 2}
  BY DEF Stream!EndsBefore, E
<1>8. Stream!EndsBefore(k, e) = Stream!EndsBefore(k, p + 1)
  <2>1. ASSUME NEW j \in E PROVE j < e <=> j < p + 1
    <3>1. j \in Nat BY <1>2
    <3> QED BY <1>0, <1>3, <3>1
  <2> QED BY <1>7, <2>1
<1>9. Stream!EndsBefore(k, e + 2) = Stream!EndsBefore(k, p + 1) \cup {e}
  <2>1. ASSUME NEW j \in E PROVE j < e + 2 <=> j < e \/ j = e
    <3>1. j \in Nat /\ j # e + 1 BY <1>2, <1>4
    <3> QED BY <3>1
  <2> QED BY <1>1, <1>7, <1>8, <2>1
<1>10. Stream!Begins(k, e) = p + 1
  <2> DEFINE S == Stream!EndsBefore(k, e)
  <2>1. S = {j \in E : j < p + 1} BY <1>7, <1>8
  <2>2. Stream!Begins(k, e) = IF S = {} THEN 1 ELSE Stream!Max(S) + 2
    BY DEF Stream!Begins
  <2> HIDE DEF S
  <2>3. CASE p = 0
    <3>1. S = {} BY <1>2, <2>1, <2>3
    <3> QED BY <2>2, <2>3, <3>1
  <2>4. CASE p # 0
    <3>1. PICK m \in Nat : m = p - 1 /\ m \in S BY <1>6, <2>1, <2>4
    <3>2. ASSUME NEW j \in S PROVE j \in Int /\ j <= m
      <4>1. j \in E /\ j < p + 1 /\ j # p BY <1>5, <2>1
      <4>2. j \in Nat BY <1>2, <4>1
      <4> QED BY <3>1, <4>1, <4>2
    <3>3. Stream!Max(S) = m BY <3>1, <3>2, GreatestIs
    <3> QED BY <2>2, <3>1, <3>3
  <2> QED BY <2>3, <2>4
<1> QED BY <1>1, <1>8, <1>9, <1>10 DEF E

(* A part of what is left is a part of the stream.                         *)
LEMMA SameSlice ==
  ASSUME NEW k \in Seq(Bytes), NEW b \in Seq(Bytes), NEW o \in Nat,
         NEW m \in Nat, NEW n \in Nat, m <= n, n <= Len(b), o + n <= Len(k),
         \A i \in 1..Len(b) : b[i] = k[o + i]
  PROVE  SubSeq(b, m + 1, n) = SubSeq(k, o + (m + 1), o + n)
<1> DEFINE x == SubSeq(b, m + 1, n)
           y == SubSeq(k, o + (m + 1), o + n)
<1>0. Len(b) \in Nat /\ Len(k) \in Nat OBVIOUS
<1>1. x \in Seq(Bytes) /\ Len(x) = n - m /\ \A i \in 1..(n - m) : x[i] = b[m + i]
  BY <1>0
<1>2. y \in Seq(Bytes) /\ Len(y) = n - m /\ \A i \in 1..(n - m) : y[i] = k[o + (m + i)]
  BY <1>0
<1>3. \A i \in 1..(n - m) : m + i \in 1..Len(b) BY <1>0
<1> HIDE DEF x, y
<1>4. \A i \in 1..Len(x) : x[i] = y[i] BY <1>1, <1>2, <1>3
<1> QED BY <1>1, <1>2, <1>4 DEF x, y

(* What is left in the buffer is the rest of what came.                    *)
LEMMA BufferFacts ==
  ASSUME FramingInv, Complete(start), NEW end, end = EndOfLine(start)
  PROVE  LET o == Len(kept) - Len(buffer)
         IN  /\ o \in Nat /\ Consumed = o + start /\ Consumed \in Nat /\ end \in Nat
             /\ start <= end /\ end + 2 <= Len(buffer)
             /\ RestOf(kept, buffer, o, Consumed, end)
<1> DEFINE ends == {i \in start..(Len(buffer) - 2) : buffer[i + 1] = CR /\ buffer[i + 2] = LF}
<1>0. /\ Len(kept) \in Nat /\ Len(buffer) \in Nat /\ start \in Nat
      /\ Len(buffer) <= Len(kept) /\ start <= Len(buffer)
  BY DEF FramingInv, BytesOK, EndOfKept
<1>1. PICK o \in Nat : o = Len(kept) - Len(buffer) BY <1>0
<1>2. PICK p \in Nat : p = o + start /\ p = Consumed
  <2>1. PICK q \in Nat : q = o + start BY <1>0
  <2>2. Consumed = o + start BY <1>1, Zenon DEF Consumed
  <2> QED BY <2>1, <2>2
<1>3. ends # {} /\ end = Min(ends)
  <2>1. end = IF ends = {} THEN Len(buffer) ELSE Min(ends) BY DEF EndOfLine
  <2>2. end < Len(buffer) BY DEF Complete
  <2> HIDE DEF ends
  <2> QED BY <1>0, <2>1, <2>2
<1>4. ends \subseteq Nat BY <1>0
<1>5. end \in ends /\ \A i \in ends : end <= i BY <1>3, <1>4, HasMin
<1>6. /\ end \in Nat /\ start <= end /\ end + 2 <= Len(buffer)
      /\ buffer[end + 1] = CR /\ buffer[end + 2] = LF
  BY <1>0, <1>5
<1>7. ASSUME NEW i \in Nat, p <= o + i, i < end
      PROVE  ~ (buffer[i + 1] = CR /\ buffer[i + 2] = LF)
  <2>1. i \in start..(Len(buffer) - 2) BY <1>0, <1>2, <1>6, <1>7
  <2>2. i \notin ends
    <3> HIDE DEF ends
    <3> SUFFICES ASSUME i \in ends PROVE FALSE OBVIOUS
    <3>1. end <= i BY <1>5
    <3> QED BY <1>6, <1>7, <3>1
  <2> QED BY <2>1, <2>2
<1> HIDE DEF ends
<1>8. Len(kept) = o + Len(buffer) /\ \A i \in 1..Len(buffer) : buffer[i] = kept[o + i]
  BY <1>0, <1>1 DEF FramingInv, EndOfKept
<1>9. p = 0 \/ (p > 1 /\ kept[p - 1] = CR /\ kept[p] = LF)
  BY <1>2 DEF FramingInv, BetweenLines
<1>10. o <= p /\ p <= o + end BY <1>0, <1>2, <1>6
<1>11. RestOf(kept, buffer, o, p, end) BY <1>6, <1>7, <1>8, <1>9, <1>10 DEF RestOf
<1> QED BY <1>1, <1>2, <1>6, <1>11

(* One element more.                                                       *)
LEMMA OneMoreEnd ==
  ASSUME NEW S, NEW x, IsFiniteSet(S), x \notin S
  PROVE  Cardinality(S \cup {x}) = Cardinality(S) + 1
BY FS_AddElement

(* The places in the stream of the end of a line and of its beginning.     *)
LEMMA OnePlace ==
  ASSUME NEW o \in Nat, NEW from \in Nat, NEW end \in Nat,
         NEW e, e = o + end + 1, NEW p, p = o + from
  PROVE  e - 1 = o + end /\ p + 1 = o + (from + 1) /\ e + 1 = o + (end + 2)
OBVIOUS

(* A line is handed on: it is the next one of the stream, and one more     *)
(* ends before the place behind its CR LF.                                 *)
LEMMA HandOn ==
  ASSUME FramingInv, Complete(start), NEW end, end = EndOfLine(start),
         NEW e, e = Len(kept) - Len(buffer) + end + 1
  PROVE  /\ end \in Nat /\ start <= end /\ end + 2 <= Len(buffer)
         /\ e \in Nat /\ e >= 1 /\ e \in Stream!Ends(kept) /\ kept[e] = CR /\ kept[e + 1] = LF
         /\ Cardinality(Stream!EndsBefore(kept, e)) = Len(lines)
         /\ Cardinality(Stream!EndsBefore(kept, e + 2)) = Len(lines) + 1
         /\ SubSeq(buffer, start + 1, end) = Stream!Line(kept, e)
<1>0. /\ kept \in Seq(Bytes) /\ buffer \in Seq(Bytes) /\ start \in Nat
      /\ Len(kept) \in Nat /\ Len(buffer) \in Nat
  BY DEF FramingInv, BytesOK
<1>1. PICK o \in Nat : o = Len(kept) - Len(buffer) BY BufferFacts
<1>2. PICK p \in Nat : p = Consumed /\ p = o + start BY <1>1, BufferFacts
<1>3. end \in Nat /\ start <= end /\ end + 2 <= Len(buffer) BY BufferFacts
<1>4. RestOf(kept, buffer, o, p, end) BY <1>1, <1>2, BufferFacts
<1>5. e \in Nat /\ e = o + end + 1 BY <1>1, <1>3
<1>6. /\ e \in Stream!Ends(kept)
      /\ Stream!EndsBefore(kept, e) = Stream!EndsBefore(kept, p + 1)
      /\ Stream!EndsBefore(kept, e + 2) = Stream!EndsBefore(kept, p + 1) \cup {e}
      /\ Stream!Begins(kept, e) = p + 1
  <2>1. ASSUME NEW n \in Nat, n = end, NEW x \in Nat, x = e
        PROVE  /\ x \in Stream!Ends(kept)
               /\ Stream!EndsBefore(kept, x) = Stream!EndsBefore(kept, p + 1)
               /\ Stream!EndsBefore(kept, x + 2) = Stream!EndsBefore(kept, p + 1) \cup {x}
               /\ Stream!Begins(kept, x) = p + 1
    <3>1. RestOf(kept, buffer, o, p, n) /\ x = o + n + 1 BY <1>4, <1>5, <2>1
    <3>2. kept \in Seq(Bytes) /\ buffer \in Seq(Bytes) BY <1>0
    <3> QED BY <3>1, <3>2, NextLine
  <2> QED BY <1>3, <1>5, <2>1
<1>7. Cardinality(Stream!EndsBefore(kept, p + 1)) = Len(lines)
  BY <1>2 DEF FramingInv, HandedOn
<1>8. Cardinality(Stream!EndsBefore(kept, e + 2)) = Len(lines) + 1
  <2>1. e \notin Stream!EndsBefore(kept, e) BY <1>5 DEF Stream!EndsBefore
  <2>2. IsFiniteSet(Stream!EndsBefore(kept, p + 1)) BY <1>0, EndsFinite
  <2> DEFINE S == Stream!EndsBefore(kept, p + 1)
  <2>3. Stream!EndsBefore(kept, e + 2) = S \cup {e} /\ e \notin S /\ IsFiniteSet(S)
        /\ Cardinality(S) = Len(lines)
    BY <1>6, <1>7, <2>1, <2>2
  <2> HIDE DEF S
  <2>4. Cardinality(S \cup {e}) = Cardinality(S) + 1 BY <2>3, OneMoreEnd
  <2> QED BY <2>3, <2>4
<1>9. SubSeq(buffer, start + 1, end) = SubSeq(kept, p + 1, e - 1)
  <2>1. e - 1 = o + end /\ p + 1 = o + (start + 1) BY <1>0, <1>2, <1>3, <1>5, OnePlace
  <2>2. \A i \in 1..Len(buffer) : buffer[i] = kept[o + i] BY <1>4 DEF RestOf
  <2>3. o + end <= Len(kept) BY <1>0, <1>1, <1>3
  <2>4. ASSUME NEW m \in Nat, m = start, NEW n \in Nat, n = end
        PROVE  SubSeq(buffer, m + 1, n) = SubSeq(kept, o + (m + 1), o + n)
    <3>1. m <= n /\ n <= Len(buffer) /\ o + n <= Len(kept) BY <1>0, <1>3, <2>3, <2>4
    <3>2. kept \in Seq(Bytes) /\ buffer \in Seq(Bytes) BY <1>0
    <3> QED BY <2>2, <3>1, <3>2, SameSlice
  <2>5. SubSeq(buffer, start + 1, end) = SubSeq(kept, o + (start + 1), o + end)
    BY <1>0, <1>3, <2>4
  <2> QED BY <2>1, <2>5
<1>10. kept[e] = CR /\ kept[e + 1] = LF /\ e >= 1 BY <1>0, <1>6, EndsFacts
<1> QED BY <1>3, <1>5, <1>6, <1>7, <1>8, <1>9, <1>10 DEF Stream!Line

------------------------------------------------------------------------------
(* recv lengthens the stream, and the buffer by the same bytes.            *)
LEMMA RecvStep ==
  ASSUME FramingInv, Recv
  PROVE  FramingInv' /\ Stream!Arrive
<1>1. PICK n \in 1..Chunk :
        /\ got + n <= Len(sent) /\ got' = got + n
        /\ kept' = kept \o UpToNul(Piece(n)) /\ buffer' = buffer \o UpToNul(Piece(n))
  BY DEF Recv, Piece
<1>2. /\ side' = side /\ sent' = sent /\ start' = start /\ lines' = lines BY DEF Recv
<1>3. PICK u \in Seq(Bytes) : u = UpToNul(Piece(n))
  <2>1. n \in Nat /\ sent \in Seq(Bytes) /\ got \in Nat
    BY FramingAssumption DEF FramingInv, BytesOK
  <2>2. Piece(n) \in Seq(Bytes) BY <1>1, <2>1 DEF Piece
  <2> QED BY <2>2, UpToNulBytes
<1>4. PICK k \in Seq(Bytes), b \in Seq(Bytes) : k = kept /\ b = buffer
  BY DEF FramingInv, BytesOK
<1>5. /\ Len(k) \in Nat /\ Len(b) \in Nat /\ Len(u) \in Nat
      /\ k \o u \in Seq(Bytes) /\ b \o u \in Seq(Bytes)
      /\ Len(k \o u) = Len(k) + Len(u) /\ Len(b \o u) = Len(b) + Len(u)
      /\ \A i \in 1..Len(k) : (k \o u)[i] = k[i]
      /\ \A i \in 1..Len(b) : (b \o u)[i] = b[i]
      /\ \A i \in 1..Len(u) : (k \o u)[Len(k) + i] = u[i] /\ (b \o u)[Len(b) + i] = u[i]
  OBVIOUS
<1>6. PICK kk \in Seq(Bytes), bb \in Seq(Bytes) :
        /\ kk = k \o u /\ bb = b \o u /\ kept' = kk /\ buffer' = bb
  BY <1>1, <1>3, <1>4, <1>5
<1>7. /\ Len(kk) = Len(k) + Len(u) /\ Len(bb) = Len(b) + Len(u)
      /\ \A i \in 1..Len(k) : kk[i] = k[i]
      /\ \A i \in 1..Len(b) : bb[i] = b[i]
      /\ \A i \in 1..Len(u) : kk[Len(k) + i] = u[i] /\ bb[Len(b) + i] = u[i]
  BY <1>5, <1>6
<1>8. /\ Len(b) <= Len(k) /\ start \in Nat /\ start <= Len(b)
      /\ \A i \in 1..Len(b) : b[i] = k[(Len(k) - Len(b)) + i]
  BY <1>4 DEF FramingInv, BytesOK, EndOfKept
<1>9. PICK p \in Nat : p = Consumed /\ p <= Len(k)
  <2>1. PICK m \in Nat, n0 \in Nat, j \in Nat : m = Len(k) /\ n0 = Len(b) /\ j = start
    BY <1>5, <1>8
  <2>2. Consumed = (m - n0) + j BY <1>4, <2>1 DEF Consumed
  <2>3. (m - n0) + j \in Nat /\ (m - n0) + j <= m BY <1>8, <2>1
  <2> QED BY <2>1, <2>2, <2>3
<1>10. Consumed' = p
  <2>1. Consumed' = (Len(kept') - Len(buffer')) + start' BY DEF Consumed
  <2>2. Consumed' = ((Len(k) + Len(u)) - (Len(b) + Len(u))) + start
    BY <1>2, <1>6, <1>7, <2>1
  <2>3. p = (Len(k) - Len(b)) + start BY <1>4, <1>9 DEF Consumed
  <2>4. ((Len(k) + Len(u)) - (Len(b) + Len(u))) + start = (Len(k) - Len(b)) + start
    BY <1>5, <1>8
  <2> QED BY <2>2, <2>3, <2>4
<1>11. BytesOK'
  <2>1. got' \in Nat BY <1>1, FramingAssumption DEF FramingInv, BytesOK
  <2>2. start' <= Len(buffer') BY <1>2, <1>5, <1>6, <1>7, <1>8
  <2> QED BY <1>2, <1>6, <2>1, <2>2 DEF FramingInv, BytesOK
<1>12. EndOfKept'
  <2>1. Len(bb) <= Len(kk) BY <1>5, <1>7, <1>8
  <2>2. ASSUME NEW i \in 1..Len(bb) PROVE bb[i] = kk[(Len(kk) - Len(bb)) + i]
    <3>1. CASE i \in 1..Len(b)
      <4>1. (Len(kk) - Len(bb)) + i = (Len(k) - Len(b)) + i
            /\ (Len(k) - Len(b)) + i \in 1..Len(k)
        BY <1>5, <1>7, <1>8, <3>1
      <4> QED BY <1>7, <1>8, <3>1, <4>1
    <3>2. CASE i \notin 1..Len(b)
      <4>1. PICK j \in 1..Len(u) : i = Len(b) + j
        <5>1. i - Len(b) \in 1..Len(u) /\ i = Len(b) + (i - Len(b)) BY <1>5, <1>7, <3>2
        <5> QED BY <5>1
      <4>2. (Len(kk) - Len(bb)) + i = Len(k) + j BY <1>5, <1>7, <4>1
      <4> QED BY <1>7, <4>1, <4>2
    <3> QED BY <3>1, <3>2
  <2> QED BY <1>2, <1>6, <2>1, <2>2 DEF FramingInv, EndOfKept
<1>13. p = 0 \/ (p > 1 /\ k[p - 1] = CR /\ k[p] = LF)
  BY <1>4, <1>9 DEF FramingInv, BetweenLines
<1>14. BetweenLines'
  <2>1. CASE p = 0 BY <1>10, <2>1 DEF BetweenLines
  <2>2. CASE p # 0
    <3>1. p \in 1..Len(k) /\ p - 1 \in 1..Len(k) BY <1>5, <1>9, <1>13, <2>2
    <3>2. kk[p - 1] = CR /\ kk[p] = LF BY <1>7, <1>13, <2>2, <3>1
    <3> QED BY <1>6, <1>10, <1>13, <2>2, <3>2 DEF BetweenLines
  <2> QED BY <2>1, <2>2
<1>15. HandedOn'
  <2>1. Stream!EndsBefore(kk, p + 1) = Stream!EndsBefore(k, p + 1)
    BY <1>6, <1>9, <1>13, MoreBytes
  <2>2. Cardinality(Stream!EndsBefore(k, p + 1)) = Len(lines)
    BY <1>4, <1>9 DEF FramingInv, HandedOn
  <2>3. HandedOn' <=> Cardinality(Stream!EndsBefore(kept', Consumed' + 1)) = Len(lines')
    BY DEF HandedOn, Stream!EndsBefore, Stream!Ends
  <2> QED BY <1>2, <1>6, <1>10, <2>1, <2>2, <2>3
<1>16. Stream!Arrive
  <2>1. SubSeq(kk, 1, Len(k)) = k BY <1>5, <1>7
  <2>2. Len(k) <= Len(kk) BY <1>5, <1>7
  <2> QED BY <1>2, <1>4, <1>6, <2>1, <2>2 DEF Stream!Arrive
<1> QED BY <1>11, <1>12, <1>14, <1>15, <1>16 DEF FramingInv

(* The buffer is cut behind some of its bytes, the stream stays.           *)
LEMMA Cut ==
  ASSUME FramingInv, kept' = kept, NEW a \in Nat, a <= Len(buffer),
         buffer' = SubSeq(buffer, a + 1, Len(buffer)), start' = 0
  PROVE  /\ EndOfKept' /\ buffer' \in Seq(Bytes) /\ start' \in Nat /\ start' <= Len(buffer')
         /\ Consumed' = (Len(kept) - Len(buffer)) + a
<1>1. PICK k \in Seq(Bytes), b \in Seq(Bytes) : k = kept /\ b = buffer
  BY DEF FramingInv, BytesOK
<1>2. PICK c \in Seq(Bytes) :
        /\ c = buffer' /\ Len(c) = Len(b) - a /\ Len(b) \in Nat
        /\ \A i \in 1..Len(c) : c[i] = b[a + i]
  <2>1. ASSUME NEW c, c = SubSeq(b, a + 1, Len(b))
        PROVE  /\ c \in Seq(Bytes) /\ Len(c) = Len(b) - a /\ Len(b) \in Nat
               /\ \A i \in 1..Len(c) : c[i] = b[a + i]
    <3>1. a <= Len(b) BY <1>1
    <3>2. b \in Seq(Bytes) /\ Len(b) \in Nat BY <1>1
    <3> DEFINE n == Len(b)
    <3>3. n \in Nat /\ a <= n /\ \A i \in (a + 1)..n : b[i] \in Bytes BY <3>1, <3>2
    <3>4. c = SubSeq(b, a + 1, n) BY <2>1
    <3> HIDE DEF n
    <3>5. /\ c \in Seq(Bytes) /\ Len(c) = n - a /\ \A i \in 1..(n - a) : c[i] = b[a + i]
      BY <3>3, <3>4
    <3> QED BY <3>2, <3>5 DEF n
  <2> QED BY <1>1, <2>1
<1>3. /\ Len(k) \in Nat /\ Len(b) <= Len(k)
      /\ \A i \in 1..Len(b) : b[i] = k[(Len(k) - Len(b)) + i]
  BY <1>1 DEF FramingInv, EndOfKept
<1>4. PICK m \in Nat, n \in Nat : m = Len(k) /\ n = Len(b) BY <1>2, <1>3
<1>5. Len(c) = n - a /\ a <= n /\ n <= m BY <1>1, <1>2, <1>3, <1>4
<1>6. ASSUME NEW i \in 1..Len(c) PROVE c[i] = k[(m - Len(c)) + i]
  <2>1. a + i \in 1..n BY <1>5
  <2>2. (m - n) + (a + i) = (m - Len(c)) + i BY <1>5
  <2>3. b[a + i] = k[(m - n) + (a + i)] BY <1>3, <1>4, <2>1
  <2> QED BY <1>2, <2>2, <2>3
<1>7. Len(c) <= m /\ Len(c) \in Nat BY <1>5
<1>8. Len(buffer') = n - a /\ Len(kept') = m BY <1>1, <1>2, <1>4, <1>5
<1>9. EndOfKept'
  <2>1. /\ start' = 0 /\ kept' = k /\ buffer' = c BY <1>1, <1>2
  <2>2. Len(c) <= Len(k) /\ \A i \in 1..Len(c) : c[i] = k[(Len(k) - Len(c)) + i]
    BY <1>4, <1>6, <1>7
  <2> QED BY <2>1, <2>2 DEF EndOfKept
<1>10. Consumed' = (m - n) + a
  <2>1. Consumed' = (Len(kept') - Len(buffer')) + start' BY DEF Consumed
  <2>2. Consumed' = (m - (n - a)) + 0 BY <1>8, <2>1
  <2>3. (m - (n - a)) + 0 = (m - n) + a OBVIOUS
  <2> QED BY <2>2, <2>3
<1> QED BY <1>1, <1>2, <1>4, <1>7, <1>9, <1>10

(* Appending a sequence of bytes to the lines.                             *)
LEMMA OneMore ==
  ASSUME NEW ls \in Seq(Seq(Bytes)), NEW b \in Seq(Bytes), NEW m \in Nat, NEW n \in Nat,
         n <= Len(b)
  PROVE  /\ Append(ls, SubSeq(b, m + 1, n)) \in Seq(Seq(Bytes))
         /\ Len(Append(ls, SubSeq(b, m + 1, n))) = Len(ls) + 1
<1>1. SubSeq(b, m + 1, n) \in Seq(Bytes) OBVIOUS
<1>2. PICK l \in Seq(Bytes) : l = SubSeq(b, m + 1, n) BY <1>1
<1> QED BY <1>2

(* The stream counts as this module does.                                  *)
LEMMA SameCount ==
  ASSUME NEW S
  PROVE  Stream!Cardinality(S) = Cardinality(S)
BY DEF Stream!Cardinality, Cardinality

(* A line is handed on, and the place is behind its CR LF.                 *)
LEMMA Delivers ==
  ASSUME FramingInv, Complete(start), NEW end, end = EndOfLine(start), kept' = kept,
         lines' = Append(lines, SubSeq(buffer, start + 1, end)),
         Consumed' = (Len(kept) - Len(buffer)) + (end + 2)
  PROVE  BetweenLines' /\ HandedOn' /\ lines' \in Seq(Seq(Bytes)) /\ Stream!Deliver
<1>0. /\ Len(kept) \in Nat /\ Len(buffer) \in Nat /\ start \in Nat
      /\ Len(buffer) <= Len(kept)
      /\ buffer \in Seq(Bytes) /\ lines \in Seq(Seq(Bytes))
  BY DEF FramingInv, BytesOK, EndOfKept
<1>1. PICK e : e = Len(kept) - Len(buffer) + end + 1 OBVIOUS
<1>2. /\ end \in Nat /\ start <= end /\ end + 2 <= Len(buffer)
      /\ e \in Nat /\ e >= 1 /\ e \in Stream!Ends(kept) /\ kept[e] = CR /\ kept[e + 1] = LF
      /\ Cardinality(Stream!EndsBefore(kept, e)) = Len(lines)
      /\ Cardinality(Stream!EndsBefore(kept, e + 2)) = Len(lines) + 1
      /\ SubSeq(buffer, start + 1, end) = Stream!Line(kept, e)
  BY <1>1, HandOn
<1>3. Consumed' = e + 1 /\ Consumed' + 1 = e + 2 /\ Consumed' - 1 = e /\ Consumed' > 1
  <2>1. PICK o \in Nat : o = Len(kept) - Len(buffer) BY <1>0
  <2>2. e = o + end + 1 BY <1>1, <2>1
  <2>3. PICK z : z = Consumed' OBVIOUS
  <2>4. z = o + (end + 2) BY <2>1, <2>3, Zenon
  <2>5. end \in Nat /\ e \in Nat /\ e >= 1 /\ o \in Nat BY <1>2, <2>1
  <2>6. z = e + 1
    <3>1. e + 1 = o + (end + 2) BY <2>2, <2>5, OnePlace
    <3> QED BY <2>4, <3>1
  <2>7. z + 1 = e + 2 /\ z - 1 = e /\ z > 1 BY <2>5, <2>6
  <2> QED BY <2>3, <2>6, <2>7
<1>4. BetweenLines' BY <1>2, <1>3 DEF BetweenLines
<1>5. lines' \in Seq(Seq(Bytes)) /\ Len(lines') = Len(lines) + 1
  <2>1. ASSUME NEW n \in Nat, n = end
        PROVE  /\ Append(lines, SubSeq(buffer, start + 1, n)) \in Seq(Seq(Bytes))
               /\ Len(Append(lines, SubSeq(buffer, start + 1, n))) = Len(lines) + 1
    <3>1. n <= Len(buffer) BY <1>0, <1>2, <2>1
    <3> QED BY <1>0, <3>1, OneMore
  <2> QED BY <1>2, <2>1
<1>6. HandedOn'
  <2>1. HandedOn' <=> Cardinality(Stream!EndsBefore(kept', Consumed' + 1)) = Len(lines')
    BY DEF HandedOn, Stream!EndsBefore, Stream!Ends
  <2> QED BY <1>2, <1>3, <1>5, <2>1
<1>7. Stream!Cardinality(Stream!EndsBefore(kept, e)) = Len(lines) BY <1>2, SameCount
<1>8. Stream!Deliver BY <1>2, <1>7 DEF Stream!Deliver
<1> QED BY <1>4, <1>5, <1>6, <1>8

(* Every step is one of the stream, or hides from it.                      *)
LEMMA Streams ==
  ASSUME FramingInv, [FramingNext]_framingVars
  PROVE  FramingInv' /\ [Stream!Next]_(Stream!vars)
<1> USE DEF Stream!Next, Stream!vars
<1>0. /\ buffer \in Seq(Bytes) /\ Len(buffer) \in Nat /\ start \in Nat /\ start <= Len(buffer)
      /\ Len(kept) \in Nat
  BY DEF FramingInv, BytesOK
<1>1. CASE Recv
  BY <1>1, RecvStep
<1>2. CASE GetInputBuffer
  <2>1. PICK end : end = EndOfLine(0) OBVIOUS
  <2>2. /\ start = 0 /\ start' = start /\ Complete(start) /\ end = EndOfLine(start)
        /\ buffer' = SubSeq(buffer, end + 3, Len(buffer))
        /\ lines' = Append(lines, SubSeq(buffer, 1, end))
        /\ side' = side /\ sent' = sent /\ got' = got /\ kept' = kept
    BY <1>2, <2>1 DEF GetInputBuffer, Rest, FramingInv, EndOfKept
  <2>3. end \in Nat /\ end + 2 <= Len(buffer) /\ 0 + 1 = 1 /\ end + 3 = (end + 2) + 1
    BY <2>2, HandOn
  <2>4. PICK a \in Nat : a = end + 2 BY <2>3
  <2>5. buffer' = SubSeq(buffer, a + 1, Len(buffer)) /\ a <= Len(buffer) /\ start' = 0
    BY <2>2, <2>3, <2>4
  <2>6. /\ EndOfKept' /\ buffer' \in Seq(Bytes) /\ start' \in Nat /\ start' <= Len(buffer')
        /\ Consumed' = (Len(kept) - Len(buffer)) + (end + 2)
    BY <2>2, <2>4, <2>5, Cut
  <2>7. lines' = Append(lines, SubSeq(buffer, start + 1, end)) BY <2>2, <2>3
  <2>8. BetweenLines' /\ HandedOn' /\ lines' \in Seq(Seq(Bytes)) /\ Stream!Deliver
    BY <2>2, <2>6, <2>7, Delivers
  <2>9. BytesOK' BY <2>2, <2>6, <2>8 DEF FramingInv, BytesOK
  <2> QED BY <2>6, <2>8, <2>9 DEF FramingInv
<1>3. CASE NoLine
  <2>1. /\ side' = side /\ sent' = sent /\ got' = got /\ kept' = kept /\ buffer' = buffer
        /\ start' = start /\ lines' = lines
    BY <1>3 DEF NoLine
  <2> QED BY <2>1 DEF FramingInv, BytesOK, EndOfKept, BetweenLines, HandedOn, Consumed,
                      Stream!EndsBefore, Stream!Ends
<1>4. CASE OneCmdProc
  <2>1. PICK end : end = EndOfLine(start) OBVIOUS
  <2>2. /\ Complete(start) /\ side = "bot" /\ start' = end + 2
        /\ lines' = Append(lines, SubSeq(buffer, start + 1, end))
        /\ side' = side /\ sent' = sent /\ got' = got /\ kept' = kept /\ buffer' = buffer
    BY <1>4, <2>1 DEF OneCmdProc, NextStart
  <2>3. end \in Nat /\ end + 2 <= Len(buffer) BY <2>1, <2>2, HandOn
  <2>4. Consumed' = (Len(kept) - Len(buffer)) + (end + 2) BY <2>2 DEF Consumed
  <2>5. BetweenLines' /\ HandedOn' /\ lines' \in Seq(Seq(Bytes)) /\ Stream!Deliver
    BY <2>1, <2>2, <2>4, Delivers
  <2>6. BytesOK' BY <2>2, <2>3, <2>5 DEF FramingInv, BytesOK
  <2>7. EndOfKept' BY <2>2 DEF FramingInv, EndOfKept
  <2> QED BY <2>5, <2>6, <2>7 DEF FramingInv
<1>5. CASE Erase
  <2>1. /\ buffer' = SubSeq(buffer, start + 1, Len(buffer)) /\ start' = 0
        /\ side' = side /\ sent' = sent /\ got' = got /\ kept' = kept /\ lines' = lines
    BY <1>5 DEF Erase
  <2>2. PICK a \in Nat : a = start BY <1>0
  <2>3. /\ EndOfKept' /\ buffer' \in Seq(Bytes) /\ start' \in Nat /\ start' <= Len(buffer')
        /\ Consumed' = (Len(kept) - Len(buffer)) + start
    BY <1>0, <2>1, <2>2, Cut
  <2>4. Consumed' = Consumed BY <2>3 DEF Consumed
  <2>5. BetweenLines' BY <2>1, <2>4 DEF FramingInv, BetweenLines
  <2>6. HandedOn'
    BY <2>1, <2>4 DEF FramingInv, HandedOn, Stream!EndsBefore, Stream!Ends
  <2>7. BytesOK' BY <2>1, <2>3 DEF FramingInv, BytesOK
  <2> QED BY <2>1, <2>3, <2>5, <2>6, <2>7 DEF FramingInv
<1>6. CASE UNCHANGED framingVars
  <2>1. /\ side' = side /\ sent' = sent /\ got' = got /\ kept' = kept /\ buffer' = buffer
        /\ start' = start /\ lines' = lines
    BY <1>6 DEF framingVars
  <2> QED BY <2>1 DEF FramingInv, BytesOK, EndOfKept, BetweenLines, HandedOn, Consumed,
                      Stream!EndsBefore, Stream!Ends
<1> QED BY <1>1, <1>2, <1>3, <1>4, <1>5, <1>6 DEF FramingNext

(* Nothing came, and nothing was handed on.                                *)
LEMMA NothingYet ==
  ASSUME FramingInit
  PROVE  FramingInv /\ Stream!Init
<1>1. /\ got = 0 /\ start = 0 /\ kept = <<>> /\ buffer = <<>> /\ lines = <<>>
      /\ side \in {"server", "bot"}
  BY DEF FramingInit
<1>2. sent \in Seq(Bytes)
  <2>1. PICK n \in 0..MaxBytes : sent \in [1..n -> Bytes] BY DEF FramingInit
  <2>2. n \in Nat BY FramingAssumption
  <2> QED BY <2>1, <2>2
<1>3. <<>> \in Seq(Bytes) /\ <<>> \in Seq(Seq(Bytes)) /\ Len(<<>>) = 0 OBVIOUS
<1>4. BytesOK /\ EndOfKept /\ Consumed = 0
  BY <1>1, <1>2, <1>3 DEF BytesOK, EndOfKept, Consumed
<1>5. HandedOn
  <2>1. PICK s \in Seq(Bytes) : s = kept /\ Len(s) = 0 BY <1>1, <1>3
  <2>2. Stream!EndsBefore(s, Consumed + 1) = {}
    <3>1. \A e \in Stream!Ends(s) : e \in Nat /\ 1 <= e /\ e <= Len(s) BY EndsFacts
    <3>2. Stream!Ends(s) = {} BY <2>1, <3>1
    <3> QED BY <3>2 DEF Stream!EndsBefore
  <2> QED BY <1>1, <1>3, <2>1, <2>2, FS_EmptySet DEF HandedOn
<1> QED BY <1>1, <1>4, <1>5 DEF FramingInv, BetweenLines, Stream!Init

(* Server and bot hand on the lines of what came, in order and each once,  *)
(* for any stream, any bytes and pieces of any size.                       *)
THEOREM BytesBecomeLines == FramingSpec => ImplementsStream
<1>1. FramingInit => FramingInv /\ Stream!Init BY NothingYet
<1>2. FramingInv /\ [FramingNext]_framingVars => FramingInv' /\ [Stream!Next]_(Stream!vars)
  BY Streams
<1> QED BY <1>1, <1>2, PTL DEF FramingSpec, ImplementsStream, Stream!Spec

------------------------------------------------------------------------------
(* A line becomes a command and its arguments.                             *)

Letters == Chars \cup {SPACE, COLON}

(* The words that start up to a position, all of them and the arguments.   *)
Passed(k)     == {j \in Starts : j <= k}
PassedArgs(k) == {j \in Args : j <= k}

TypeOK ==
  /\ line \in Seq(Letters) /\ Len(line) <= MaxLen
  /\ phase \in {"prefix", "command", "argu", "parsed", "refused"}
  /\ idx \in Nat /\ argu \in Seq(Seq(Letters))

(* Behind the spaces that follow a word.                                   *)
Behind(q) == q \in 1..Len(line) /\ line[q] = SPACE /\ ~ Is(SPACE, q)

(* Before the command: at the beginning, or behind the prefix.             *)
AtCommand ==
  IF Is(COLON, 0) THEN Behind(idx) /\ Cardinality(Passed(idx)) = 1 ELSE idx = 0

(* Before an argument: the words passed are those taken.                   *)
AtArgument ==
  /\ Behind(idx)
  /\ Cardinality(Passed(idx)) = FirstArg - 1 + Len(argu)
  /\ Cardinality(PassedArgs(idx)) = Len(argu)
  /\ \A i \in PassedArgs(idx) : line[i] # COLON /\ argu[Nth(i) - FirstArg + 1] = WordFrom(i)

IInv ==
  /\ TypeOK /\ InRange
  /\ phase = "prefix" => idx = 0
  /\ phase \in {"prefix", "command"} => argu = <<>>
  /\ phase = "command" => AtCommand
  /\ phase = "argu" => CommandTaken /\ (idx # npos => AtArgument)
  /\ phase = "argu" /\ idx = npos => ArgumentsTaken
  /\ phase = "parsed" => CommandTaken /\ ArgumentsTaken

N == 2 ^ Width

(* The positions of a line and npos are apart.                             *)
LEMMA Sizes == N \in Nat /\ MaxLen \in Nat /\ MaxLen + 1 < N /\ npos = N - 1
<1>1. MaxLen \in Nat /\ MaxLen < 2 ^ Width - 1 /\ Width \in Nat
  BY ParserAssumption
<1>2. 2 ^ Width \in Nat
  BY <1>1
<1> QED
  BY <1>1, <1>2 DEF N, npos

(* The characters of a line.                                               *)
LEMMA LineFacts ==
  ASSUME line \in Seq(Letters), Len(line) <= MaxLen
  PROVE  /\ Len(line) \in Nat /\ DOMAIN line = 1..Len(line) /\ Len(line) < npos /\ npos \in Nat
         /\ \A i \in 1..Len(line) : line[i] \in Letters
  BY Sizes

(* find: the first place of the character, or none.                        *)
LEMMA FindFacts ==
  ASSUME line \in Seq(Letters), Len(line) <= MaxLen, NEW c, NEW p \in 0..Len(line)
  PROVE  \/ Find(c, p) = npos /\ \A k \in (p + 1)..Len(line) : line[k] # c
         \/ /\ Find(c, p) \in p..(Len(line) - 1) /\ line[Find(c, p) + 1] = c
            /\ \A k \in (p + 1)..Find(c, p) : line[k] # c
<1> DEFINE at == {i \in p..(Len(line) - 1) : line[i + 1] = c}
<1>0. Len(line) \in Nat
  BY LineFacts
<1>1. CASE at = {}
  <2>1. Find(c, p) = npos
    BY <1>1 DEF Find
  <2>2. ASSUME NEW k \in (p + 1)..Len(line) PROVE line[k] # c
    <3>1. k - 1 \in p..(Len(line) - 1) /\ (k - 1) + 1 = k
      BY <1>0
    <3> QED
      BY <1>1, <3>1
  <2> QED
    BY <2>1, <2>2
<1>2. CASE at # {}
  <2>1. PICK m \in at : \A j \in at : m <= j
    <3>1. at \subseteq Nat
      BY <1>0
    <3> HIDE DEF at
    <3> QED
      BY <1>2, <3>1, Smallest
  <2> DEFINE f == CHOOSE i \in at : \A j \in at : i <= j
  <2>2. f \in at /\ \A j \in at : f <= j
    BY <2>1
  <2>3. Find(c, p) = f
    BY <1>2 DEF Find
  <2> HIDE DEF f
  <2>4. f \in p..(Len(line) - 1) /\ line[f + 1] = c
    BY <2>2
  <2>5. ASSUME NEW k \in (p + 1)..f, line[k] = c PROVE FALSE
    <3>1. k - 1 \in p..(Len(line) - 1) /\ (k - 1) + 1 = k /\ ~ (f <= k - 1)
      BY <1>0, <2>4
    <3>2. k - 1 \in at
      BY <2>5, <3>1
    <3> HIDE DEF at
    <3> QED
      BY <2>2, <3>1, <3>2
  <2> QED
    BY <2>3, <2>4, <2>5
<1> QED
  BY <1>1, <1>2

(* The loop over spaces.                                                   *)
LEMMA SkippedFacts ==
  ASSUME line \in Seq(Letters), Len(line) <= MaxLen, NEW p \in 0..Len(line)
  PROVE  /\ Skipped(p) \in p..Len(line) /\ ~ Is(SPACE, Skipped(p))
         /\ \A k \in (p + 1)..Skipped(p) : line[k] = SPACE
         /\ Is(SPACE, p) => Skipped(p) > p
<1>0. Len(line) \in Nat
  BY LineFacts
<1>1. CASE ~ Is(SPACE, p)
  BY <1>0, <1>1 DEF Skipped
<1>2. CASE Is(SPACE, p)
  <2> DEFINE out == {j \in p..Len(line) : ~ Is(SPACE, j)}
             good(j) == (\A k \in p..(j - 1) : Is(SPACE, k)) /\ ~ Is(SPACE, j)
             s == CHOOSE j \in p..Len(line) : good(j)
  <2>1. out # {} /\ out \subseteq Nat
    <3>1. Len(line) \in out
      BY <1>0 DEF Is
    <3> QED
      BY <1>0, <3>1
  <2>2. PICK m \in out : \A j \in out : m <= j
    <3> HIDE DEF out
    <3> QED
      BY <2>1, Smallest
  <2>3. good(m)
    BY <1>0, <2>2
  <2>4. s \in p..Len(line) /\ good(s)
    BY <2>2, <2>3
  <2>5. Skipped(p) = s
    BY <1>2 DEF Skipped
  <2> HIDE DEF s
  <2>6. ASSUME NEW k \in (p + 1)..s PROVE line[k] = SPACE
    <3>1. k - 1 \in p..(s - 1) /\ (k - 1) + 1 = k
      BY <2>4
    <3> QED
      BY <2>4, <3>1 DEF Is
  <2>7. s > p
    BY <1>2, <2>4
  <2> QED
    BY <2>4, <2>5, <2>6, <2>7
<1> QED
  BY <1>1, <1>2

(* The length of a word wraps around, and so does the sum that follows.    *)
LEMMA Lengths ==
  ASSUME line \in Seq(Letters), Len(line) <= MaxLen, NEW p \in 0..Len(line),
         NEW f \in Nat, f = npos \/ f \in p..(Len(line) - 1)
  PROVE  /\ Size(f + 2 ^ Width - p) = f - p
         /\ Size(p + (f - p)) = f
<1>1. N \in Nat /\ p \in Nat /\ p <= f /\ f < N
  BY Sizes, LineFacts
<1>2. (f + N - p) % N = f - p /\ (p + (f - p)) % N = f
  <2> HIDE DEF N
  <2>1. f - p \in 0..(N - 1) /\ f + N - p = N + (f - p)
    BY <1>1
  <2> QED
    BY <1>1, <2>1
<1> QED
  BY <1>2 DEF Size, N

(* Where the walk goes from a word: on behind the spaces that follow it,   *)
(* or to npos when there are none.                                         *)
StartsIn(p, q) == {j \in Starts : p < j /\ j <= q}

Start(p) == p + 1 \in Starts

Goes(p, q) == Behind(q) /\ p < q /\ StartsIn(p, q) = {p + 1}
Ends(p)    == line[Len(line)] # SPACE /\ StartsIn(p, Len(line)) = {p + 1}

(* The word at a position, and the spaces behind it: the walk goes on to   *)
(* the next word or to the end, or there is no space and it ends.          *)
LEMMA WordAt ==
  ASSUME line \in Seq(Letters), Len(line) <= MaxLen, NEW p \in Nat, Start(p),
         NEW wl, wl = Size(Find(SPACE, p) + 2 ^ Width - p)
  PROVE  /\ Substr(p, wl) = WordFrom(p + 1)
         /\ \/ Past(Size(p + wl)) = npos /\ Ends(p)
            \/ Past(Size(p + wl)) # npos /\ Goes(p, Past(Size(p + wl)))
<1> DEFINE f == Find(SPACE, p)
           e == IF f = npos THEN Len(line) ELSE f
<1>0. /\ Len(line) \in Nat /\ Len(line) < npos /\ npos \in Nat
      /\ p < Len(line) /\ p \in 0..Len(line) /\ line[p + 1] # SPACE
  BY LineFacts DEF Start, Starts
<1>1. \/ f = npos /\ \A k \in (p + 1)..Len(line) : line[k] # SPACE
      \/ /\ f \in p..(Len(line) - 1) /\ line[f + 1] = SPACE
         /\ \A k \in (p + 1)..f : line[k] # SPACE
  BY <1>0, FindFacts
<1> HIDE DEF f
<1>2. f \in Nat /\ (f = npos \/ f \in p..(Len(line) - 1)) /\ (f # npos => f # p)
  BY <1>0, <1>1
<1>3. wl = f - p /\ Size(p + wl) = f
  <2>1. wl = Size(f + 2 ^ Width - p)
    BY DEF f
  <2>2. Size(f + 2 ^ Width - p) = f - p /\ Size(p + (f - p)) = f
    BY <1>0, <1>2, Lengths
  <2> QED
    BY <2>1, <2>2
<1>4. e \in (p + 1)..Len(line) /\ EndsAt(p + 1, e)
  BY <1>0, <1>1, <1>2 DEF EndsAt
<1>5. WordFrom(p + 1) = SubSeq(line, p + 1, e)
  <2>1. ASSUME NEW d \in (p + 1)..Len(line), EndsAt(p + 1, d) PROVE d = e
    <3>1. d < e => line[d + 1] # SPACE /\ d # Len(line)
      BY <1>0, <1>4 DEF EndsAt
    <3>2. e < d => line[e + 1] # SPACE /\ e # Len(line)
      BY <1>0, <1>4, <2>1 DEF EndsAt
    <3> HIDE DEF e
    <3> QED
      BY <1>4, <2>1, <3>1, <3>2 DEF EndsAt
  <2> HIDE DEF e
  <2> QED
    BY <1>4, <2>1 DEF WordFrom
<1>6. Substr(p, wl) = SubSeq(line, p + 1, e)
  <2>1. p + (IF wl > Len(line) - p THEN Len(line) - p ELSE wl) = e
    BY <1>0, <1>2, <1>3
  <2> HIDE DEF e
  <2> QED
    BY <2>1 DEF Substr
<1>7. CASE f = npos
  <2>1. Past(Size(p + wl)) = npos
    BY <1>3, <1>7 DEF Past
  <2>2. \A k \in (p + 1)..Len(line) : line[k] # SPACE
    BY <1>0, <1>1, <1>7
  <2>3. ASSUME NEW j \in Starts, p < j, j <= Len(line) PROVE j = p + 1
    <3>1. j # p + 1 => j - 1 \in (p + 1)..Len(line) /\ j # 1
      BY <1>0, <2>3 DEF Starts
    <3> QED
      BY <2>2, <2>3, <3>1 DEF Starts
  <2>4. StartsIn(p, Len(line)) = {p + 1}
    BY <1>0, <2>3 DEF StartsIn, Start
  <2>5. line[Len(line)] # SPACE
    BY <1>0, <2>2
  <2> QED
    BY <1>5, <1>6, <2>1, <2>4, <2>5 DEF Ends
<1>8. CASE f # npos
  <2> DEFINE q == Skipped(f)
  <2>0. f \in (p + 1)..(Len(line) - 1) /\ f \in 0..Len(line) /\ line[f + 1] = SPACE
        /\ \A k \in (p + 1)..f : line[k] # SPACE
    BY <1>0, <1>1, <1>2, <1>8
  <2>1. Past(Size(p + wl)) = q
    BY <1>3, <1>8 DEF Past
  <2>2. Is(SPACE, f)
    BY <2>0 DEF Is
  <2>3. /\ q \in f..Len(line) /\ ~ Is(SPACE, q) /\ q > f
        /\ \A k \in (f + 1)..q : line[k] = SPACE
    BY <2>0, <2>2, SkippedFacts
  <2> HIDE DEF q
  <2>4. Behind(q) /\ p < q /\ q # npos
    BY <1>0, <2>0, <2>3 DEF Behind
  <2>5. ASSUME NEW j \in Starts, p < j, j <= q PROVE j = p + 1
    <3>1. j \in Nat /\ line[j] # SPACE /\ (j = 1 \/ line[j - 1] = SPACE)
      BY DEF Starts
    <3>2. j <= f
      BY <2>0, <2>3, <2>5, <3>1
    <3>3. j # p + 1 => j - 1 \in (p + 1)..f /\ j # 1
      BY <1>0, <2>0, <2>5, <3>1, <3>2
    <3> QED
      BY <2>0, <3>1, <3>3
  <2>6. StartsIn(p, q) = {p + 1}
    BY <2>4, <2>5 DEF StartsIn, Start, Behind
  <2> QED
    BY <1>5, <1>6, <2>1, <2>4, <2>6 DEF Goes
<1> QED
  BY <1>7, <1>8

------------------------------------------------------------------------------

(* The sets of starting positions can be counted.                          *)
LEMMA Countable ==
  ASSUME line \in Seq(Letters), Len(line) <= MaxLen
  PROVE  /\ IsFiniteSet(Plain) /\ Starts \subseteq Nat
         /\ \A k : IsFiniteSet(Passed(k)) /\ IsFiniteSet(PassedArgs(k))
<1>0. Len(line) \in Nat
  BY LineFacts
<1>1. IsFiniteSet(1..Len(line))
  BY <1>0, FS_Interval
<1>2. Starts \subseteq 1..Len(line) /\ Plain \subseteq Starts
  BY DEF Starts, Plain, Args
<1>3. \A k : Passed(k) \subseteq Starts /\ PassedArgs(k) \subseteq Starts
  BY DEF Passed, PassedArgs, Args
<1>4. IsFiniteSet(Starts)
  BY <1>1, <1>2, FS_Subset
<1>5. IsFiniteSet(Plain) /\ \A k : IsFiniteSet(Passed(k)) /\ IsFiniteSet(PassedArgs(k))
  <2>1. \A T \in SUBSET Starts : IsFiniteSet(T)
    BY <1>4, FS_Subset
  <2> QED
    BY <1>2, <1>3, <2>1
<1> QED
  BY <1>0, <1>2, <1>5

(* A word passed is one more start.                                        *)
LEMMA Between ==
  ASSUME line \in Seq(Letters), Len(line) <= MaxLen, NEW p \in Nat, NEW q \in Nat,
         p < q, StartsIn(p, q) = {p + 1}
  PROVE  /\ p + 1 \in Starts /\ ~ (p + 1 <= p)
         /\ \A j \in Starts : /\ j <= q <=> (j <= p \/ j = p + 1)
                              /\ j <= p + 1 <=> (j <= p \/ j = p + 1)
<1>0. \A j \in Starts : j \in Nat
  BY Countable
<1>1. \A j \in Starts : p < j /\ j <= q <=> j = p + 1
  BY DEF StartsIn
<1>2. p + 1 \in Starts
  BY DEF StartsIn
<1>3. ASSUME NEW j \in Starts
      PROVE  (j <= q <=> j <= p \/ j = p + 1) /\ (j <= p + 1 <=> j <= p \/ j = p + 1)
  BY <1>0, <1>1
<1> QED
  BY <1>2, <1>3

(* One word is passed.                                                     *)
LEMMA PassOne ==
  ASSUME line \in Seq(Letters), Len(line) <= MaxLen, NEW p \in Nat, NEW q \in Nat,
         p < q, StartsIn(p, q) = {p + 1}
  PROVE  /\ Cardinality(Passed(p)) \in Nat
         /\ Cardinality(Passed(q)) = Cardinality(Passed(p)) + 1
         /\ Nth(p + 1) = Cardinality(Passed(p)) + 1
         /\ \A i \in Starts : i <= p => Nth(i) \in Nat /\ Nth(i) <= Cardinality(Passed(p))
         /\ Passed(q) = Passed(p) \cup {p + 1} /\ p + 1 \notin Passed(p)
<1>0. Starts \subseteq Nat /\ \A k : IsFiniteSet(Passed(k))
  BY Countable
<1> DEFINE n == p + 1
<1>a. /\ n \in Starts /\ ~ (n <= p)
      /\ \A j \in Starts : /\ j <= q <=> (j <= p \/ j = n)
                           /\ j <= n <=> (j <= p \/ j = n)
  BY Between
<1> HIDE DEF n
<1>1. Passed(q) = Passed(p) \cup {n} /\ n \notin Passed(p)
  BY <1>a DEF Passed
<1>2. Passed(n) = Passed(p) \cup {n}
  BY <1>a DEF Passed
<1>3. Cardinality(Passed(p) \cup {n}) = Cardinality(Passed(p)) + 1
  BY <1>0, <1>1, FS_AddElement
<1>4. \A i : Nth(i) = Cardinality(Passed(i))
  BY DEF Nth, Passed
<1>5. ASSUME NEW i \in Starts, i <= p
      PROVE  Cardinality(Passed(i)) \in Nat /\ Cardinality(Passed(i)) <= Cardinality(Passed(p))
  <2>1. Passed(i) \subseteq Passed(p)
    <3>1. i \in Nat /\ \A j \in Starts : j \in Nat
      BY <1>0
    <3>2. \A j \in Starts : j <= i => j <= p
      BY <1>5, <3>1
    <3> QED
      BY <3>2 DEF Passed
  <2> QED
    BY <1>0, <2>1, FS_Subset, FS_CardinalityType
<1>6. Cardinality(Passed(p)) \in Nat
  BY <1>0, FS_CardinalityType
<1> QED
  BY <1>1, <1>2, <1>3, <1>4, <1>5, <1>6 DEF n

(* The arguments passed, when the word is one.                             *)
LEMMA PassArg ==
  ASSUME line \in Seq(Letters), Len(line) <= MaxLen, NEW p \in Nat, NEW q \in Nat,
         p < q, StartsIn(p, q) = {p + 1}, Nth(p + 1) >= FirstArg
  PROVE  /\ PassedArgs(q) = PassedArgs(p) \cup {p + 1} /\ p + 1 \notin PassedArgs(p)
         /\ Cardinality(PassedArgs(q)) = Cardinality(PassedArgs(p)) + 1
<1>0. Starts \subseteq Nat /\ \A k : IsFiniteSet(PassedArgs(k))
  BY Countable
<1> DEFINE n == p + 1
<1>a. /\ n \in Starts /\ ~ (n <= p)
      /\ \A j \in Starts : /\ j <= q <=> (j <= p \/ j = n)
                           /\ j <= n <=> (j <= p \/ j = n)
  BY Between
<1> HIDE DEF n
<1>1. n \in Args
  BY <1>a DEF Args, n
<1>2. PassedArgs(q) = PassedArgs(p) \cup {n} /\ n \notin PassedArgs(p)
  BY <1>a, <1>1 DEF PassedArgs, Args
<1>3. Cardinality(PassedArgs(p) \cup {n}) = Cardinality(PassedArgs(p)) + 1
  BY <1>0, <1>2, FS_AddElement
<1> QED
  BY <1>2, <1>3 DEF n

(* All words start up to the end of the line.                              *)
LEMMA AllPassed ==
  ASSUME line \in Seq(Letters), Len(line) <= MaxLen
  PROVE  Starts = Passed(Len(line)) /\ Args = PassedArgs(Len(line))
  BY DEF Starts, Args, Passed, PassedArgs

(* A line that is left alone keeps its words.                              *)
LEMMA SameLine ==
  ASSUME line' = line
  PROVE  /\ Starts' = Starts /\ Args' = Args /\ Plain' = Plain /\ FirstArg' = FirstArg
         /\ \A i : WordFrom(i)' = WordFrom(i) /\ Nth(i)' = Nth(i)
         /\ \A i : Passed(i)' = Passed(i) /\ PassedArgs(i)' = PassedArgs(i)
         /\ \A i : Behind(i)' = Behind(i)
<1>1. Starts' = Starts
  BY DEF Starts
<1>2. \A i : Nth(i)' = Nth(i)
  BY <1>1 DEF Nth
<1>3. FirstArg' = FirstArg
  BY DEF FirstArg
<1>4. Args' = Args
  BY <1>1, <1>2, <1>3 DEF Args
<1>5. Plain' = Plain
  BY <1>4 DEF Plain
<1>6. \A i : WordFrom(i)' = WordFrom(i)
  BY DEF WordFrom, EndsAt
<1>7. \A i : Passed(i)' = Passed(i) /\ PassedArgs(i)' = PassedArgs(i)
  BY <1>1, <1>4 DEF Passed, PassedArgs
<1>8. \A i : Behind(i)' = Behind(i)
  BY DEF Behind, Is
<1> QED
  BY <1>1, <1>2, <1>3, <1>4, <1>5, <1>6, <1>7, <1>8

------------------------------------------------------------------------------

(* The parts of the invariant after a step that leaves the line alone.     *)
LEMMA Later ==
  ASSUME line' = line, NEW q, idx' = q
  PROVE  /\ Passed(idx)' = Passed(q) /\ PassedArgs(idx)' = PassedArgs(q)
         /\ Behind(idx)' <=> Behind(q)
<1>1. Starts' = Starts /\ Args' = Args
  BY SameLine
<1> QED
  BY <1>1 DEF Passed, PassedArgs, Behind, Is

(* Where there is no word, substr takes none.                              *)
LEMMA NoWord ==
  ASSUME line \in Seq(Letters), Len(line) <= MaxLen, NEW p \in 0..Len(line),
         p = Len(line) \/ line[p + 1] = SPACE,
         NEW wl, wl = Size(Find(SPACE, p) + 2 ^ Width - p)
  PROVE  /\ Substr(p, wl) = <<>>
         /\ Past(Size(p + wl)) \in 0..Len(line) \cup {npos}
         /\ p = Len(line) => Past(Size(p + wl)) = npos
<1> DEFINE f == Find(SPACE, p)
<1>0. Len(line) \in Nat /\ Len(line) < npos /\ npos \in Nat /\ p \in Nat
  <2>1. Len(line) \in Nat /\ Len(line) < npos /\ npos \in Nat
    BY LineFacts
  <2> QED
    BY <2>1
<1>1. f = IF p = Len(line) THEN npos ELSE p
  <2>1. \/ f = npos /\ \A k \in (p + 1)..Len(line) : line[k] # SPACE
        \/ /\ f \in p..(Len(line) - 1) /\ line[f + 1] = SPACE
           /\ \A k \in (p + 1)..f : line[k] # SPACE
    BY FindFacts
  <2> HIDE DEF f
  <2> QED
    BY <1>0, <2>1
<1> HIDE DEF f
<1>2. wl = f - p /\ Size(p + wl) = f
  <2>1. f \in Nat /\ (f = npos \/ f \in p..(Len(line) - 1))
    BY <1>0, <1>1
  <2>2. wl = Size(f + 2 ^ Width - p)
    BY DEF f
  <2>3. Size(f + 2 ^ Width - p) = f - p /\ Size(p + (f - p)) = f
    BY <2>1, Lengths
  <2> QED
    BY <2>2, <2>3
<1>3. Substr(p, wl) = SubSeq(line, p + 1, p)
  <2>1. p + (IF wl > Len(line) - p THEN Len(line) - p ELSE wl) = p
    BY <1>0, <1>1, <1>2
  <2> QED
    BY <2>1 DEF Substr
<1>4. Past(f) = IF p = Len(line) THEN npos ELSE Skipped(p)
  BY <1>0, <1>1 DEF Past
<1>5. Skipped(p) \in 0..Len(line)
  BY <1>0, SkippedFacts
<1> QED
  BY <1>0, <1>2, <1>3, <1>4, <1>5

(* What a line starts with.                                                *)
LEMMA AtBeginning ==
  ASSUME line \in Seq(Letters), Len(line) <= MaxLen
  PROVE  /\ Passed(0) = {} /\ Cardinality(Passed(0)) = 0
         /\ Len(line) # 0 /\ line[1] # SPACE => Start(0)
         /\ Is(COLON, 0) => Start(0)
         /\ Len(line) # 0 => FirstArg = IF Is(COLON, 0) THEN 3 ELSE 2
<1>0. Len(line) \in Nat /\ Starts \subseteq 1..Len(line)
  BY LineFacts DEF Starts
<1>1. Passed(0) = {}
  <2>1. \A j \in Starts : ~ (j <= 0)
    BY <1>0
  <2> QED
    BY <2>1 DEF Passed
<1>2. Len(line) # 0 /\ line[1] # SPACE => Start(0)
  BY <1>0 DEF Start, Starts
<1>4. Len(line) # 0 => (Is(COLON, 0) <=> line[1] = COLON)
  BY <1>0 DEF Is
<1>3. Is(COLON, 0) => Len(line) # 0 /\ line[1] # SPACE
  <2>1. COLON # SPACE
    BY DEF SPACE, COLON
  <2>2. Is(COLON, 0) => Len(line) # 0
    BY <1>0 DEF Is
  <2> QED
    BY <1>4, <2>1, <2>2
<1> QED
  BY <1>1, <1>2, <1>3, <1>4, FS_EmptySet DEF FirstArg

(* _prefix_setting.                                                        *)
LEMMA PrefixStep ==
  ASSUME IInv, Prefix
  PROVE  IInv'
<1>0. /\ line' = line /\ argu' = argu /\ line \in Seq(Letters) /\ Len(line) <= MaxLen
      /\ Is(COLON, 0) /\ argu = <<>> /\ argu \in Seq(Seq(Letters))
  BY DEF Prefix, IInv, TypeOK
<1>1. /\ Len(line) \in Nat /\ Len(line) < npos /\ npos \in Nat
  BY <1>0, LineFacts
<1> DEFINE f == Find(SPACE, 0)
<1>2. Start(0)
  BY <1>0, AtBeginning
<1>3. f \in Nat /\ (f = npos \/ f \in 0..(Len(line) - 1))
  BY <1>0, <1>1, FindFacts
<1>4. CASE f \in {npos, 1}
  <2>1. phase' = "refused" /\ idx' = f
    BY <1>4 DEF Prefix
  <2> HIDE DEF f
  <2>2. TypeOK' /\ InRange'
    BY <1>0, <1>1, <1>3, <2>1 DEF TypeOK, InRange
  <2> QED
    BY <2>1, <2>2 DEF IInv
<1>5. CASE f \notin {npos, 1}
  <2> DEFINE q == Skipped(f)
  <2>1. phase' = "command" /\ idx' = q
    BY <1>5 DEF Prefix
  <2>2. Size(f + 2 ^ Width - 0) = f - 0 /\ Size(0 + (f - 0)) = f
    <3> HIDE DEF f
    <3> QED
      BY <1>0, <1>1, <1>3, Lengths
  <2>3. Past(Size(0 + Size(f + 2 ^ Width - 0))) = q
    BY <1>5, <2>2 DEF Past
  <2>4. q \in 0..Len(line)
    <3> HIDE DEF f
    <3> QED
      BY <1>0, <1>1, <1>3, <1>5, SkippedFacts
  <2>5. Goes(0, q)
    BY <1>0, <1>1, <1>2, <2>3, <2>4, WordAt
  <2> HIDE DEF q, f
  <2>6. Behind(q) /\ Cardinality(Passed(q)) = 1
    BY <1>0, <2>4, <2>5, PassOne, AtBeginning DEF Goes
  <2>7. Behind(idx)' /\ Cardinality(Passed(idx))' = 1
    BY <1>0, <2>1, <2>6, Later
  <2>8. AtCommand'
    BY <1>0, <2>7 DEF AtCommand, Is
  <2>9. TypeOK' /\ InRange'
    BY <1>0, <1>1, <2>1, <2>4 DEF TypeOK, InRange
  <2> QED
    BY <1>0, <2>1, <2>8, <2>9 DEF IInv
<1> QED
  BY <1>4, <1>5

(* Substrings of the line, and what is taken up to one.                    *)
LEMMA SubstrType ==
  ASSUME line \in Seq(Letters), Len(line) <= MaxLen, NEW p \in 0..Len(line), NEW n \in Nat
  PROVE  Substr(p, n) \in Seq(Letters)
<1>0. Len(line) \in Nat
  BY LineFacts
<1> DEFINE e == p + (IF n > Len(line) - p THEN Len(line) - p ELSE n)
<1>1. e \in 0..Len(line) /\ p + 1 \in 1..(Len(line) + 1)
  BY <1>0
<1>2. Substr(p, n) = SubSeq(line, p + 1, e)
  BY DEF Substr
<1> HIDE DEF e
<1> DEFINE b == p + 1
<1>3. b \in 1..(Len(line) + 1)
  BY <1>1
<1> HIDE DEF b
<1>4. SubSeq(line, b, e) \in Seq(Letters)
  BY <1>0, <1>1, <1>3
<1> QED
  BY <1>2, <1>4 DEF b

(* _cmd_setting.                                                           *)
LEMMA CommandStep ==
  ASSUME IInv, Command
  PROVE  IInv'
<1> DEFINE p == idx
           wl == WordLen
           q == Past(Size(idx + WordLen))
<1>0. /\ line' = line /\ argu' = argu /\ line \in Seq(Letters) /\ Len(line) <= MaxLen
      /\ argu = <<>> /\ AtCommand /\ idx \in Nat /\ idx <= Len(line)
      /\ command' = Substr(p, wl) /\ idx' = q
      /\ phase' = IF command' \in Commands THEN "argu" ELSE "refused"
  BY DEF Command, IInv, TypeOK, InRange
<1>1. Len(line) \in Nat /\ Len(line) < npos /\ npos \in Nat /\ p \in 0..Len(line)
  <2>1. Len(line) \in Nat /\ Len(line) < npos /\ npos \in Nat
    BY <1>0, LineFacts
  <2> QED
    BY <1>0, <2>1
<1>2. wl = Size(Find(SPACE, p) + 2 ^ Width - p) /\ q = Past(Size(p + wl))
  BY DEF WordLen
<1> HIDE DEF p, wl, q
<1>3. CASE ~ Start(p)
  <2>1. p = Len(line) \/ line[p + 1] = SPACE
    <3>1. p < Len(line) /\ line[p + 1] # SPACE => p = 0 \/ line[p] = SPACE
      BY <1>0, <1>1 DEF AtCommand, Behind, p
    <3>2. p < Len(line) /\ line[p + 1] # SPACE => p + 1 \in Starts
      BY <1>1, <3>1 DEF Starts
    <3> QED
      BY <1>1, <1>3, <3>2 DEF Start
  <2>2. command' = <<>> /\ q \in 0..Len(line) \cup {npos}
    BY <1>0, <1>1, <1>2, <2>1, NoWord
  <2>3. phase' = "refused"
    BY <1>0, <2>2, ParserAssumption
  <2>4. TypeOK' /\ InRange'
    BY <1>0, <1>1, <2>2, <2>3 DEF TypeOK, InRange
  <2> QED
    BY <2>3, <2>4 DEF IInv
<1>4. CASE Start(p)
  <2>1. /\ Substr(p, wl) = WordFrom(p + 1) /\ p \in Nat
        /\ (q = npos /\ Ends(p)) \/ (q # npos /\ Goes(p, q))
    BY <1>0, <1>1, <1>2, <1>4, WordAt
  <2>2. PICK r \in Nat : /\ p < r /\ StartsIn(p, r) = {p + 1} /\ r <= Len(line)
                         /\ r = IF q = npos THEN Len(line) ELSE q
    <3>1. q # npos => q \in Nat /\ q <= Len(line)
      BY <1>1, <2>1 DEF Goes, Behind
    <3>2. p + 1 \in 1..Len(line)
      BY <1>4 DEF Start, Starts
    <3> QED
      BY <1>1, <2>1, <3>1, <3>2 DEF Goes, Ends
  <2>3. Cardinality(Passed(p)) = FirstArg - 2 /\ FirstArg \in Nat
    <3>1. Len(line) # 0
      BY <1>1, <2>2
    <3> QED
      BY <1>0, <3>1, AtBeginning DEF AtCommand, p
  <2>4. /\ Cardinality(Passed(r)) = FirstArg - 1 /\ Nth(p + 1) = FirstArg - 1
        /\ Passed(r) = Passed(p) \cup {p + 1}
        /\ \A i \in Starts : i <= p => Nth(i) \in Nat /\ Nth(i) <= FirstArg - 2
    <3>1. /\ Cardinality(Passed(r)) = Cardinality(Passed(p)) + 1
          /\ Nth(p + 1) = Cardinality(Passed(p)) + 1
          /\ \A i \in Starts : i <= p => Nth(i) \in Nat /\ Nth(i) <= Cardinality(Passed(p))
          /\ Passed(r) = Passed(p) \cup {p + 1}
      BY <1>0, <2>1, <2>2, PassOne
    <3> QED
      BY <2>3, <3>1
  <2>5. PassedArgs(r) = {}
    <3>1. \A i \in PassedArgs(r) : i \in Passed(r) /\ i \in Starts /\ Nth(i) >= FirstArg
      BY DEF PassedArgs, Passed, Args
    <3>2. \A i \in Passed(p) : i \in Starts /\ i <= p
      BY DEF Passed
    <3>3. ASSUME NEW i \in Passed(r) PROVE ~ (Nth(i) >= FirstArg)
      <4>1. i \in Passed(p) \/ i = p + 1
        BY <2>4
      <4>2. i \in Passed(p) => Nth(i) \in Nat /\ Nth(i) <= FirstArg - 2
        BY <2>4, <3>2
      <4> QED
        BY <2>3, <2>4, <4>1, <4>2
    <3> QED
      BY <2>3, <3>1, <3>3
  <2>6. Cardinality(PassedArgs(r)) = 0
    BY <2>5, FS_EmptySet
  <2>7. CommandTaken'
    <3>1. p + 1 \in Starts /\ Nth(p + 1) = FirstArg - 1 /\ command' = WordFrom(p + 1)
      BY <1>0, <1>4, <2>1, <2>4 DEF Start
    <3> QED
      BY <1>0, <3>1, SameLine DEF CommandTaken
  <2>8. CASE q # npos
    <3>1. r = q /\ Behind(q)
      BY <2>1, <2>2, <2>8 DEF Goes
    <3>2. /\ Behind(idx)' /\ Passed(idx)' = Passed(r) /\ PassedArgs(idx)' = PassedArgs(r)
          /\ FirstArg' = FirstArg
      BY <1>0, <3>1, Later, SameLine
    <3>3. Len(argu') = 0
      BY <1>0
    <3>4. AtArgument'
      BY <2>3, <2>4, <2>5, <2>6, <3>2, <3>3 DEF AtArgument
    <3>5. TypeOK' /\ InRange'
      BY <1>0, <1>1, <2>2, <3>1 DEF TypeOK, InRange
    <3> QED
      BY <1>0, <2>7, <2>8, <3>4, <3>5 DEF IInv
  <2>9. CASE q = npos
    <3>1. r = Len(line) /\ line[Len(line)] # SPACE
      BY <2>1, <2>2, <2>9 DEF Ends
    <3>2. Args = {}
      BY <1>0, <2>5, <3>1, AllPassed
    <3>3. Plain = {} /\ Cardinality(Plain) = 0
      BY <3>2, FS_EmptySet DEF Plain
    <3>4. ArgumentsTaken'
      BY <1>0, <3>1, <3>2, <3>3, SameLine DEF ArgumentsTaken
    <3>5. TypeOK' /\ InRange'
      BY <1>0, <1>1, <2>9 DEF TypeOK, InRange
    <3> QED
      BY <1>0, <2>7, <2>9, <3>4, <3>5 DEF IInv
  <2> QED
    BY <2>8, <2>9
<1> QED
  BY <1>3, <1>4

(* Before an argument: which word it is, and where those before it went.   *)
LEMMA AtWord ==
  ASSUME TypeOK, AtArgument, NEW p, p = idx
  PROVE  /\ p \in 1..Len(line) /\ p \in Nat /\ Len(line) \in Nat
         /\ Len(line) < npos /\ npos \in Nat /\ line[p] = SPACE
         /\ p = Len(line) \/ Start(p)
         /\ FirstArg \in {2, 3} /\ Len(argu) \in Nat
         /\ \A i \in PassedArgs(p) : /\ Nth(i) - FirstArg + 1 \in 1..Len(argu)
                                     /\ argu[Nth(i) - FirstArg + 1] = WordFrom(i)
                                     /\ line[i] # COLON
<1>0. /\ Len(line) \in Nat /\ Len(line) < npos /\ npos \in Nat
      /\ \A i \in Starts : i \in Nat
  BY LineFacts, Countable DEF TypeOK
<1>1. /\ p \in 1..Len(line) /\ line[p] = SPACE /\ ~ Is(SPACE, p)
      /\ Cardinality(Passed(p)) = FirstArg - 1 + Len(argu)
  BY DEF AtArgument, Behind
<1>2. FirstArg \in {2, 3} /\ Len(argu) \in Nat
  BY DEF FirstArg, TypeOK
<1>3. p < Len(line) => Start(p)
  <2>1. p < Len(line) => p + 1 \in 1..Len(line) /\ (p + 1) - 1 = p /\ line[p + 1] # SPACE
    BY <1>0, <1>1 DEF Is
  <2> QED
    BY <1>1, <2>1 DEF Start, Starts
<1>4. \A k : IsFiniteSet(Passed(k))
  BY Countable DEF TypeOK
<1>5. ASSUME NEW i \in PassedArgs(p)
      PROVE  /\ Nth(i) - FirstArg + 1 \in 1..Len(argu)
             /\ argu[Nth(i) - FirstArg + 1] = WordFrom(i)
             /\ line[i] # COLON
  <2>1. i \in Starts /\ i <= p /\ Nth(i) >= FirstArg
    BY DEF PassedArgs, Args
  <2>2. Passed(i) \subseteq Passed(p)
    <3>1. \A j \in Starts : j <= i => j <= p
      BY <1>0, <1>1, <2>1
    <3> QED
      BY <3>1 DEF Passed
  <2>3. Cardinality(Passed(i)) \in Nat /\ Cardinality(Passed(i)) <= Cardinality(Passed(p))
    BY <1>4, <2>2, FS_Subset, FS_CardinalityType
  <2>4. Nth(i) = Cardinality(Passed(i))
    BY DEF Nth, Passed
  <2>5. Nth(i) - FirstArg + 1 \in 1..Len(argu)
    BY <1>1, <1>2, <2>1, <2>3, <2>4
  <2> QED
    BY <2>5 DEF AtArgument
<1> QED
  BY <1>0, <1>1, <1>2, <1>3, <1>5

(* One argument more.                                                      *)
LEMMA NextArg ==
  ASSUME TypeOK, AtArgument, NEW p, p = idx, NEW r \in Nat, p < r, StartsIn(p, r) = {p + 1}
  PROVE  /\ Nth(p + 1) = FirstArg + Len(argu) /\ p + 1 \in Args
         /\ Cardinality(Passed(r)) = FirstArg + Len(argu)
         /\ Cardinality(PassedArgs(r)) = Len(argu) + 1
         /\ PassedArgs(r) = PassedArgs(p) \cup {p + 1}
<1>1. p \in Nat /\ FirstArg \in Nat /\ Len(argu) \in Nat /\ line \in Seq(Letters) /\ Len(line) <= MaxLen
  BY AtWord DEF TypeOK
<1>2. Cardinality(Passed(p)) = FirstArg - 1 + Len(argu) /\ Cardinality(PassedArgs(p)) = Len(argu)
  BY DEF AtArgument
<1>3. /\ Cardinality(Passed(r)) = Cardinality(Passed(p)) + 1
      /\ Nth(p + 1) = Cardinality(Passed(p)) + 1
  BY <1>1, PassOne
<1>4. Nth(p + 1) = FirstArg + Len(argu) /\ Cardinality(Passed(r)) = FirstArg + Len(argu)
  BY <1>1, <1>2, <1>3
<1>5. Nth(p + 1) >= FirstArg
  BY <1>1, <1>4
<1>6. PassedArgs(r) = PassedArgs(p) \cup {p + 1}
      /\ Cardinality(PassedArgs(r)) = Cardinality(PassedArgs(p)) + 1
  BY <1>1, <1>5, PassArg
<1>7. p + 1 \in Args
  BY <1>6 DEF PassedArgs
<1> QED
  BY <1>2, <1>4, <1>6, <1>7

(* What an appended argument leaves of the others.                         *)
LEMMA Appended ==
  ASSUME TypeOK, NEW w \in Seq(Letters), argu' = Append(argu, w)
  PROVE  /\ argu' \in Seq(Seq(Letters)) /\ Len(argu) \in Nat /\ Len(argu') = Len(argu) + 1
         /\ argu'[Len(argu) + 1] = w
         /\ \A i \in 1..Len(argu) : argu'[i] = argu[i]
  BY DEF TypeOK

(* _argu_setting, at a word that no colon starts, or at the end.           *)
LEMMA MiddleStep ==
  ASSUME IInv, Middle
  PROVE  IInv'
<1> DEFINE p == idx
           wl == WordLen
           q == Past(Size(idx + WordLen))
           w == Substr(p, wl)
<1>0. /\ line' = line /\ line \in Seq(Letters) /\ Len(line) <= MaxLen /\ TypeOK
      /\ AtArgument /\ argu' = Append(argu, w) /\ idx' = q /\ phase = "argu"
      /\ phase' = phase /\ command' = command /\ ~ Is(COLON, p) /\ CommandTaken
  BY DEF Middle, IInv, TypeOK
<1>1. wl = Size(Find(SPACE, p) + 2 ^ Width - p) /\ q = Past(Size(p + wl)) /\ w = Substr(p, wl)
  BY DEF WordLen
<1> HIDE DEF wl, q, w
<1>2. /\ p \in 1..Len(line) /\ p \in Nat /\ Len(line) \in Nat
      /\ Len(line) < npos /\ npos \in Nat /\ line[p] = SPACE
      /\ p = Len(line) \/ Start(p)
      /\ FirstArg \in {2, 3} /\ Len(argu) \in Nat
      /\ \A i \in PassedArgs(p) : /\ Nth(i) - FirstArg + 1 \in 1..Len(argu)
                                  /\ argu[Nth(i) - FirstArg + 1] = WordFrom(i)
                                  /\ line[i] # COLON
  BY <1>0, AtWord
<1>3. CommandTaken'
  BY <1>0, SameLine DEF CommandTaken
<1>4. CASE p = Len(line)
  <2>1. w = <<>> /\ q = npos
    BY <1>0, <1>1, <1>2, <1>4, NoWord
  <2>2. /\ argu' \in Seq(Seq(Letters)) /\ Len(argu') = Len(argu) + 1
        /\ argu'[Len(argu) + 1] = <<>> /\ \A i \in 1..Len(argu) : argu'[i] = argu[i]
    <3>1. w \in Seq(Letters)
      BY <2>1
    <3> QED
      BY <1>0, <2>1, <3>1, Appended
  <2>3. Args = PassedArgs(p)
    BY <1>0, <1>4, AllPassed
  <2>4. Plain = Args
    BY <1>2, <2>3 DEF Plain
  <2>5. Cardinality(Plain) = Len(argu)
    BY <1>0, <2>3, <2>4 DEF AtArgument
  <2>6. \A i \in Plain : argu'[Nth(i) - FirstArg + 1] = WordFrom(i)
    BY <1>2, <2>2, <2>3, <2>4
  <2>7. ArgumentsTaken'
    BY <1>0, <1>2, <1>4, <2>2, <2>4, <2>5, <2>6, SameLine DEF ArgumentsTaken
  <2>8. TypeOK' /\ InRange'
    BY <1>0, <1>2, <2>1, <2>2 DEF TypeOK, InRange
  <2> QED
    BY <1>0, <1>3, <2>1, <2>7, <2>8 DEF IInv
<1>5. CASE p # Len(line)
  <2>1. Start(p) /\ line[p + 1] # COLON
    BY <1>0, <1>2, <1>5 DEF Is
  <2>2. /\ w = WordFrom(p + 1)
        /\ (q = npos /\ Ends(p)) \/ (q # npos /\ Goes(p, q))
    BY <1>0, <1>1, <1>2, <2>1, WordAt
  <2>3. w \in Seq(Letters)
    <3>1. wl \in Nat
      <4>1. Find(SPACE, p) = npos \/ Find(SPACE, p) \in p..(Len(line) - 1)
        BY <1>0, <1>2, FindFacts
      <4> DEFINE f == Find(SPACE, p)
      <4>2. f \in Nat /\ (f = npos \/ f \in p..(Len(line) - 1)) /\ p <= f
        BY <1>2, <4>1
      <4> HIDE DEF f
      <4>3. Size(f + 2 ^ Width - p) = f - p
        BY <1>0, <1>2, <4>2, Lengths
      <4> QED
        BY <1>1, <1>2, <4>2, <4>3 DEF f
    <3> QED
      BY <1>0, <1>1, <1>2, <3>1, SubstrType
  <2>4. /\ argu' \in Seq(Seq(Letters)) /\ Len(argu') = Len(argu) + 1
        /\ argu'[Len(argu) + 1] = w /\ \A i \in 1..Len(argu) : argu'[i] = argu[i]
    BY <1>0, <2>3, Appended
  <2>5. PICK r \in Nat : /\ p < r /\ StartsIn(p, r) = {p + 1} /\ r <= Len(line)
                         /\ r = IF q = npos THEN Len(line) ELSE q
    <3>1. q # npos => q \in Nat /\ q <= Len(line)
      BY <1>2, <2>2 DEF Goes, Behind
    <3> QED
      BY <1>2, <1>5, <2>2, <3>1 DEF Goes, Ends
  <2>6. /\ Nth(p + 1) = FirstArg + Len(argu) /\ p + 1 \in Args
        /\ Cardinality(Passed(r)) = FirstArg + Len(argu)
        /\ Cardinality(PassedArgs(r)) = Len(argu) + 1
        /\ PassedArgs(r) = PassedArgs(p) \cup {p + 1}
    BY <1>0, <2>5, NextArg
  <2>7. ASSUME NEW i \in PassedArgs(r)
        PROVE  line[i] # COLON /\ argu'[Nth(i) - FirstArg + 1] = WordFrom(i)
    <3>1. CASE i \in PassedArgs(p)
      BY <1>2, <2>4, <3>1
    <3>2. CASE i = p + 1
      <4>1. Nth(i) - FirstArg + 1 = Len(argu) + 1
        BY <1>2, <2>6, <3>2
      <4> QED
        BY <2>1, <2>2, <2>4, <3>2, <4>1
    <3> QED
      BY <2>6, <3>1, <3>2
  <2>8. CASE q # npos
    <3>1. r = q /\ Behind(q)
      BY <2>2, <2>5, <2>8 DEF Goes
    <3>2. /\ Behind(idx)' /\ Passed(idx)' = Passed(r) /\ PassedArgs(idx)' = PassedArgs(r)
          /\ FirstArg' = FirstArg
      BY <1>0, <3>1, Later, SameLine
    <3>3. Cardinality(Passed(r)) = FirstArg - 1 + Len(argu')
      BY <1>2, <2>4, <2>6
    <3>4. AtArgument'
      <4>1. Cardinality(Passed(idx))' = Cardinality(Passed(r))
            /\ Cardinality(PassedArgs(idx))' = Cardinality(PassedArgs(r))
        BY <3>2
      <4>2. Cardinality(Passed(idx))' = FirstArg' - 1 + Len(argu')
        BY <3>2, <3>3, <4>1
      <4>3. Cardinality(PassedArgs(idx))' = Len(argu')
        BY <2>4, <2>6, <4>1
      <4>4. \A i \in PassedArgs(r) : line'[i] # COLON /\ argu'[Nth(i)' - FirstArg' + 1] = WordFrom(i)'
        BY <1>0, <2>7, <3>2, SameLine
      <4>5. \A i \in PassedArgs(idx)' : line'[i] # COLON /\ argu'[Nth(i)' - FirstArg' + 1] = WordFrom(i)'
        BY <3>2, <4>4
      <4> QED
        BY <3>2, <4>2, <4>3, <4>5 DEF AtArgument
    <3>5. TypeOK' /\ InRange'
      BY <1>0, <1>2, <2>4, <2>5, <3>1 DEF TypeOK, InRange
    <3> QED
      BY <1>0, <1>3, <2>8, <3>4, <3>5 DEF IInv
  <2>9. CASE q = npos
    <3>1. r = Len(line) /\ line[Len(line)] # SPACE
      BY <2>2, <2>5, <2>9 DEF Ends
    <3>2. Args = PassedArgs(r)
      BY <1>0, <3>1, AllPassed
    <3>3. Plain = Args
      BY <2>7, <3>2 DEF Plain
    <3>4. ArgumentsTaken'
      BY <1>0, <2>4, <2>6, <2>7, <3>1, <3>2, <3>3, SameLine DEF ArgumentsTaken
    <3>5. TypeOK' /\ InRange'
      BY <1>0, <1>2, <2>4, <2>9 DEF TypeOK, InRange
    <3> QED
      BY <1>0, <1>3, <2>9, <3>4, <3>5 DEF IInv
  <2> QED
    BY <2>8, <2>9
<1> QED
  BY <1>4, <1>5

(* _argu_setting, at a colon: the rest of the line is one argument.        *)
LEMMA TrailingStep ==
  ASSUME IInv, Trailing
  PROVE  IInv'
<1> DEFINE p == idx
           w == Substr(idx + 1, npos)
<1>0. /\ line' = line /\ line \in Seq(Letters) /\ Len(line) <= MaxLen /\ TypeOK
      /\ AtArgument /\ argu' = Append(argu, w) /\ idx' = npos /\ phase = "argu"
      /\ phase' = phase /\ command' = command /\ Is(COLON, p) /\ CommandTaken
  BY DEF Trailing, IInv, TypeOK
<1>1. w = Substr(p + 1, npos)
  OBVIOUS
<1> HIDE DEF w
<1>2. /\ p \in 1..Len(line) /\ p \in Nat /\ Len(line) \in Nat
      /\ Len(line) < npos /\ npos \in Nat
      /\ p = Len(line) \/ Start(p)
      /\ FirstArg \in {2, 3} /\ Len(argu) \in Nat
      /\ \A i \in PassedArgs(p) : /\ Nth(i) - FirstArg + 1 \in 1..Len(argu)
                                  /\ argu[Nth(i) - FirstArg + 1] = WordFrom(i)
                                  /\ line[i] # COLON
  BY <1>0, AtWord
<1>3. p < Len(line) /\ line[p + 1] = COLON /\ Start(p) /\ p + 1 \in 0..Len(line)
  BY <1>0, <1>2 DEF Is
<1>4. w \in Seq(Letters) /\ w = SubSeq(line, (p + 1) + 1, Len(line))
  <2>1. w \in Seq(Letters)
    BY <1>0, <1>1, <1>2, <1>3, SubstrType
  <2>2. \A n, i, m \in Nat :
            n < m /\ i <= n => i + (IF m > n - i THEN n - i ELSE m) = n
    OBVIOUS
  <2>3. (p + 1) + (IF npos > Len(line) - (p + 1) THEN Len(line) - (p + 1) ELSE npos) = Len(line)
    <3> DEFINE i == p + 1
               n == Len(line)
    <3>1. i \in Nat /\ n \in Nat /\ i <= n /\ npos \in Nat /\ n < npos
      BY <1>2, <1>3
    <3> HIDE DEF npos, i, n
    <3>2. i + (IF npos > n - i THEN n - i ELSE npos) = n
      BY <3>1, <2>2
    <3> QED
      BY <3>2 DEF i, n
  <2> QED
    BY <1>1, <2>1, <2>3 DEF Substr
<1>5. /\ argu' \in Seq(Seq(Letters)) /\ Len(argu') = Len(argu) + 1
      /\ argu'[Len(argu) + 1] = w /\ \A i \in 1..Len(argu) : argu'[i] = argu[i]
  BY <1>0, <1>4, Appended
<1>6. StartsIn(p, p + 1) = {p + 1}
  <2>1. \A j \in Starts : j \in Nat
    BY <1>0, Countable
  <2>2. \A j \in Starts : p < j /\ j <= p + 1 <=> j = p + 1
    BY <1>2, <2>1
  <2> QED
    BY <1>3, <2>2 DEF StartsIn, Start
<1>7. Nth(p + 1) = FirstArg + Len(argu) /\ p + 1 \in Args
  <2>1. p + 1 \in Nat /\ p < p + 1
    BY <1>2
  <2> QED
    BY <1>0, <1>6, <2>1, NextArg
<1>8. Plain = PassedArgs(p)
  <2>1. \A i \in Args : i \in Nat /\ (i <= p \/ p + 1 <= i)
    BY <1>0, <1>2, Countable DEF Args
  <2>2. ASSUME NEW i \in Plain PROVE i \in PassedArgs(p)
    <3>1. i \in Args /\ ~ (p + 1 <= i)
      BY <1>3, <1>7 DEF Plain
    <3> QED
      BY <2>1, <3>1 DEF PassedArgs
  <2>3. ASSUME NEW i \in PassedArgs(p) PROVE i \in Plain
    <3>1. i \in Args /\ i <= p
      BY DEF PassedArgs
    <3>2. \A j \in Args : j <= i => j \in PassedArgs(p)
      <4>1. \A j \in Args : j <= i => j <= p
        BY <1>2, <2>1, <3>1
      <4> QED
        BY <4>1 DEF PassedArgs
    <3> QED
      BY <1>2, <3>1, <3>2 DEF Plain
  <2> QED
    BY <2>2, <2>3
<1>9. Cardinality(Plain) = Len(argu)
  BY <1>0, <1>8 DEF AtArgument
<1>10. \A i \in Plain : argu'[Nth(i) - FirstArg + 1] = WordFrom(i)
  BY <1>2, <1>5, <1>8
<1>11. ArgumentsTaken'
  <2>1. /\ p + 1 \in Args /\ line[p + 1] = COLON /\ Nth(p + 1) = FirstArg + Cardinality(Plain)
        /\ Len(argu') = Cardinality(Plain) + 1
        /\ argu'[Cardinality(Plain) + 1] = SubSeq(line, (p + 1) + 1, Len(line))
    BY <1>3, <1>4, <1>5, <1>7, <1>9
  <2> QED
    BY <1>0, <1>10, <2>1, SameLine DEF ArgumentsTaken
<1>12. CommandTaken'
  BY <1>0, SameLine DEF CommandTaken
<1>13. TypeOK' /\ InRange'
  BY <1>0, <1>2, <1>5 DEF TypeOK, InRange
<1> QED
  BY <1>0, <1>11, <1>12, <1>13 DEF IInv

(* Every step keeps the invariant.                                         *)
LEMMA Step == IInv /\ [Next]_vars => IInv'
<1> SUFFICES ASSUME IInv, [Next]_vars PROVE IInv'
  OBVIOUS
<1>1. CASE NoPrefix
  <2>1. /\ line' = line /\ argu' = argu /\ idx' = idx /\ idx = 0 /\ phase' = "command"
        /\ argu = <<>> /\ ~ Is(COLON, 0)
    BY <1>1 DEF NoPrefix, IInv
  <2>2. AtCommand'
    BY <2>1 DEF AtCommand, Is
  <2>3. TypeOK' /\ InRange'
    <3>1. Len(line) \in Nat
      BY LineFacts DEF IInv, TypeOK
    <3> QED
      BY <2>1, <3>1 DEF IInv, TypeOK, InRange
  <2> QED
    BY <2>1, <2>2, <2>3 DEF IInv
<1>2. CASE Parsed
  <2>1. /\ line' = line /\ argu' = argu /\ idx' = idx /\ idx = npos /\ phase' = "parsed"
        /\ command' = command /\ CommandTaken /\ ArgumentsTaken
    BY <1>2 DEF Parsed, IInv
  <2>2. CommandTaken' /\ ArgumentsTaken'
    BY <2>1, SameLine DEF CommandTaken, ArgumentsTaken
  <2>3. TypeOK' /\ InRange'
    BY <2>1 DEF IInv, TypeOK, InRange
  <2> QED
    BY <2>1, <2>2, <2>3 DEF IInv
<1>3. CASE UNCHANGED vars
  <2>1. /\ line' = line /\ argu' = argu /\ idx' = idx /\ phase' = phase /\ command' = command
    BY <1>3 DEF vars
  <2>2. (CommandTaken' <=> CommandTaken) /\ (ArgumentsTaken' <=> ArgumentsTaken)
    BY <2>1, SameLine DEF CommandTaken, ArgumentsTaken
  <2>3. TypeOK' /\ InRange'
    BY <2>1 DEF IInv, TypeOK, InRange
  <2>4. (AtCommand' <=> AtCommand) /\ (AtArgument' <=> AtArgument)
    <3>1. /\ Passed(idx)' = Passed(idx) /\ PassedArgs(idx)' = PassedArgs(idx)
          /\ Behind(idx)' <=> Behind(idx)
      BY <2>1, Later
    <3>2. Is(COLON, 0)' <=> Is(COLON, 0)
      BY <2>1 DEF Is
    <3> QED
      BY <2>1, <3>1, <3>2, SameLine DEF AtCommand, AtArgument
  <2> QED
    BY <2>1, <2>2, <2>3, <2>4 DEF IInv
<1> QED
  BY <1>1, <1>2, <1>3, PrefixStep, CommandStep, MiddleStep, TrailingStep DEF Next

(* Before the first step.                                                  *)
LEMMA InitIInv == Init => IInv
<1> SUFFICES ASSUME Init PROVE IInv
  OBVIOUS
<1>1. PICK n \in 0..MaxLen : line \in [1..n -> Letters]
  BY DEF Init, Letters
<1>2. MaxLen \in Nat
  BY ParserAssumption
<1>3. line \in Seq(Letters) /\ Len(line) = n /\ n \in Nat /\ n <= MaxLen
  BY <1>1, <1>2
<1> QED
  BY <1>3 DEF Init, IInv, TypeOK, InRange

(* The invariant of the walk holds in every state that is reached.         *)
THEOREM Invariance == Spec => []IInv
BY InitIInv, Step, PTL DEF Spec

(* InRange: no position handed to substr is past the end of the line.      *)
THEOREM StaysInRange == Spec => []InRange
<1>1. IInv => InRange
  BY DEF IInv
<1> QED
  BY <1>1, Invariance, PTL

(* SplitsTheLine: a command that gets through has the words of the line    *)
(* for its arguments.                                                      *)
THEOREM WordsAreArguments == Spec => []SplitsTheLine
<1>1. IInv => SplitsTheLine
  BY DEF IInv, SplitsTheLine
<1> QED
  BY <1>1, Invariance, PTL

(* A step of the loop over the arguments moves the index.                  *)
LEMMA MovesOn == IInv /\ (Middle \/ Trailing) => idx' > idx
<1> SUFFICES ASSUME IInv, Middle \/ Trailing PROVE idx' > idx
  OBVIOUS
<1> DEFINE p == idx
           q == Past(Size(idx + WordLen))
           wl == WordLen
<1>0. line \in Seq(Letters) /\ Len(line) <= MaxLen /\ TypeOK /\ AtArgument
  BY DEF IInv, TypeOK, Middle, Trailing
<1>1. /\ p \in 1..Len(line) /\ p \in Nat /\ Len(line) \in Nat /\ Len(line) < npos
      /\ npos \in Nat
      /\ p = Len(line) \/ Start(p)
  BY <1>0, AtWord
<1>2. wl = Size(Find(SPACE, p) + 2 ^ Width - p) /\ q = Past(Size(p + wl))
  BY DEF WordLen
<1>a. p < npos /\ p = idx
  BY <1>1
<1> HIDE DEF wl, q, p
<1>3. CASE Trailing
  <2>1. idx' = npos
    BY <1>3 DEF Trailing
  <2> HIDE DEF npos
  <2> QED
    BY <1>1, <1>a, <2>1
<1>4. CASE Middle
  <2>1. idx' = q
    BY <1>4 DEF Middle, q
  <2>2. q = npos \/ (q > p /\ q \in Nat)
    <3>1. p = Len(line) => q = npos
      BY <1>0, <1>1, <1>2, NoWord
    <3>2. Start(p) => q = npos \/ Goes(p, q)
      BY <1>0, <1>1, <1>2, WordAt
    <3> QED
      BY <1>1, <3>1, <3>2 DEF Goes, Behind
  <2> HIDE DEF npos
  <2> QED
    BY <1>1, <1>a, <2>1, <2>2
<1> QED
  BY <1>3, <1>4

(* Advances: each step moves the index or goes to the next part.           *)
THEOREM WalkEnds == Spec => Advances
<1>1. IInv /\ [Next]_vars => [phase' # phase \/ idx' > idx]_vars
  <2> SUFFICES ASSUME IInv, Next PROVE phase' # phase \/ idx' > idx
    OBVIOUS
  <2>1. CASE NoPrefix \/ Prefix \/ Command \/ Parsed
    BY <2>1 DEF NoPrefix, Prefix, Command, Parsed
  <2> QED
    BY <2>1, MovesOn DEF Next
<1> QED
  BY <1>1, Invariance, PTL DEF Spec, Advances
==============================================================================
