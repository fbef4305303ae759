---------------------------- MODULE BytesProofs ----------------------------
(***************************************************************************)
(* Theorems about the components that go through bytes: the reader of      *)
(* Sorer.tla, for files, buffers and samples of any length; the growing    *)
(* buffer of Serializer.tla, for every first capacity and any sequence of  *)
(* calls, each adding any bytes but none; and, at the end, the round trip  *)
(* of Serial.tla, for every message, array and frame descriptor.           *)
(***************************************************************************)
EXTENDS Sorer, Serial, SequenceTheorems, FiniteSetTheorems, WellFoundedInduction, TLAPS

\* The numbers of a set up to i.
UpTo(S, i) == {j \in S : j <= i}

-----------------------------------------------------------------------------
(* The invariant.                                                          *)

\* Where the reader is in the file, and the last newline before that, or the
\* beginning of the part.
At == from + read_size - Len(buf) + pos
Here == Break(file, from, At)

FileInv ==
  /\ file \in Seq(Bytes) /\ from \in Nat /\ to \in Nat
  /\ from < to /\ to <= Len(file)

\* The buffer is a stretch of the file.
BufferInv ==
  /\ buf \in Seq(Bytes) /\ Len(buf) <= Buf /\ pos \in 0 .. Len(buf)
  /\ read_size \in Nat /\ Len(buf) <= read_size /\ from + read_size <= Len(file)
  /\ \A i \in 1 .. Len(buf) : buf[i] = file[from + read_size - Len(buf) + i]

\* The current line is what the reader has passed since the last newline; it is
\* there, though empty, when the skipped line was all that was in the buffer.
LineInv ==
  /\ skip \in BOOLEAN
  /\ skip <=> from # 0 /\ Here = from
  /\ current_line = None => Here = At \/ Over
  /\ current_line # None =>
       /\ current_line = SubSeq(file, Here + 1, At)
       /\ Here = At => from # 0 /\ At > from /\ \A i \in from + 1 .. At - 1 : file[i] # Newline

ReaderInv == FileInv /\ BufferInv /\ LineInv

\* The lines handed out are those that end where the reader is or before, and
\* all of them once the rest of the file was handed out.
W == Whole(file, from, to)
HandedInv ==
  /\ Readable(file, from, to)
  /\ to = Len(file) \/ read_size \in {0, to - from}
  /\ pass \in {"count", "guess"} => Len(lines) <= GuessLines
  /\ \/ /\ lines = LinesTo(file, from, UpTo(W, At))
        /\ current_line = None => Here = At
     \/ /\ lines = LinesOf(file, from, to)
        /\ Over /\ to = Len(file) /\ current_line = None

\* Guesses and columns have their types, and none is left open in the last pass.
ParsedInv ==
  /\ pass \in {"count", "guess", "parse", "frame", "failed"}
  /\ lines \in Seq(Seq(Bytes))
  /\ num_columns \in Nat
  /\ guesses \in Seq(Types)
  /\ pass = "guess" => guesses \in [1 .. num_columns -> Types]
  /\ pass \in {"parse", "frame"} =>
       /\ guesses \in [1 .. num_columns -> Types \ {"UNKNOWN"}]
       /\ columns \in [1 .. num_columns -> Seq(Seq(Bytes))]

\* A guess is the type that fits the texts seen.
Guessed(texts) == IF texts = {} THEN "UNKNOWN" ELSE TypeOf(texts)
Seen ==
  LET all == LinesOf(file, from, to)
  IN SubSeq(all, 1, Min({GuessLines, Len(all)}))
GuessInv ==
  /\ pass = "guess" => \A c \in 1 .. num_columns : guesses[c] = Guessed(TextsIn(lines, c))
  /\ pass \in {"parse", "frame"} =>
       \A c \in 1 .. num_columns : guesses[c] = TypeOf(TextsIn(Seen, c))

\* A column has the values of those lines that have a field for it.
HavingIn(ls, c) == {k \in 1 .. Len(ls) : c <= Len(Fields(ls[k]))}
Holds(column, ls, t, c) ==
  /\ Len(column) = Cardinality(HavingIn(ls, c))
  /\ \A k \in HavingIn(ls, c) :
       column[Rank(HavingIn(ls, c), k)] = Appended(t, Fields(ls[k])[c])
RowInv ==
  /\ pass \in {"guess", "parse", "frame"} => num_columns > 0
  /\ pass \in {"parse", "frame"} =>
       /\ \A k \in 1 .. Len(lines) : Len(Fields(lines[k])) <= num_columns
       /\ \A c \in 1 .. num_columns : Holds(columns[c], lines, guesses[c], c)
  /\ pass = "frame" => \A c \in 1 .. num_columns : Len(columns[c]) = Len(columns[1])

-----------------------------------------------------------------------------
(* Sets of numbers and their order.                                        *)

\* Some number of a set is the least.
LEMMA SomeLeast ==
  ASSUME NEW T, T \subseteq Nat, T # {}
  PROVE  \E n \in T : \A m \in T : n <= m
<1> DEFINE R == OpToRel(<, Nat)
<1>1. IsWellFoundedOn(R, Nat)
  BY NatLessThanWellFounded
<1>2. \A x, y \in Nat : x < y => <<x, y>> \in R
  BY DEF OpToRel
<1> HIDE DEF R
<1>3. PICK n \in T : \A m \in T : ~(<<m, n>> \in R)
  BY <1>1, WFMin
<1>4. \A m \in T : m \in Nat /\ ~(m < n)
  BY <1>2, <1>3
<1> QED
  BY <1>4

LEMMA Least ==
  ASSUME NEW T, T \subseteq Nat, T # {}
  PROVE  Min(T) \in T /\ \A m \in T : Min(T) <= m
<1>1. PICK n \in T : \A m \in T : n <= m
  BY SomeLeast
<1> QED
  BY <1>1 DEF Min

LEMMA MinOfTwo ==
  ASSUME NEW a \in Nat, NEW b \in Nat
  PROVE  Min({a, b}) = IF a <= b THEN a ELSE b
<1>1. {a, b} \subseteq Nat /\ {a, b} # {}
  OBVIOUS
<1>2. Min({a, b}) \in {a, b} /\ \A m \in {a, b} : Min({a, b}) <= m
  BY <1>1, Least
<1> QED
  BY <1>2

LEMMA Greatest ==
  ASSUME NEW T, T \subseteq Nat, T # {}, NEW b \in Nat, \A m \in T : m <= b
  PROVE  Max(T) \in T /\ \A m \in T : m <= Max(T)
<1> DEFINE U == {k \in Nat : \A m \in T : m <= k}
<1>1. U \subseteq Nat /\ b \in U
  OBVIOUS
<1>2. PICK n \in U : \A k \in U : n <= k
  BY <1>1, SomeLeast
<1>3. n \in T
  <2>1. CASE n = 0
    <3>1. PICK m \in T : TRUE
      OBVIOUS
    <3>2. m \in Nat /\ m <= 0
      BY <1>2, <2>1
    <3>3. m = n
      BY <2>1, <3>2
    <3> QED
      BY <3>3
  <2>2. CASE n # 0
    <3>1. n - 1 \in Nat /\ ~(n <= n - 1)
      BY <1>2, <2>2
    <3>2. PICK m \in T : ~(m <= n - 1)
      BY <1>2, <3>1
    <3> QED
      BY <1>2, <3>1, <3>2
  <2> QED
    BY <2>1, <2>2
<1>4. \A m \in T : n >= m
  BY <1>2
<1> QED
  BY <1>3, <1>4 DEF Max

LEMMA RankType ==
  ASSUME NEW S, IsFiniteSet(S)
  PROVE  \A i : Rank(S, i) \in Nat /\ Rank(S, i) <= Cardinality(S)
<1>1. Cardinality(S) \in Nat
  BY FS_CardinalityType
<1>2. ASSUME NEW i
      PROVE  Rank(S, i) \in Nat /\ Rank(S, i) <= Cardinality(S)
  <2>1. UpTo(S, i) \in SUBSET S
    BY DEF UpTo
  <2>2. IsFiniteSet(UpTo(S, i)) /\ Cardinality(UpTo(S, i)) <= Cardinality(S)
    BY <2>1, FS_Subset
  <2>3. Cardinality(UpTo(S, i)) \in Nat
    BY <2>2, FS_CardinalityType
  <2> QED
    BY <2>2, <2>3 DEF Rank, UpTo
<1> QED
  BY <1>2

\* One more number: the rank grows by one, or not.
LEMMA RankStep ==
  ASSUME NEW S, IsFiniteSet(S), S \subseteq Nat, NEW i \in Nat
  PROVE  Rank(S, i + 1) = IF i + 1 \in S THEN Rank(S, i) + 1 ELSE Rank(S, i)
<1>1. IsFiniteSet(UpTo(S, i))
  BY FS_Subset DEF UpTo
<1>2. i + 1 \notin UpTo(S, i)
  BY DEF UpTo
<1>3. UpTo(S, i + 1) = IF i + 1 \in S THEN UpTo(S, i) \cup {i + 1} ELSE UpTo(S, i)
  <2>1. \A j \in S : j <= i + 1 <=> j <= i \/ j = i + 1
    OBVIOUS
  <2> QED
    BY <2>1 DEF UpTo
<1> QED
  BY <1>1, <1>2, <1>3, FS_AddElement DEF Rank, UpTo

LEMMA RankGrows ==
  ASSUME NEW S, IsFiniteSet(S), S \subseteq Nat, NEW i \in S, NEW j \in S, i < j
  PROVE  Rank(S, i) < Rank(S, j)
<1>1. UpTo(S, i) \in SUBSET UpTo(S, j) /\ j \in UpTo(S, j) /\ j \notin UpTo(S, i)
  <2>1. i \in Nat /\ j \in Nat /\ ~(j <= i) /\ j <= j
    OBVIOUS
  <2>2. \A k \in S : k <= i => k <= j
    BY <2>1
  <2> QED
    BY <2>1, <2>2 DEF UpTo
<1>2. IsFiniteSet(UpTo(S, j)) /\ IsFiniteSet(UpTo(S, i))
  BY FS_Subset DEF UpTo
<1>3. Cardinality(UpTo(S, i)) <= Cardinality(UpTo(S, j))
     /\ Cardinality(UpTo(S, j)) # Cardinality(UpTo(S, i))
  BY <1>1, <1>2, FS_Subset
<1>4. Cardinality(UpTo(S, i)) \in Nat /\ Cardinality(UpTo(S, j)) \in Nat
  BY <1>2, FS_CardinalityType
<1> QED
  BY <1>3, <1>4 DEF Rank, UpTo

\* Every rank is taken.
LEMMA RankOnto ==
  ASSUME NEW S, IsFiniteSet(S), S \subseteq Nat, NEW b \in Nat, \A i \in S : i <= b,
         NEW k \in 1 .. Cardinality(S)
  PROVE  \E i \in S : Rank(S, i) = k
<1>1. \A i : Rank(S, i) \in Nat /\ Rank(S, i) <= Cardinality(S)
  BY RankType
<1>2. \A i \in Nat : Rank(S, i + 1) = IF i + 1 \in S THEN Rank(S, i) + 1 ELSE Rank(S, i)
  BY RankStep
<1>3. Rank(S, b) = Cardinality(S) /\ Cardinality(S) \in Nat
  <2>1. UpTo(S, b) = S
    BY DEF UpTo
  <2> QED
    BY <2>1, FS_CardinalityType DEF Rank, UpTo
<1>4. Rank(S, 0) = IF 0 \in S THEN 1 ELSE 0
  <2>1. \A j \in S : j <= 0 <=> j = 0
    OBVIOUS
  <2>2. UpTo(S, 0) = IF 0 \in S THEN {0} ELSE {}
    BY <2>1 DEF UpTo
  <2>3. Cardinality({0}) = 1 /\ Cardinality({}) = 0
    BY FS_EmptySet, FS_Singleton
  <2> QED
    BY <2>2, <2>3 DEF Rank, UpTo
<1> DEFINE U == {i \in Nat : Rank(S, i) >= k}
<1>5. k \in Nat /\ k > 0 /\ b \in U
  BY <1>3
<1>6. PICK n \in U : \A i \in U : n <= i
  BY <1>5, SomeLeast
<1>7. n \in Nat /\ Rank(S, n) >= k
  OBVIOUS
<1>8. CASE n = 0
  BY <1>4, <1>5, <1>7, <1>8
<1>9. CASE n # 0
  <2>1. PICK m \in Nat : n = m + 1
    BY <1>7, <1>9
  <2>2. m \notin U
    BY <1>6, <2>1
  <2>3. ~(Rank(S, m) >= k) /\ Rank(S, m) \in Nat /\ Rank(S, n) \in Nat
    BY <1>1, <2>2
  <2>4. Rank(S, n) = IF n \in S THEN Rank(S, m) + 1 ELSE Rank(S, m)
    BY <1>2, <2>1
  <2> QED
    BY <1>5, <1>7, <2>3, <2>4
<1> QED
  BY <1>8, <1>9

LEMMA NthIs ==
  ASSUME NEW S, IsFiniteSet(S), S \subseteq Nat, NEW b \in Nat, \A i \in S : i <= b,
         NEW k \in 1 .. Cardinality(S)
  PROVE  Nth(S, k) \in S /\ Rank(S, Nth(S, k)) = k
BY RankOnto DEF Nth

LEMMA NthRank ==
  ASSUME NEW S, IsFiniteSet(S), S \subseteq Nat, NEW i \in S
  PROVE  Nth(S, Rank(S, i)) = i
<1>1. Nth(S, Rank(S, i)) \in S /\ Rank(S, Nth(S, Rank(S, i))) = Rank(S, i)
  BY DEF Nth
<1> DEFINE n == Nth(S, Rank(S, i))
<1> HIDE DEF n
<1>2. n \in S /\ n \in Nat /\ i \in Nat /\ Rank(S, n) = Rank(S, i)
  BY <1>1 DEF n
<1>3. Rank(S, n) \in Nat /\ Rank(S, i) \in Nat
  BY RankType
<1>4. n < i => Rank(S, n) < Rank(S, i)
  BY <1>2, RankGrows
<1>5. i < n => Rank(S, i) < Rank(S, n)
  BY <1>2, RankGrows
<1> QED
  BY <1>2, <1>3, <1>4, <1>5 DEF n

\* The first of a set's numbers are those of the set up to one of them.
LEMMA NthUpTo ==
  ASSUME NEW S, IsFiniteSet(S), S \subseteq Nat, NEW p \in Nat,
         NEW k \in 1 .. Cardinality(UpTo(S, p))
  PROVE  Nth(UpTo(S, p), k) = Nth(S, k) /\ Nth(S, k) \in UpTo(S, p)
<1> DEFINE T == UpTo(S, p)
           i == Nth(T, k)
<1>1. IsFiniteSet(T) /\ T \subseteq Nat /\ (\A j \in T : j <= p) /\ T \subseteq S
  BY FS_Subset DEF UpTo
<1>2. i \in T /\ Rank(T, i) = k
  BY <1>1, NthIs
<1>3. {j \in T : j <= i} = {j \in S : j <= i}
  <2>1. i \in Nat /\ i <= p
    BY <1>1, <1>2
  <2>2. \A j \in S : j <= i => j <= p
    BY <2>1
  <2> QED
    BY <2>2 DEF UpTo
<1>4. i \in S /\ Rank(S, i) = k
  BY <1>1, <1>2, <1>3 DEF Rank
<1>5. Nth(S, k) = i
  BY <1>4, NthRank
<1> QED
  BY <1>2, <1>5

-----------------------------------------------------------------------------
(* Lines of a file.                                                        *)

\* b is the last newline of f up to e, or a.
IsBreak(f, a, e, b) ==
  /\ b \in Nat /\ a <= b /\ b <= e
  /\ b = a \/ f[b] = Newline
  /\ \A i \in b + 1 .. e : f[i] # Newline

LEMMA BreakIs ==
  ASSUME NEW f, NEW a \in Nat, NEW e \in Nat, a <= e
  PROVE  IsBreak(f, a, e, Break(f, a, e))
<1> DEFINE T == {a} \cup {i \in a + 1 .. e : f[i] = Newline}
           b == Max(T)
<1>1. T \subseteq Nat /\ a \in T /\ \A m \in T : m <= e
  OBVIOUS
<1>2. T # {}
  OBVIOUS
<1>3. b = a \/ (b \in a + 1 .. e /\ f[b] = Newline)
  <2>1. b \in T
    BY <1>1, <1>2, Greatest
  <2> QED
    BY <2>1
<1>4. \A m \in T : m <= b
  <2> HIDE DEF T
  <2> QED
    BY <1>1, <1>2, Greatest
<1>5. \A i \in a + 1 .. e : f[i] = Newline => i <= b
  BY <1>4
<1>6. b = Break(f, a, e)
  BY DEF Break
<1> HIDE DEF T, b
<1>7. b \in Nat /\ a <= b /\ b <= e /\ (b = a \/ f[b] = Newline)
  BY <1>3
<1>8. \A i \in b + 1 .. e : f[i] # Newline
  <2>1. SUFFICES ASSUME NEW i \in b + 1 .. e, f[i] = Newline PROVE FALSE
    OBVIOUS
  <2>2. i \in a + 1 .. e /\ ~(i <= b)
    BY <1>7
  <2> QED
    BY <1>5, <2>1, <2>2
<1> QED
  BY <1>6, <1>7, <1>8 DEF IsBreak

LEMMA BreakUnique ==
  ASSUME NEW f, NEW a \in Nat, NEW e \in Nat, a <= e, NEW b, IsBreak(f, a, e, b)
  PROVE  Break(f, a, e) = b
<1> DEFINE c == Break(f, a, e)
<1>1. IsBreak(f, a, e, c)
  BY BreakIs
<1> HIDE DEF c
<1>2. ~(b < c)
  <2>1. b < c => c \in b + 1 .. e /\ c # a
    BY <1>1 DEF IsBreak
  <2> QED
    BY <1>1, <2>1 DEF IsBreak
<1>3. ~(c < b)
  <2>1. c < b => b \in c + 1 .. e /\ b # a
    BY <1>1 DEF IsBreak
  <2> QED
    BY <1>1, <2>1 DEF IsBreak
<1>4. b = c
  BY <1>1, <1>2, <1>3 DEF IsBreak
<1> QED
  BY <1>4 DEF c

LEMMA LinesLen ==
  ASSUME NEW f, NEW a, NEW S, IsFiniteSet(S)
  PROVE  Len(LinesTo(f, a, S)) = Cardinality(S) /\ Cardinality(S) \in Nat
BY FS_CardinalityType DEF LinesTo

\* The lines that end up to some place are the first ones.
LEMMA LinesUpTo ==
  ASSUME NEW f, NEW a, NEW S, IsFiniteSet(S), S \subseteq Nat, NEW p \in Nat
  PROVE  IsPrefix(LinesTo(f, a, UpTo(S, p)), LinesTo(f, a, S))
<1> DEFINE T == UpTo(S, p)
           l == LinesTo(f, a, T)
           m == LinesTo(f, a, S)
<1>1. T \in SUBSET S
  BY DEF UpTo
<1>2. /\ Cardinality(T) \in Nat /\ Cardinality(S) \in Nat /\ Cardinality(T) <= Cardinality(S)
      /\ Len(l) = Cardinality(T) /\ Len(m) = Cardinality(S)
  BY <1>1, FS_Subset, LinesLen
<1>3. \A k \in 1 .. Cardinality(T) : Nth(T, k) = Nth(S, k)
  BY NthUpTo
<1>4. \A k \in 1 .. Cardinality(T) : l[k] = m[k]
  BY <1>2, <1>3 DEF LinesTo
<1> HIDE DEF T, l, m
<1>5. SubSeq(l, 1, Len(l)) = SubSeq(m, 1, Len(l))
  BY <1>2, <1>4
<1> QED
  BY <1>2, <1>5 DEF IsPrefix, T, l, m

\* One more line.
LEMMA LinesAdd ==
  ASSUME NEW f, NEW a, NEW S, IsFiniteSet(S), S \subseteq Nat, NEW e \in Nat, \A d \in S : d < e
  PROVE  LinesTo(f, a, S \cup {e}) = Append(LinesTo(f, a, S), LineTo(f, a, e))
<1> DEFINE U == S \cup {e}
           n == Cardinality(S)
           l == LinesTo(f, a, S)
           m == LinesTo(f, a, U)
<1>1. e \notin S
  OBVIOUS
<1>2. IsFiniteSet(U) /\ Cardinality(U) = n + 1 /\ n \in Nat
  BY <1>1, FS_AddElement, FS_CardinalityType
<1>3. U \subseteq Nat /\ e \in U /\ \A d \in U : d <= e
  OBVIOUS
<1>4. Nth(U, n + 1) = e
  <2>1. UpTo(U, e) = U
    BY <1>3 DEF UpTo
  <2>2. Rank(U, e) = n + 1
    BY <1>2, <2>1 DEF Rank, UpTo
  <2> HIDE DEF U
  <2> QED
    BY <1>2, <1>3, <2>2, NthRank
<1>5. \A k \in 1 .. n : Nth(U, k) = Nth(S, k)
  <2>1. CASE e = 0
    <3>1. S = {}
      BY <2>1
    <3> QED
      BY <3>1, FS_EmptySet
  <2>2. CASE e # 0
    <3>1. PICK p \in Nat : e = p + 1
      BY <2>2
    <3>2. UpTo(U, p) = S
      <4>1. ~(e <= p) /\ \A d \in S : d <= p
        BY <3>1
      <4> QED
        BY <4>1 DEF UpTo
    <3> HIDE DEF U
    <3> QED
      BY <1>2, <1>3, <3>2, NthUpTo
  <2> QED
    BY <2>1, <2>2
<1>6. m = [k \in 1 .. n + 1 |-> LineTo(f, a, Nth(U, k))]
     /\ l = [k \in 1 .. n |-> LineTo(f, a, Nth(S, k))]
  BY <1>2 DEF LinesTo
<1> HIDE DEF U, n, l, m
<1>7. m = [k \in 1 .. n + 1 |-> IF k \in 1 .. n THEN l[k] ELSE LineTo(f, a, e)]
  BY <1>2, <1>4, <1>5, <1>6
<1> DEFINE x == LineTo(f, a, e)
           V == {LineTo(f, a, Nth(S, k)) : k \in 1 .. n} \cup {x}
<1>8. l \in Seq(V) /\ Len(l) = n /\ x \in V
  BY <1>2, <1>6
<1>9. m = [k \in 1 .. n + 1 |-> IF k \in 1 .. n THEN l[k] ELSE x]
  BY <1>7
<1> HIDE DEF x, V
<1>10. m = Append(l, x)
  <2>1. m \in Seq(V) /\ Len(m) = n + 1
    <3>1. \A k \in 1 .. n : l[k] \in V
      BY <1>8
    <3> QED
      BY <1>2, <1>8, <1>9, <3>1
  <2>2. /\ Append(l, x) \in Seq(V) /\ Len(Append(l, x)) = n + 1
        /\ \A k \in 1 .. n : Append(l, x)[k] = l[k]
        /\ Append(l, x)[n + 1] = x
    BY <1>8, AppendProperties
  <2>3. \A k \in 1 .. n + 1 : m[k] = Append(l, x)[k]
    BY <1>2, <1>9, <2>2
  <2> QED
    BY <2>1, <2>2, <2>3, SeqEqual
<1> QED
  BY <1>10 DEF U, l, m, x

-----------------------------------------------------------------------------
(* The reader.                                                             *)

\* e is the next newline, in the buffer.
IsNext(e) ==
  /\ e \in Nat /\ At < e /\ e <= from + read_size
  /\ file[e] = Newline
  /\ \A i \in At + 1 .. e - 1 : file[i] # Newline

LEMMA AtFacts ==
  ASSUME FileInv, BufferInv
  PROVE  /\ At \in Nat /\ from <= At /\ At <= from + read_size /\ from + read_size <= Len(file)
         /\ At = from + read_size <=> pos = Len(buf)
         /\ Len(file) \in Nat /\ from \in Nat /\ to \in Nat /\ read_size \in Nat
<1>1. Len(buf) \in Nat /\ Len(file) \in Nat
  BY DEF FileInv, BufferInv
<1> QED
  BY <1>1 DEF FileInv, BufferInv, At

LEMMA HereFacts ==
  ASSUME FileInv, BufferInv
  PROVE  /\ Here \in Nat /\ from <= Here /\ Here <= At
         /\ Here = from \/ file[Here] = Newline
         /\ \A i \in Here + 1 .. At : file[i] # Newline
<1>1. At \in Nat /\ from \in Nat /\ from <= At
  BY AtFacts
<1> QED
  BY <1>1, BreakIs DEF Here, IsBreak

\* The buffer in terms of the file.
LEMMA Buffered ==
  ASSUME FileInv, BufferInv, NEW i \in pos + 1 .. Len(buf)
  PROVE  /\ At + (i - pos) \in At + 1 .. from + read_size
         /\ buf[i] = file[At + (i - pos)]
<1>1. Len(buf) \in Nat /\ pos \in Nat /\ read_size \in Nat /\ from \in Nat /\ i \in 1 .. Len(buf)
  BY DEF FileInv, BufferInv
<1>2. At + (i - pos) = from + read_size - Len(buf) + i
  BY <1>1 DEF At
<1> QED
  BY <1>1, <1>2 DEF BufferInv, At

LEMMA NoNewline ==
  ASSUME FileInv, BufferInv, NEW n \in pos .. Len(buf),
         \A i \in pos + 1 .. n : buf[i] # Newline
  PROVE  \A j \in At + 1 .. At + (n - pos) : file[j] # Newline
<1>1. Len(buf) \in Nat /\ pos \in Nat /\ At \in Nat
  BY AtFacts DEF BufferInv
<1>2. SUFFICES ASSUME NEW j \in At + 1 .. At + (n - pos)
               PROVE  file[j] # Newline
  OBVIOUS
<1> DEFINE i == pos + (j - At)
<1>3. i \in pos + 1 .. n /\ i \in pos + 1 .. Len(buf) /\ At + (i - pos) = j
  BY <1>1
<1> HIDE DEF i
<1>4. buf[i] = file[j]
  BY <1>3, Buffered
<1> QED
  BY <1>3, <1>4

LEMMA NextNewline ==
  ASSUME FileInv, BufferInv, Newlines # {}
  PROVE  /\ Min(Newlines) \in pos + 1 .. Len(buf)
         /\ IsNext(At + (Min(Newlines) - pos))
<1>1. Len(buf) \in Nat /\ pos \in Nat /\ At \in Nat
  BY AtFacts DEF BufferInv
<1> DEFINE n == Min(Newlines)
<1>2. Newlines \subseteq Nat
  BY <1>1 DEF Newlines
<1>3. n \in Newlines /\ \A m \in Newlines : n <= m
  BY <1>2, Least
<1> HIDE DEF n
<1>4. n \in pos + 1 .. Len(buf) /\ buf[n] = Newline
  BY <1>3 DEF Newlines
<1>5. \A i \in pos + 1 .. n - 1 : buf[i] # Newline
  BY <1>1, <1>3, <1>4 DEF Newlines
<1> DEFINE e == At + (n - pos)
<1>6. e \in At + 1 .. from + read_size /\ file[e] = Newline
  BY <1>4, Buffered
<1>7. n - 1 \in pos .. Len(buf) /\ At + ((n - 1) - pos) = e - 1
  BY <1>1, <1>4
<1>8. \A j \in At + 1 .. At + ((n - 1) - pos) : file[j] # Newline
  BY <1>5, <1>7, NoNewline
<1>9. e \in Nat /\ At < e /\ e <= from + read_size
  BY <1>1, <1>6
<1> HIDE DEF e
<1>10. \A j \in At + 1 .. e - 1 : file[j] # Newline
  BY <1>7, <1>8
<1>11. IsNext(e)
  BY <1>6, <1>9, <1>10 DEF IsNext
<1> QED
  BY <1>4, <1>11 DEF n, e

\* What is behind the last newline grows by what is read on.
LEMMA GrownIs ==
  ASSUME ReaderInv, NEW n \in pos .. Len(buf), pos < Len(buf)
  PROVE  Grown(n) = SubSeq(file, Here + 1, At + (n - pos))
<1>1. /\ Len(buf) \in Nat /\ pos \in Nat /\ At \in Nat /\ Here \in Nat /\ from \in Nat /\ read_size \in Nat
      /\ Len(file) \in Nat /\ Here <= At /\ At <= from + read_size /\ from + read_size <= Len(file)
      /\ file \in Seq(Bytes) /\ buf \in Seq(Bytes)
  BY AtFacts, HereFacts DEF BufferInv, FileInv, ReaderInv
<1>2. (IF current_line = None THEN <<>> ELSE current_line) = SubSeq(file, Here + 1, At)
  <2>1. CASE current_line = None
    <3>1. Here = At
      BY <2>1 DEF ReaderInv, LineInv, Over
    <3> QED
      BY <1>1, <2>1, <3>1, SubSeqEmpty
  <2>2. CASE current_line # None
    BY <2>2 DEF ReaderInv, LineInv
  <2> QED
    BY <2>1, <2>2
<1> DEFINE k == At + (n - pos)
<1>3. k \in At .. Len(file) /\ n - (pos + 1) + 1 = k - (At + 1) + 1
  BY <1>1 DEF At
<1>4. SubSeq(buf, pos + 1, n) = SubSeq(file, At + 1, k)
  <2>1. \A i \in pos + 1 .. n : buf[i] = file[At + (i - pos)]
    <3>1. \A i \in pos + 1 .. n : i \in pos + 1 .. Len(buf)
      BY <1>1
    <3> QED
      BY <3>1, Buffered DEF ReaderInv
  <2>2. \A i \in pos + 1 .. n : buf[i] \in Bytes
    BY <1>1
  <2>3. \A i \in At + 1 .. k : file[i] \in Bytes
    BY <1>1, <1>3
  <2> HIDE DEF k
  <2> DEFINE s == SubSeq(buf, pos + 1, n)
             t == SubSeq(file, At + 1, k)
  <2>4. k \in Nat
    BY <1>1, <1>3
  <2>5. /\ s \in Seq(Bytes) /\ Len(s) = n - pos
        /\ \A i \in 1 .. n - pos : s[i] = buf[pos + 1 + i - 1]
    <3>1. pos + 1 \in Int /\ n \in Int
      BY <1>1
    <3>2. /\ s \in Seq(Bytes) /\ Len(s) = IF pos + 1 <= n THEN n - (pos + 1) + 1 ELSE 0
          /\ \A i \in 1 .. n - (pos + 1) + 1 : s[i] = buf[pos + 1 + i - 1]
      BY <2>2, <3>1, SubSeqProperties
    <3> HIDE DEF s
    <3> QED
      BY <1>1, <3>2
  <2>6. /\ t \in Seq(Bytes) /\ Len(t) = n - pos
        /\ \A i \in 1 .. n - pos : t[i] = file[At + 1 + i - 1]
    <3>1. At + 1 \in Int /\ k \in Int
      BY <1>1, <2>4
    <3>2. /\ t \in Seq(Bytes) /\ Len(t) = IF At + 1 <= k THEN k - (At + 1) + 1 ELSE 0
          /\ \A i \in 1 .. k - (At + 1) + 1 : t[i] = file[At + 1 + i - 1]
      BY <2>3, <3>1, SubSeqProperties
    <3> HIDE DEF t
    <3> QED
      BY <1>1, <1>3, <3>2 DEF k
  <2>7. \A i \in 1 .. n - pos : s[i] = t[i]
    <3> HIDE DEF s, t
    <3>1. SUFFICES ASSUME NEW i \in 1 .. n - pos PROVE s[i] = t[i]
      OBVIOUS
    <3>2. pos + i \in pos + 1 .. n /\ pos + 1 + i - 1 = pos + i /\ At + 1 + i - 1 = At + i
          /\ At + ((pos + i) - pos) = At + i
      BY <1>1
    <3>3. buf[pos + i] = file[At + ((pos + i) - pos)]
      BY <2>1, <3>2
    <3> QED
      BY <2>5, <2>6, <3>2, <3>3
  <2> HIDE DEF s, t
  <2> QED
    BY <2>5, <2>6, <2>7, SeqEqual DEF s, t
<1>5. SubSeq(file, Here + 1, At) \o SubSeq(file, At + 1, k) = SubSeq(file, Here + 1, k)
  <2>1. Here + 1 \in 1 .. Len(file) + 1 /\ At \in (Here + 1) - 1 .. Len(file)
    BY <1>1
  <2> HIDE DEF k
  <2> QED
    BY <1>1, <1>3, <2>1, ConcatAdjacentSubSeq
<1> QED
  BY <1>2, <1>4, <1>5 DEF Grown

\* The bytes behind the first n, up to the m-th.
LEMMA Behind ==
  ASSUME NEW S, NEW s, NEW n \in Nat, NEW m \in Nat, n <= m, \A i \in n + 1 .. m : s[i] \in S
  PROVE  /\ SubSeq(s, n + 1, m) \in Seq(S) /\ Len(SubSeq(s, n + 1, m)) = m - n
         /\ \A i \in 1 .. m - n : SubSeq(s, n + 1, m)[i] = s[n + i]
<1> DEFINE k == n + 1
           t == SubSeq(s, k, m)
<1>1. k \in Int /\ m \in Int /\ m - k + 1 = m - n /\ \A i \in 1 .. m - n : k + i - 1 = n + i
  OBVIOUS
<1> HIDE DEF k
<1>2. \A i \in k .. m : s[i] \in S
  BY DEF k
<1>3. /\ t \in Seq(S) /\ Len(t) = IF k <= m THEN m - k + 1 ELSE 0
      /\ \A i \in 1 .. m - k + 1 : t[i] = s[k + i - 1]
  BY <1>1, <1>2, SubSeqProperties
<1> HIDE DEF t
<1>4. Len(t) = m - n
  BY <1>1, <1>3 DEF k
<1>5. \A i \in 1 .. m - n : t[i] = s[n + i]
  BY <1>1, <1>3
<1> QED
  BY <1>3, <1>4, <1>5 DEF t, k

\* A read goes on where the last one ended.
LEMMA RefillRead ==
  ASSUME ReaderInv, Refill
  PROVE  /\ FileInv' /\ BufferInv'
         /\ At' = At /\ ~Over /\ pos = Len(buf) /\ lines' = lines /\ pass' = pass
         /\ current_line' = current_line /\ skip' = skip
         /\ file' = file /\ from' = from /\ to' = to
         /\ read_size' = read_size + Len(buf')
         /\ Len(buf') = Min({from + read_size + (IF from + Buf > to THEN to - from ELSE Buf), Len(file)})
                          - (from + read_size)
<1>1. /\ file \in Seq(Bytes) /\ Len(file) \in Nat /\ from \in Nat /\ to \in Nat /\ read_size \in Nat
      /\ from < to /\ to <= Len(file) /\ from + read_size <= Len(file) /\ Len(buf) \in Nat
      /\ Len(buf) <= read_size /\ pos = Len(buf) /\ ~Over
      /\ Buf \in Nat \ {0}
  BY SorerAssumption DEF ReaderInv, FileInv, BufferInv, Refill
<1>2. read_size < to - from
  BY <1>1 DEF Over
<1> DEFINE start == from + read_size
           to_read == IF from + Buf > to THEN to - from ELSE Buf
           end == Min({start + to_read, Len(file)})
<1>3. to_read \in Nat /\ to_read <= Buf /\ start \in Nat
  BY <1>1
<1>4. end \in {start + to_read, Len(file)} /\ end <= start + to_read /\ end <= Len(file)
  BY <1>1, <1>3, MinOfTwo
<1>5. buf' = SubSeq(file, start + 1, end) /\ pos' = 0 /\ read_size' = read_size + Len(buf')
  BY DEF Refill
<1>6. /\ lines' = lines /\ pass' = pass /\ current_line' = current_line /\ skip' = skip
      /\ file' = file /\ from' = from /\ to' = to
  BY DEF Refill
<1>7. end \in Nat /\ start <= end /\ start + 1 \in Int /\ end \in Int
  BY <1>1, <1>3, <1>4
<1> HIDE DEF start, to_read, end
<1>8. \A i \in start + 1 .. end : file[i] \in Bytes
  BY <1>1, <1>3, <1>4, <1>7
<1>9. /\ buf' \in Seq(Bytes) /\ Len(buf') = end - start
      /\ \A i \in 1 .. end - start : buf'[i] = file[start + i]
  <2>1. /\ SubSeq(file, start + 1, end) \in Seq(Bytes) /\ Len(SubSeq(file, start + 1, end)) = end - start
        /\ \A i \in 1 .. end - start : SubSeq(file, start + 1, end)[i] = file[start + i]
    BY <1>3, <1>7, <1>8, Behind
  <2> QED
    BY <1>5, <2>1
<1>10. from + read_size' - Len(buf') = start /\ read_size' \in Nat /\ from + read_size' = end
  <2>1. PICK n : n = Len(buf')
    OBVIOUS
  <2>2. n = end - start /\ read_size' = read_size + n
    BY <1>5, <1>9, <2>1
  <2>3. start = from + read_size
    BY DEF start
  <2>4. from \in Nat /\ read_size \in Nat /\ start \in Nat /\ end \in Nat /\ start <= end
    BY <1>1, <1>3, <1>7
  <2>5. from + read_size' - n = start /\ read_size' \in Nat /\ from + read_size' = end
    BY <2>2, <2>3, <2>4
  <2> QED
    BY <2>1, <2>5
<1>11. BufferInv'
  <2>1. Len(buf') <= Buf /\ Len(buf') <= read_size' /\ pos' \in 0 .. Len(buf')
    <3>1. PICK n : n = Len(buf')
      OBVIOUS
    <3>2. n = end - start /\ read_size' = read_size + n /\ pos' = 0
      BY <1>5, <1>9, <3>1
    <3>3. /\ read_size \in Nat /\ start \in Nat /\ end \in Nat /\ start <= end /\ to_read \in Nat
          /\ to_read <= Buf /\ end <= start + to_read /\ Buf \in Nat
      BY <1>1, <1>3, <1>4, <1>7
    <3>4. n \in Nat /\ n <= Buf /\ n <= read_size'
      BY <3>2, <3>3
    <3> QED
      BY <3>1, <3>2, <3>4
  <2>2. \A i \in 1 .. Len(buf') : buf'[i] = file[from + read_size' - Len(buf') + i]
    BY <1>9, <1>10
  <2>3. from + read_size' <= Len(file)
    BY <1>4, <1>10
  <2> QED
    BY <1>6, <1>9, <1>10, <2>1, <2>2, <2>3 DEF BufferInv
<1>12. At' = At
  BY <1>1, <1>3, <1>5, <1>6, <1>10 DEF At, start
<1>13. FileInv'
  BY <1>6 DEF ReaderInv, FileInv
<1> QED
  BY <1>1, <1>5, <1>6, <1>9, <1>11, <1>12, <1>13 DEF start, to_read, end

LEMMA RefillReader ==
  ASSUME ReaderInv, Refill
  PROVE  ReaderInv'
<1>1. /\ FileInv' /\ BufferInv' /\ At' = At /\ ~Over /\ current_line' = current_line /\ skip' = skip
      /\ file' = file /\ from' = from
  BY RefillRead
<1>2. Here' = Here
  BY <1>1 DEF Here
<1>3. LineInv'
  BY <1>1, <1>2 DEF ReaderInv, LineInv
<1> QED
  BY <1>1, <1>3 DEF ReaderInv

\* The reader moves on in its buffer.
LEMMA Moved ==
  ASSUME ReaderInv, NEW n \in pos .. Len(buf), pos' = n,
         UNCHANGED <<file, from, to, buf, read_size>>
  PROVE  FileInv' /\ BufferInv' /\ At' = At + (n - pos)
<1>1. Len(buf) \in Nat /\ pos \in Nat /\ read_size \in Nat /\ from \in Nat
  BY DEF ReaderInv, FileInv, BufferInv
<1>2. At' = At + (n - pos)
  BY <1>1 DEF At
<1>3. FileInv'
  BY DEF ReaderInv, FileInv
<1>4. pos' \in 0 .. Len(buf)
  BY <1>1
<1>5. BufferInv'
  BY <1>4 DEF ReaderInv, BufferInv
<1> QED
  BY <1>2, <1>3, <1>5

\* ... to a newline, which is then the last one.
LEMMA MovedToNext ==
  ASSUME ReaderInv, IsNext(At'), FileInv', BufferInv', UNCHANGED <<file, from>>
  PROVE  Here' = At' /\ from < At' /\ \A i \in Here + 1 .. At' - 1 : file[i] # Newline
<1>1. At' \in Nat /\ from \in Nat /\ from < At' /\ file[At'] = Newline
  BY AtFacts DEF ReaderInv, FileInv, IsNext
<1>2. IsBreak(file, from, At', At')
  <2> DEFINE e == At'
  <2>1. e \in Nat /\ from \in Nat /\ from < e /\ file[e] = Newline
    BY <1>1
  <2> HIDE DEF e
  <2>2. IsBreak(file, from, e, e)
    BY <2>1 DEF IsBreak
  <2> QED
    BY <2>2 DEF e
<1>3. Here' = At'
  BY <1>1, <1>2, BreakUnique DEF Here
<1>4. \A i \in Here + 1 .. At' - 1 : file[i] # Newline
  <2>1. /\ At \in Nat /\ Here \in Nat
        /\ \A i \in Here + 1 .. At : file[i] # Newline
        /\ \A i \in At + 1 .. At' - 1 : file[i] # Newline
    BY AtFacts, HereFacts DEF ReaderInv, IsNext
  <2>2. SUFFICES ASSUME NEW i \in Here + 1 .. At' - 1 PROVE file[i] # Newline
    OBVIOUS
  <2> DEFINE e == At'
  <2>3. i \in Here + 1 .. e - 1 /\ e \in Nat
    BY <1>1
  <2> HIDE DEF e
  <2>4. i \in Here + 1 .. At \/ i \in At + 1 .. e - 1
    BY <2>1, <2>3
  <2> QED
    BY <2>1, <2>4 DEF e
<1> QED
  BY <1>1, <1>3, <1>4

LEMMA KeepRestMove ==
  ASSUME ReaderInv, KeepRest
  PROVE  /\ ReaderInv' /\ At' \in Nat /\ At < At' /\ Here' = Here
         /\ current_line' # None
         /\ UNCHANGED <<file, from, to, pass, read_size, lines>>
         /\ \A i \in At + 1 .. At' : file[i] # Newline
<1>1. /\ pos < Len(buf) /\ Newlines = {} /\ current_line' = Grown(Len(buf)) /\ pos' = Len(buf)
      /\ UNCHANGED <<file, from, to, pass, buf, read_size, skip, lines>>
  BY DEF KeepRest
<1>2. /\ Len(buf) \in Nat /\ pos \in Nat /\ At \in Nat /\ Here \in Nat /\ from \in Nat /\ Here <= At
      /\ from <= Here /\ Len(file) \in Nat /\ file \in Seq(Bytes)
      /\ Here = from \/ file[Here] = Newline
  BY AtFacts, HereFacts DEF ReaderInv, FileInv, BufferInv
<1>3. Len(buf) \in pos .. Len(buf)
  BY <1>1, <1>2
<1>4. FileInv' /\ BufferInv' /\ At' = At + (Len(buf) - pos)
  BY <1>1, <1>3, Moved
<1>5. \A i \in At + 1 .. At' : file[i] # Newline
  <2>1. \A i \in pos + 1 .. Len(buf) : buf[i] # Newline
    BY <1>1 DEF Newlines
  <2> QED
    BY <1>3, <1>4, <2>1, NoNewline DEF ReaderInv
<1>6. At' \in Nat /\ At < At'
  BY <1>1, <1>2, <1>4
<1>7. Here' = Here
  <2>1. \A i \in Here + 1 .. At' : i \in Here + 1 .. At \/ i \in At + 1 .. At'
    BY <1>2, <1>6
  <2>2. \A i \in Here + 1 .. At' : file[i] # Newline
    BY <1>5, <2>1, HereFacts DEF ReaderInv
  <2>3. IsBreak(file, from, At', Here)
    BY <1>2, <1>6, <2>2 DEF IsBreak
  <2>4. from <= At'
    BY <1>2, <1>6
  <2>5. Break(file, from, At') = Here
    BY <1>2, <1>6, <2>3, <2>4, BreakUnique
  <2> QED
    BY <1>1, <2>5 DEF Here
<1>8. current_line' = SubSeq(file, Here + 1, At')
  BY <1>1, <1>3, <1>4, GrownIs
<1>9. current_line' # None
  <2>1. At' <= Len(file)
    <3>1. At' = from + read_size - Len(buf) + pos'
      BY <1>1 DEF At
    <3> QED
      BY <1>1, <1>2, <3>1 DEF ReaderInv, FileInv, BufferInv
  <2>2. \A i \in Here + 1 .. At' : file[i] \in Bytes
    BY <1>2, <1>6, <2>1
  <2>3. current_line' \in Seq(Bytes)
    BY <1>2, <1>6, <1>8, <2>2, SubSeqProperties
  <2> QED
    BY <2>3, SorerAssumption
<1>10. LineInv'
  <2>1. skip' \in BOOLEAN /\ (skip' <=> from' # 0 /\ Here' = from')
    BY <1>1, <1>7 DEF ReaderInv, LineInv
  <2>2. Here' # At'
    BY <1>2, <1>6, <1>7
  <2> QED
    BY <1>1, <1>7, <1>8, <1>9, <2>1, <2>2 DEF LineInv
<1> QED
  BY <1>1, <1>4, <1>5, <1>6, <1>7, <1>9, <1>10 DEF ReaderInv

\* The next newline is reached, by the ways to do it.
LEMMA ReachedNext ==
  ASSUME ReaderInv, Newlines # {}, pos' = Min(Newlines),
         UNCHANGED <<file, from, to, buf, read_size>>
  PROVE  /\ FileInv' /\ BufferInv' /\ IsNext(At') /\ At' \in Nat /\ from < At'
         /\ Here' = At'
         /\ pos < Len(buf) /\ pos' \in pos + 1 .. Len(buf) /\ At' = At + (pos' - pos)
         /\ \A i \in Here + 1 .. At' - 1 : file[i] # Newline
<1> DEFINE n == Min(Newlines)
<1>1. n \in pos + 1 .. Len(buf) /\ IsNext(At + (n - pos))
  BY NextNewline DEF ReaderInv
<1> HIDE DEF n
<1>2. Len(buf) \in Nat /\ pos \in Nat
  BY DEF ReaderInv, BufferInv
<1>3. n \in pos .. Len(buf) /\ pos < Len(buf) /\ pos' = n
  BY <1>1, <1>2 DEF n
<1>4. FileInv' /\ BufferInv' /\ At' = At + (n - pos)
  BY <1>3, Moved
<1>5. IsNext(At')
  BY <1>1, <1>4
<1>6. Here' = At' /\ from < At' /\ \A i \in Here + 1 .. At' - 1 : file[i] # Newline
  BY <1>4, <1>5, MovedToNext
<1>7. At' \in Nat
  BY <1>5 DEF IsNext
<1> QED
  BY <1>1, <1>3, <1>4, <1>5, <1>6, <1>7

LEMMA SkipLineMove ==
  ASSUME ReaderInv, SkipLine
  PROVE  /\ ReaderInv' /\ IsNext(At') /\ Here' = At' /\ Here = from /\ from # 0
         /\ \A i \in from + 1 .. At' - 1 : file[i] # Newline
         /\ UNCHANGED <<file, from, to, pass, read_size, lines>>
<1>1. /\ skip /\ Newlines # {} /\ pos' = Min(Newlines) /\ skip' = FALSE
      /\ current_line' = (IF pos' = Len(buf) THEN <<>> ELSE None)
      /\ UNCHANGED <<file, from, to, pass, buf, read_size, lines>>
  BY DEF SkipLine
<1>2. Here = from /\ from # 0
  BY <1>1 DEF ReaderInv, LineInv
<1>3. /\ FileInv' /\ BufferInv' /\ IsNext(At') /\ Here' = At' /\ At' \in Nat /\ from < At'
      /\ \A i \in Here + 1 .. At' - 1 : file[i] # Newline
  BY <1>1, ReachedNext
<1> DEFINE e == At'
<1>4. e \in Nat /\ e # from /\ Here' = e /\ SubSeq(file, Here' + 1, e) = <<>>
  <2>1. e \in Nat /\ e # from /\ Here' = e
    <3>1. from \in Nat
      BY DEF ReaderInv, FileInv
    <3> QED
      BY <1>3, <3>1
  <2> HIDE DEF e
  <2>2. e + 1 \in Int /\ e \in Int /\ e < e + 1
    BY <2>1
  <2>3. SubSeq(file, e + 1, e) = <<>>
    BY <2>2, SubSeqEmpty
  <2> QED
    BY <2>1, <2>3
<1> HIDE DEF e
<1>5. LineInv'
  <2>1. skip' \in BOOLEAN /\ (skip' <=> from' # 0 /\ Here' = from')
    BY <1>1, <1>4
  <2>2. current_line' = None => Here' = At'
    BY <1>3
  <2>3. current_line' # None => current_line' = SubSeq(file', Here' + 1, At')
    BY <1>1, <1>4 DEF e
  <2>4. from' # 0 /\ At' > from' /\ \A i \in from' + 1 .. At' - 1 : file'[i] # Newline
    BY <1>1, <1>2, <1>3
  <2> QED
    BY <2>1, <2>2, <2>3, <2>4 DEF LineInv
<1> QED
  BY <1>1, <1>2, <1>3, <1>5 DEF ReaderInv

LEMMA TakeLineMove ==
  ASSUME ReaderInv, TakeLine
  PROVE  /\ ReaderInv' /\ IsNext(At') /\ Here' = At' /\ current_line' = None
         /\ pos < Len(buf)
         /\ from = 0 \/ Here # from
         /\ Grown(Min(Newlines) - 1) = LineTo(file, from, At')
         /\ UNCHANGED <<file, from, to, read_size>>
<1>1. /\ ~skip /\ Newlines # {} /\ pos' = Min(Newlines) /\ current_line' = None
      /\ UNCHANGED <<file, from, to, buf, read_size, skip>>
  BY DEF TakeLine
<1>2. /\ FileInv' /\ BufferInv' /\ IsNext(At') /\ Here' = At' /\ At' \in Nat /\ from < At'
      /\ pos < Len(buf) /\ pos' \in pos + 1 .. Len(buf) /\ At' = At + (pos' - pos)
      /\ \A i \in Here + 1 .. At' - 1 : file[i] # Newline
  BY <1>1, ReachedNext
<1>3. from = 0 \/ Here # from
  BY <1>1 DEF ReaderInv, LineInv
<1>4. /\ Len(buf) \in Nat /\ pos \in Nat /\ At \in Nat /\ Here \in Nat /\ from \in Nat /\ Here <= At
      /\ from <= Here /\ (Here = from \/ file[Here] = Newline)
  BY AtFacts, HereFacts DEF ReaderInv, FileInv, BufferInv
<1> DEFINE n == pos' - 1
           e == At'
<1>5. n \in pos .. Len(buf) /\ e = At + (n - pos) + 1
  <2>1. e = At + (pos' - pos) /\ pos' \in pos + 1 .. Len(buf)
    BY <1>2
  <2> DEFINE q == pos'
  <2>2. e = At + (q - pos) /\ q \in pos + 1 .. Len(buf) /\ n = q - 1
    BY <2>1
  <2>3. Len(buf) \in Nat /\ pos \in Nat /\ At \in Nat
    BY <1>4
  <2> HIDE DEF e, q, n
  <2> QED
    BY <2>2, <2>3
<1>6. e \in Nat /\ from < e /\ \A i \in Here + 1 .. e - 1 : file[i] # Newline
  BY <1>2
<1>7. Grown(Min(Newlines) - 1) = Grown(n)
  BY <1>1
<1> HIDE DEF n, e
<1>8. At + (n - pos) = e - 1 /\ e - 1 \in Nat /\ Here <= e - 1 /\ from <= e - 1
  BY <1>4, <1>5, <1>6
<1>9. Grown(n) = SubSeq(file, Here + 1, e - 1)
  BY <1>2, <1>5, <1>8, GrownIs
<1>10. Break(file, from, e - 1) = Here
  <2>1. IsBreak(file, from, e - 1, Here)
    BY <1>4, <1>6, <1>8 DEF IsBreak
  <2> QED
    BY <1>4, <1>8, <2>1, BreakUnique
<1>11. Grown(n) = LineTo(file, from, e)
  BY <1>9, <1>10 DEF LineTo
<1>12. LineInv'
  <2>1. skip' \in BOOLEAN /\ (skip' <=> from' # 0 /\ Here' = from')
    BY <1>1, <1>2, <1>4 DEF ReaderInv, LineInv
  <2> QED
    BY <1>1, <1>2, <2>1 DEF LineInv
<1> QED
  BY <1>1, <1>2, <1>3, <1>7, <1>11, <1>12 DEF ReaderInv, e

LEMMA TakeRestMove ==
  ASSUME ReaderInv, TakeRest
  PROVE  /\ ReaderInv' /\ At' = At /\ Here' = Here /\ Over' /\ current_line' = None
         /\ Over /\ to = Len(file) /\ current_line # None
         /\ current_line = SubSeq(file, Here + 1, At)
         /\ UNCHANGED <<file, from, to, read_size>>
<1>1. /\ Over /\ to = Len(file) /\ current_line # None /\ current_line' = None
      /\ UNCHANGED <<file, from, to, buf, pos, read_size, skip>>
  BY DEF TakeRest
<1>2. At' = At /\ Here' = Here /\ (Over' <=> Over)
  BY <1>1 DEF At, Here, Over
<1>3. FileInv' /\ BufferInv'
  BY <1>1 DEF ReaderInv, FileInv, BufferInv
<1>4. LineInv'
  BY <1>1, <1>2 DEF ReaderInv, LineInv
<1> QED
  BY <1>1, <1>2, <1>3, <1>4 DEF ReaderInv, LineInv

\* The reader at the beginning of its part.
AtStart ==
  /\ buf = <<>> /\ pos = 0 /\ read_size = 0 /\ current_line = None
  /\ skip = (from # 0) /\ lines = <<>>

LEMMA StartReader ==
  ASSUME FileInv, AtStart
  PROVE  ReaderInv /\ At = from /\ Here = from
<1>1. from \in Nat /\ Len(file) \in Nat /\ from <= Len(file)
  BY DEF FileInv
<1>2. Len(buf) = 0 /\ buf \in Seq(Bytes) /\ Buf \in Nat
  BY SorerAssumption DEF AtStart
<1>3. At = from
  BY <1>1, <1>2 DEF At, AtStart
<1>4. BufferInv
  BY <1>1, <1>2 DEF BufferInv, AtStart
<1>5. Here = from
  <2>1. from <= Here /\ Here <= At /\ Here \in Nat
    BY <1>4, HereFacts
  <2> QED
    BY <1>1, <1>3, <2>1
<1>6. LineInv
  BY <1>3, <1>5 DEF LineInv, AtStart
<1> QED
  BY <1>3, <1>4, <1>5, <1>6 DEF ReaderInv

LEMMA ResetReader ==
  ASSUME FileInv, Reset, UNCHANGED <<file, from, to>>
  PROVE  ReaderInv' /\ At' = from /\ Here' = from /\ AtStart'
<1>1. FileInv'
  BY DEF FileInv
<1>2. AtStart'
  BY DEF Reset, AtStart
<1>3. from \in Nat /\ Len(file) \in Nat /\ from <= Len(file)
  BY DEF FileInv
<1>4. /\ Len(buf') = 0 /\ buf' \in Seq(Bytes) /\ Buf \in Nat /\ pos' = 0 /\ read_size' = 0
      /\ current_line' = None /\ skip' = (from # 0)
  BY SorerAssumption DEF Reset
<1>5. At' = from
  BY <1>3, <1>4 DEF At
<1>6. BufferInv'
  BY <1>3, <1>4 DEF BufferInv
<1>7. Here' = from
  <2>1. IsBreak(file, from, from, from)
    BY <1>3 DEF IsBreak
  <2>2. Break(file, from, from) = from
    BY <1>3, <2>1, BreakUnique
  <2> QED
    BY <1>5, <2>2 DEF Here
<1>8. LineInv'
  BY <1>4, <1>5, <1>7 DEF LineInv
<1> QED
  BY <1>1, <1>2, <1>5, <1>6, <1>7, <1>8 DEF ReaderInv

\* A step that leaves the reader alone.
LEMMA ReaderKept ==
  ASSUME ReaderInv, UNCHANGED <<file, from, to, reader>>
  PROVE  ReaderInv' /\ At' = At /\ Here' = Here /\ (Over' <=> Over)
<1>1. At' = At /\ Here' = Here /\ (Over' <=> Over)
  BY DEF At, Here, Over, reader
<1>2. FileInv' /\ BufferInv'
  BY DEF ReaderInv, FileInv, BufferInv, reader
<1>3. LineInv'
  BY <1>1 DEF ReaderInv, LineInv, reader
<1> QED
  BY <1>1, <1>2, <1>3 DEF ReaderInv

LEMMA FileKept == [Next]_vars => UNCHANGED <<file, from, to>>
BY DEF Next, Refill, KeepRest, SkipLine, TakeLine, TakeRest, EndCount, EndGuess, EndParse,
       PassOver, Stop, vars

-----------------------------------------------------------------------------
(* The lines handed out.                                                   *)

LEMMA EndsFacts ==
  ASSUME FileInv
  PROVE  /\ W \subseteq Ends(file, from, to) /\ Ends(file, from, to) \subseteq from + 1 .. to + 1
         /\ \A e \in from + 1 .. to : e \in Ends(file, from, to) <=> file[e] = Newline
         /\ to + 1 \in Ends(file, from, to) <=> to = Len(file) /\ file[to] # Newline
<1>1. from \in Nat /\ to \in Nat /\ from < to
  BY DEF FileInv
<1>2. W \subseteq Ends(file, from, to)
  BY DEF W, Whole
<1>3. Ends(file, from, to) \subseteq from + 1 .. to + 1
  BY DEF Ends
<1>4. \A e \in from + 1 .. to : e \in from + 1 .. to + 1 /\ e <= to
  BY <1>1
<1>5. \A e \in from + 1 .. to : e \in Ends(file, from, to) <=> file[e] = Newline
  BY <1>4 DEF Ends
<1>6. to + 1 \in from + 1 .. to + 1 /\ ~(to + 1 <= to)
  BY <1>1
<1>7. to + 1 \in Ends(file, from, to) <=> to = Len(file) /\ file[to] # Newline
  BY <1>6 DEF Ends
<1> QED
  BY <1>2, <1>3, <1>5, <1>7

LEMMA WFacts ==
  ASSUME FileInv
  PROVE  /\ IsFiniteSet(W) /\ W \subseteq Nat
         /\ \A e \in W : from < e /\ e <= to + 1 /\ (e <= to => file[e] = Newline)
<1>1. from \in Nat /\ to \in Nat
  BY DEF FileInv
<1>2. \A e \in W : e \in from + 1 .. to + 1 /\ e \in Ends(file, from, to)
  BY EndsFacts
<1>3. \A e \in W : e \in Nat /\ from < e /\ e <= to + 1
  BY <1>1, <1>2
<1>4. IsFiniteSet(W)
  <2>1. W \in SUBSET Nat /\ to + 1 \in Nat
    BY <1>1, <1>3
  <2> QED
    BY <1>3, <2>1, FS_BoundedSetOfNaturals
<1>5. \A e \in W : e <= to => file[e] = Newline
  <2>1. SUFFICES ASSUME NEW e \in W, e <= to PROVE file[e] = Newline
    OBVIOUS
  <2>2. e \in from + 1 .. to
    BY <1>1, <1>3, <2>1
  <2> QED
    BY <1>2, <2>2, EndsFacts
<1> QED
  BY <1>3, <1>4, <1>5

LEMMA WUpTo ==
  ASSUME FileInv, NEW p \in Nat
  PROVE  IsFiniteSet(UpTo(W, p)) /\ UpTo(W, p) \subseteq Nat /\ \A d \in UpTo(W, p) : d <= p
<1>1. IsFiniteSet(W) /\ W \subseteq Nat
  BY WFacts
<1>2. UpTo(W, p) \in SUBSET W
  BY DEF UpTo
<1>3. IsFiniteSet(UpTo(W, p))
  BY <1>1, <1>2, FS_Subset
<1> QED
  BY <1>1, <1>2, <1>3 DEF UpTo

\* No line ends where there is no newline, ...
LEMMA NoneEnds ==
  ASSUME FileInv, NEW p \in Nat, NEW q \in Nat, p <= q, q <= to,
         \A i \in p + 1 .. q : file[i] # Newline
  PROVE  UpTo(W, q) = UpTo(W, p)
<1>1. ASSUME NEW e \in W, e <= q
      PROVE  e <= p
  <2>1. e \in Nat /\ to \in Nat /\ (e <= to => file[e] = Newline)
    BY WFacts DEF FileInv
  <2>2. file[e] = Newline
    BY <1>1, <2>1
  <2>3. e \notin p + 1 .. q
    BY <2>2
  <2> QED
    BY <1>1, <2>1, <2>3
<1>2. \A e \in W : e <= p => e <= q
  BY WFacts
<1> QED
  BY <1>1, <1>2 DEF UpTo

\* ... the line to the next newline is the next one, ...
LEMMA NextEnds ==
  ASSUME ReaderInv, NEW e \in Nat, IsNext(e), e <= to, from = 0 \/ Here # from
  PROVE  UpTo(W, e) = UpTo(W, At) \cup {e}
<1>1. /\ from \in Nat /\ to \in Nat /\ from < to /\ At \in Nat /\ from <= At /\ At < e /\ file[e] = Newline
      /\ Here \in Nat /\ from <= Here /\ Here <= At /\ (Here = from \/ file[Here] = Newline)
      /\ \A i \in At + 1 .. e - 1 : file[i] # Newline
  BY AtFacts, HereFacts DEF ReaderInv, FileInv, IsNext
<1>2. e \in from + 1 .. to
  BY <1>1
<1>3. e \in Ends(file, from, to)
  BY <1>1, <1>2, EndsFacts DEF ReaderInv
<1>4. e \in W
  <2>1. CASE from = 0
    BY <1>3, <2>1 DEF W, Whole
  <2>2. CASE Here # from
    <3>1. Here \in from + 1 .. to /\ file[Here] = Newline /\ Here < e
      BY <1>1, <2>2
    <3>2. Here \in Ends(file, from, to)
      BY <3>1, EndsFacts DEF ReaderInv
    <3> QED
      BY <1>3, <3>1, <3>2 DEF W, Whole
  <2> QED
    BY <2>1, <2>2
<1>5. PICK q \in Nat : e = q + 1
  BY <1>1
<1>6. UpTo(W, q) = UpTo(W, At)
  <2>1. At <= q /\ q <= to /\ \A i \in At + 1 .. q : file[i] # Newline
    BY <1>1, <1>5
  <2> QED
    BY <1>1, <2>1, NoneEnds DEF ReaderInv
<1>7. UpTo(W, e) = UpTo(W, q) \cup {e}
  <2>1. \A d \in W : d \in Nat
    BY WFacts DEF ReaderInv
  <2>2. \A d \in W : d <= e <=> d <= q \/ d = e
    BY <1>5, <2>1
  <2> QED
    BY <1>4, <2>2 DEF UpTo
<1> QED
  BY <1>6, <1>7

\* ... and the skipped line is none.
LEMMA SkippedEnds ==
  ASSUME ReaderInv, NEW e \in Nat, IsNext(e), e <= to, from # 0, Here = from,
         \A i \in from + 1 .. e - 1 : file[i] # Newline
  PROVE  UpTo(W, e) = UpTo(W, At)
<1>1. from \in Nat /\ to \in Nat /\ At \in Nat /\ from <= At /\ At < e
  BY AtFacts DEF ReaderInv, FileInv, IsNext
<1>2. ASSUME NEW d \in W
      PROVE  ~(d <= e)
  <2>1. PICK c \in Ends(file, from, to) : c < d
    BY DEF W, Whole
  <2>2. c \in from + 1 .. to + 1 /\ c \in Nat /\ d \in Nat /\ d <= to + 1
    BY <1>1, WFacts, EndsFacts DEF ReaderInv
  <2>3. c \in from + 1 .. to
    BY <1>1, <2>1, <2>2
  <2>4. file[c] = Newline
    BY <2>1, <2>3, EndsFacts DEF ReaderInv
  <2>5. c \notin from + 1 .. e - 1
    BY <2>4
  <2> QED
    BY <1>1, <2>1, <2>2, <2>3, <2>5
<1>3. \A d \in W : ~(d <= At)
  BY <1>1, <1>2, WFacts DEF ReaderInv
<1> QED
  BY <1>2, <1>3 DEF UpTo

\* What follows the last newline of the file is its last line.
LEMMA RestEnds ==
  ASSUME ReaderInv, At = to, to = Len(file), Readable(file, from, to),
         current_line # None
  PROVE  /\ W = UpTo(W, At) \cup {to + 1}
         /\ LineTo(file, from, to + 1) = current_line
<1>1. /\ from \in Nat /\ to \in Nat /\ from < to
      /\ Here \in Nat /\ from <= Here /\ Here <= At /\ (Here = from \/ file[Here] = Newline)
      /\ \A i \in Here + 1 .. At : file[i] # Newline
  BY HereFacts DEF ReaderInv, FileInv
<1>2. from = 0 \/ \E i \in from + 1 .. to - 1 : file[i] = Newline
  BY DEF Readable
<1>3. Here # At
  <2>1. SUFFICES ASSUME Here = At PROVE FALSE
    OBVIOUS
  <2>2. from # 0 /\ \A i \in from + 1 .. At - 1 : file[i] # Newline
    BY <2>1 DEF ReaderInv, LineInv
  <2> QED
    BY <1>2, <2>2
<1>4. file[to] # Newline
  <2>1. to \in Here + 1 .. At
    BY <1>1, <1>3
  <2> QED
    BY <1>1, <2>1
<1>5. to + 1 \in Ends(file, from, to)
  BY <1>4, EndsFacts DEF ReaderInv
<1>6. to + 1 \in W
  <2>1. CASE from = 0
    BY <1>5, <2>1 DEF W, Whole
  <2>2. CASE from # 0
    <3>1. PICK i \in from + 1 .. to - 1 : file[i] = Newline
      BY <1>2, <2>2
    <3>2. i \in from + 1 .. to /\ i < to + 1
      BY <1>1
    <3>3. i \in Ends(file, from, to)
      BY <3>1, <3>2, EndsFacts DEF ReaderInv
    <3> QED
      BY <1>5, <3>2, <3>3 DEF W, Whole
  <2> QED
    BY <2>1, <2>2
<1>7. W = UpTo(W, At) \cup {to + 1}
  <2>1. \A d \in W : d \in Nat /\ d <= to + 1
    BY WFacts DEF ReaderInv
  <2>2. \A d \in W : d <= At \/ d = to + 1
    BY <1>1, <2>1
  <2> QED
    BY <1>6, <2>2 DEF UpTo
<1>8. LineTo(file, from, to + 1) = SubSeq(file, Break(file, from, to) + 1, to)
  <2>1. (to + 1) - 1 = to
    BY <1>1
  <2> QED
    BY <2>1 DEF LineTo
<1>9. Break(file, from, to) = Here
  BY DEF Here
<1> QED
  BY <1>7, <1>8, <1>9 DEF ReaderInv, LineInv

\* With a readable part the reader stays in it.
LEMMA InPart ==
  ASSUME ReaderInv, HandedInv
  PROVE  from + read_size <= to /\ At <= to /\ (Over => At = to)
<1>1. /\ from \in Nat /\ to \in Nat /\ read_size \in Nat /\ from < to /\ At \in Nat
      /\ At <= from + read_size /\ from + read_size <= Len(file) /\ Len(file) \in Nat
      /\ At = from + read_size <=> pos = Len(buf)
      /\ to = Len(file) \/ read_size \in {0, to - from}
  BY AtFacts DEF ReaderInv, FileInv, HandedInv
<1>2. from + read_size <= to
  BY <1>1
<1>3. Over => At = from + read_size /\ read_size >= to - from
  BY <1>1 DEF Over
<1> QED
  BY <1>1, <1>2, <1>3

\* The lines up to where the reader is, but for those it handed out at the end.
Partly == /\ lines = LinesTo(file, from, UpTo(W, At))
          /\ current_line = None => Here = At
Wholly == /\ lines = LinesOf(file, from, to)
          /\ Over /\ to = Len(file) /\ current_line = None

LEMMA HandedCases == HandedInv => Partly \/ Wholly
BY DEF HandedInv, Partly, Wholly

\* What a read takes from a part that fits in a buffer is all of it.
LEMMA RefillPart ==
  ASSUME ReaderInv, HandedInv, Refill
  PROVE  to = Len(file) \/ read_size' = to - from
<1>1. SUFFICES ASSUME to # Len(file) PROVE read_size' = to - from
  OBVIOUS
<1>2. /\ read_size' = read_size + Len(buf') /\ ~Over /\ pos = Len(buf)
      /\ Len(buf') = Min({from + read_size + (IF from + Buf > to THEN to - from ELSE Buf), Len(file)})
                       - (from + read_size)
  BY RefillRead
<1>3. from \in Nat /\ to \in Nat /\ read_size \in Nat /\ from < to /\ to <= Len(file) /\ Len(file) \in Nat
      /\ Buf \in Nat
  BY SorerAssumption DEF ReaderInv, FileInv, BufferInv
<1>4. to - from <= Buf /\ read_size \in {0, to - from}
  BY <1>1 DEF HandedInv, Readable
<1>5. read_size = 0
  BY <1>2, <1>4, <1>3 DEF Over
<1>6. from + read_size + (IF from + Buf > to THEN to - from ELSE Buf) = to
  BY <1>3, <1>4, <1>5
<1>7. Min({to, Len(file)}) = to
  BY <1>3, MinOfTwo
<1>8. Len(buf') = to - (from + read_size)
  BY <1>2, <1>6, <1>7
<1> QED
  BY <1>2, <1>3, <1>5, <1>8

LEMMA RefillHanded ==
  ASSUME ReaderInv, HandedInv, Refill
  PROVE  HandedInv'
<1>1. /\ At' = At /\ ~Over /\ current_line' = current_line /\ lines' = lines /\ pass' = pass
      /\ file' = file /\ from' = from /\ to' = to
  BY RefillRead
<1>2. Here' = Here /\ W' = W
  BY <1>1 DEF Here, W
<1>3. Partly
  BY <1>1, HandedCases DEF Wholly
<1>4. lines' = LinesTo(file', from', UpTo(W', At')) /\ (current_line' = None => Here' = At')
  BY <1>1, <1>2, <1>3 DEF Partly
<1>5. to' = Len(file') \/ read_size' \in {0, to' - from'}
  BY <1>1, RefillPart
<1> QED
  BY <1>1, <1>4, <1>5 DEF HandedInv

\* The reader is elsewhere in its buffer, with as many lines.
LEMMA HandedMoved ==
  ASSUME ReaderInv, HandedInv, pos < Len(buf) \/ ~Over,
         UNCHANGED <<file, from, to, pass, read_size, lines>>,
         UpTo(W, At') = UpTo(W, At),
         current_line' = None => Here' = At'
  PROVE  HandedInv'
<1>1. ~Over
  <2>1. Len(buf) \in Nat /\ pos \in Nat
    BY DEF ReaderInv, BufferInv
  <2> QED
    BY <2>1 DEF Over
<1>2. Partly
  BY <1>1, HandedCases DEF Wholly
<1>3. W' = W
  BY DEF W
<1>4. lines' = LinesTo(file', from', UpTo(W', At'))
  BY <1>2, <1>3 DEF Partly
<1> QED
  BY <1>4 DEF HandedInv

LEMMA KeepRestHanded ==
  ASSUME ReaderInv, HandedInv, KeepRest
  PROVE  HandedInv'
<1>1. /\ ReaderInv' /\ At' \in Nat /\ At < At' /\ current_line' # None
      /\ UNCHANGED <<file, from, to, pass, read_size, lines>>
      /\ \A i \in At + 1 .. At' : file[i] # Newline
      /\ pos < Len(buf)
  BY KeepRestMove DEF KeepRest
<1>2. At' <= to
  <2>1. from + read_size <= to
    BY InPart
  <2>2. At' <= from + read_size
    <3>1. Len(buf') \in Nat /\ pos' \in 0 .. Len(buf') /\ from \in Nat /\ read_size \in Nat
      BY <1>1 DEF ReaderInv, FileInv, BufferInv
    <3> QED
      BY <1>1, <3>1 DEF At
  <2>3. from + read_size \in Nat /\ to \in Nat
    BY DEF ReaderInv, FileInv, BufferInv
  <2> QED
    BY <1>1, <2>1, <2>2, <2>3
<1>3. At \in Nat /\ At <= At'
  BY <1>1, AtFacts DEF ReaderInv
<1>4. UpTo(W, At') = UpTo(W, At)
  BY <1>1, <1>2, <1>3, NoneEnds DEF ReaderInv
<1> QED
  BY <1>1, <1>4, HandedMoved

LEMMA NextInPart ==
  ASSUME ReaderInv, HandedInv, NEW e, IsNext(e)
  PROVE  e \in Nat /\ e <= to
<1>1. e \in Nat /\ e <= from + read_size /\ from + read_size <= to
  BY InPart DEF IsNext
<1>2. from + read_size \in Nat /\ to \in Nat
  BY DEF ReaderInv, FileInv, BufferInv
<1> QED
  BY <1>1, <1>2

LEMMA SkipLineHanded ==
  ASSUME ReaderInv, HandedInv, SkipLine
  PROVE  HandedInv'
<1>1. /\ IsNext(At') /\ Here' = At' /\ Here = from /\ from # 0
      /\ \A i \in from + 1 .. At' - 1 : file[i] # Newline
      /\ UNCHANGED <<file, from, to, pass, read_size, lines>>
  BY SkipLineMove
<1>2. At' \in Nat /\ At' <= to
  BY <1>1, NextInPart
<1>3. UpTo(W, At') = UpTo(W, At)
  BY <1>1, <1>2, SkippedEnds
<1>4. pos < Len(buf)
  BY ReachedNext DEF SkipLine
<1> QED
  BY <1>1, <1>3, <1>4, HandedMoved

\* A line is handed out, in any pass.
LEMMA LineHanded ==
  ASSUME ReaderInv, HandedInv, NEW p \in Nat, NEW e \in Nat, p < e, Reading,
         lines = LinesTo(file, from, UpTo(W, p)),
         ScanLine(LineTo(file, from, e))
  PROVE  /\ lines' = LinesTo(file, from, UpTo(W, p) \cup {e})
         /\ pass' \in {"count", "guess"} => Len(lines') <= GuessLines
<1> DEFINE S == UpTo(W, p)
<1>1. IsFiniteSet(S) /\ S \subseteq Nat /\ \A d \in S : d <= p
  BY WUpTo DEF ReaderInv
<1>2. \A d \in S : d < e
  BY <1>1
<1>3. lines' = Append(lines, LineTo(file, from, e)) /\ lines = LinesTo(file, from, S)
      /\ pass' \in {pass, "failed"}
  BY DEF ScanLine, parsed
<1> HIDE DEF S
<1>4. lines' = LinesTo(file, from, S \cup {e})
  <2>1. IsFiniteSet(S) /\ S \subseteq Nat
    BY <1>1
  <2>2. LinesTo(file, from, S \cup {e}) = Append(LinesTo(file, from, S), LineTo(file, from, e))
    BY <1>2, <2>1, LinesAdd
  <2> QED
    BY <1>3, <2>2
<1>5. Len(lines') = Len(lines) + 1 /\ Len(lines) \in Nat
  <2>1. e \notin S
    BY <1>1, <1>2
  <2>2. IsFiniteSet(S \cup {e}) /\ Cardinality(S \cup {e}) = Cardinality(S) + 1
    BY <1>1, <2>1, FS_AddElement
  <2>3. Len(LinesTo(file, from, S)) = Cardinality(S) /\ Cardinality(S) \in Nat
    BY <1>1, LinesLen
  <2>4. Len(LinesTo(file, from, S \cup {e})) = Cardinality(S \cup {e})
    BY <2>2, LinesLen
  <2> QED
    BY <1>3, <1>4, <2>2, <2>3, <2>4
<1>6. pass' \in {"count", "guess"} => Len(lines') <= GuessLines
  <2>1. pass' \in {"count", "guess"} => pass \in {"count", "guess"}
    BY <1>3
  <2>2. pass \in {"count", "guess"} => Len(lines) < GuessLines
    BY DEF Reading
  <2>3. GuessLines \in Nat
    BY SorerAssumption
  <2> QED
    BY <1>5, <2>1, <2>2, <2>3
<1> QED
  BY <1>4, <1>6 DEF S

LEMMA TakeLineHanded ==
  ASSUME ReaderInv, HandedInv, TakeLine
  PROVE  HandedInv'
<1>1. /\ ReaderInv' /\ IsNext(At') /\ Here' = At' /\ current_line' = None
      /\ pos < Len(buf)
      /\ from = 0 \/ Here # from
      /\ Grown(Min(Newlines) - 1) = LineTo(file, from, At')
      /\ UNCHANGED <<file, from, to, read_size>>
  BY TakeLineMove
<1>2. At' \in Nat /\ At' <= to /\ At \in Nat /\ At < At'
  BY <1>1, NextInPart, AtFacts DEF ReaderInv, IsNext
<1>3. Partly
  <2>1. Len(buf) \in Nat /\ pos \in Nat
    BY DEF ReaderInv, BufferInv
  <2> QED
    BY <1>1, <2>1, HandedCases DEF Wholly, Over
<1>4. Reading /\ ScanLine(LineTo(file, from, At'))
  BY <1>1 DEF TakeLine
<1> DEFINE e == At'
<1>5. e \in Nat /\ e <= to /\ At < e /\ IsNext(e) /\ ScanLine(LineTo(file, from, e))
  BY <1>1, <1>2, <1>4
<1> HIDE DEF e
<1>6. /\ lines' = LinesTo(file, from, UpTo(W, At) \cup {e})
      /\ pass' \in {"count", "guess"} => Len(lines') <= GuessLines
  BY <1>2, <1>3, <1>4, <1>5, LineHanded DEF Partly
<1>7. UpTo(W, e) = UpTo(W, At) \cup {e}
  BY <1>1, <1>5, NextEnds
<1>8. W' = W
  BY <1>1 DEF W
<1>9. lines' = LinesTo(file', from', UpTo(W', At'))
  BY <1>1, <1>6, <1>7, <1>8 DEF e
<1> QED
  BY <1>1, <1>6, <1>9 DEF HandedInv

LEMMA TakeRestHanded ==
  ASSUME ReaderInv, HandedInv, TakeRest
  PROVE  HandedInv'
<1>1. /\ At' = At /\ Over' /\ current_line' = None
      /\ Over /\ to = Len(file) /\ current_line # None
      /\ UNCHANGED <<file, from, to, read_size>>
  BY TakeRestMove
<1>2. At = to /\ to \in Nat /\ to + 1 \in Nat /\ to < to + 1 /\ Readable(file, from, to)
  BY <1>1, InPart DEF ReaderInv, FileInv, HandedInv
<1>3. Partly
  BY <1>1, HandedCases DEF Wholly
<1>4. W = UpTo(W, At) \cup {to + 1} /\ LineTo(file, from, to + 1) = current_line
  BY <1>1, <1>2, RestEnds
<1>5. Reading /\ ScanLine(LineTo(file, from, to + 1))
  BY <1>4 DEF TakeRest
<1>6. /\ lines' = LinesTo(file, from, UpTo(W, At) \cup {to + 1})
      /\ pass' \in {"count", "guess"} => Len(lines') <= GuessLines
  BY <1>2, <1>3, <1>5, LineHanded DEF Partly
<1>7. lines' = LinesOf(file', from', to')
  BY <1>1, <1>4, <1>6 DEF LinesOf, W
<1> QED
  BY <1>1, <1>6, <1>7 DEF HandedInv

LEMMA StartHanded ==
  ASSUME ReaderInv, AtStart, At = from, Here = from, Readable(file, from, to)
  PROVE  HandedInv
<1>1. from \in Nat /\ UpTo(W, from) = {}
  <2>1. from \in Nat /\ \A e \in W : e \in Nat /\ from < e
    BY WFacts DEF ReaderInv, FileInv
  <2>2. \A e \in W : ~(e <= from)
    BY <2>1
  <2> QED
    BY <2>1, <2>2 DEF UpTo
<1>2. LinesTo(file, from, {}) = <<>>
  BY FS_EmptySet DEF LinesTo
<1>3. Len(lines) <= GuessLines
  BY SorerAssumption DEF AtStart
<1> QED
  BY <1>1, <1>2, <1>3 DEF HandedInv, AtStart

LEMMA ResetHanded ==
  ASSUME ReaderInv, HandedInv, Reset, UNCHANGED <<file, from, to>>
  PROVE  HandedInv'
<1>1. At' = from /\ Here' = from /\ AtStart'
  BY ResetReader DEF ReaderInv
<1>2. from \in Nat /\ UpTo(W, from) = {}
  <2>1. from \in Nat /\ \A e \in W : e \in Nat /\ from < e
    BY WFacts DEF ReaderInv, FileInv
  <2>2. \A e \in W : ~(e <= from)
    BY <2>1
  <2> QED
    BY <2>1, <2>2 DEF UpTo
<1>3. LinesTo(file, from, {}) = <<>> /\ W' = W
  BY FS_EmptySet DEF LinesTo, W
<1>4. lines' = LinesTo(file', from', UpTo(W', At'))
  BY <1>1, <1>2, <1>3 DEF AtStart
<1>5. Len(lines') <= GuessLines
  BY <1>1, SorerAssumption DEF AtStart
<1> QED
  BY <1>1, <1>4, <1>5 DEF HandedInv, AtStart

LEMMA HandedKept ==
  ASSUME ReaderInv, HandedInv, UNCHANGED <<file, from, to, reader, lines>>,
         pass' \in {pass, "failed", "frame"}
  PROVE  HandedInv'
<1>1. At' = At /\ Here' = Here /\ (Over' <=> Over)
  BY ReaderKept
<1>2. W' = W /\ read_size' = read_size /\ current_line' = current_line
  BY DEF W, reader
<1>3. pass' \in {"count", "guess"} => Len(lines') <= GuessLines
  BY DEF HandedInv
<1> QED
  BY <1>1, <1>2, <1>3 DEF HandedInv

LEMMA HandedPrefix ==
  ASSUME ReaderInv, HandedInv
  PROVE  IsPrefix(lines, LinesOf(file, from, to))
<1>1. IsFiniteSet(W) /\ W \subseteq Nat /\ At \in Nat
  BY WFacts, AtFacts DEF ReaderInv
<1>2. CASE Partly
  <2>1. IsPrefix(LinesTo(file, from, UpTo(W, At)), LinesTo(file, from, W))
    BY <1>1, LinesUpTo
  <2> QED
    BY <1>2, <2>1 DEF Partly, LinesOf, W
<1>3. CASE Wholly
  <2>1. \A s : Len(s) \in Nat => IsPrefix(s, s)
    BY DEF IsPrefix
  <2>2. Len(LinesTo(file, from, W)) \in Nat
    BY <1>1, LinesLen
  <2> QED
    BY <1>3, <2>1, <2>2 DEF Wholly, LinesOf, W
<1> QED
  BY <1>2, <1>3, HandedCases

\* When the reader has no more lines, it has handed out all.
LEMMA OverWhole ==
  ASSUME ReaderInv, HandedInv, Over, to = Len(file) => current_line = None
  PROVE  lines = LinesOf(file, from, to)
<1>1. SUFFICES ASSUME Partly PROVE lines = LinesOf(file, from, to)
  BY HandedCases DEF Wholly
<1>2. At = to /\ from \in Nat /\ to \in Nat /\ from < to
  BY InPart DEF ReaderInv, FileInv
<1>3. to + 1 \notin Ends(file, from, to)
  <2>1. CASE to = Len(file)
    <3>1. Here = to
      BY <1>1, <1>2, <2>1 DEF Partly
    <3>2. file[to] = Newline
      BY <1>2, <3>1, HereFacts DEF ReaderInv
    <3> QED
      BY <3>2, EndsFacts DEF ReaderInv
  <2>2. CASE to # Len(file)
    BY <2>2, EndsFacts DEF ReaderInv
  <2> QED
    BY <2>1, <2>2
<1>4. \A e \in W : e \in Nat /\ e <= to + 1 /\ e # to + 1
  BY <1>3, WFacts, EndsFacts DEF ReaderInv
<1>5. \A e \in W : e <= to
  BY <1>2, <1>4
<1>6. UpTo(W, At) = W
  BY <1>2, <1>5 DEF UpTo
<1> QED
  BY <1>1, <1>6 DEF Partly, LinesOf, W

LEMMA OverLines ==
  ASSUME ReaderInv, HandedInv, PassOver
  PROVE  Len(lines) = IF pass = "parse" THEN Len(LinesOf(file, from, to))
                      ELSE Min({GuessLines, Len(LinesOf(file, from, to))})
<1> DEFINE n == Len(LinesOf(file, from, to))
<1>1. n \in Nat
  <2>1. IsFiniteSet(W)
    BY WFacts DEF ReaderInv
  <2> QED
    BY <2>1, LinesLen DEF LinesOf, W
<1>2. Len(lines) <= n
  BY HandedPrefix DEF IsPrefix
<1>3. Len(lines) \in Nat
  <2>1. IsFiniteSet(UpTo(W, At)) /\ IsFiniteSet(W)
    BY WFacts, WUpTo, AtFacts DEF ReaderInv
  <2>2. \A S : IsFiniteSet(S) => Len(LinesTo(file, from, S)) \in Nat
    BY LinesLen
  <2> QED
    BY <2>1, <2>2, HandedCases DEF Partly, Wholly, LinesOf, W
<1>4. GuessLines \in Nat
  BY SorerAssumption
<1>5. Min({GuessLines, n}) = IF GuessLines <= n THEN GuessLines ELSE n
  BY <1>1, <1>4, MinOfTwo
<1>6. pass \in {"count", "guess"} => Len(lines) <= GuessLines
  BY DEF HandedInv
<1>7. CASE Reading
  <2>1. lines = LinesOf(file, from, to)
    BY <1>7, OverWhole DEF PassOver
  <2>2. Len(lines) = n
    BY <2>1
  <2>3. pass = "parse" \/ Len(lines) <= GuessLines
    BY <1>7, <1>6 DEF Reading
  <2> HIDE DEF n
  <2>4. Len(lines) = IF pass = "parse" THEN n ELSE Min({GuessLines, n})
    BY <1>1, <1>4, <1>5, <2>2, <2>3
  <2> QED
    BY <2>4 DEF n
<1>8. CASE ~Reading
  <2>1. pass \in {"count", "guess"} /\ ~(Len(lines) < GuessLines)
    BY <1>8 DEF Reading, PassOver
  <2>2. pass # "parse"
    BY <2>1
  <2> HIDE DEF n
  <2>3. Len(lines) = IF pass = "parse" THEN n ELSE Min({GuessLines, n})
    BY <1>1, <1>2, <1>3, <1>4, <1>5, <1>6, <2>1, <2>2
  <2> QED
    BY <2>3 DEF n
<1> QED
  BY <1>7, <1>8

LEMMA ReaderInit ==
  ASSUME Init
  PROVE  FileInv /\ AtStart /\ ReaderInv /\ At = from /\ Here = from
<1>1. PICK s \in Slices(file) : from = s[1] /\ to = s[2]
  BY DEF Init
<1>2. FileInv
  BY <1>1, SorerAssumption DEF FileInv, Init
<1>3. AtStart
  BY DEF AtStart, Init
<1> QED
  BY <1>2, <1>3, StartReader

LEMMA ReaderNext ==
  ASSUME ReaderInv, [Next]_vars
  PROVE  ReaderInv'
<1>1. CASE Refill
  BY <1>1, RefillReader
<1>2. CASE KeepRest
  BY <1>2, KeepRestMove
<1>3. CASE SkipLine
  BY <1>3, SkipLineMove
<1>4. CASE TakeLine
  BY <1>4, TakeLineMove
<1>5. CASE TakeRest
  BY <1>5, TakeRestMove
<1>6. CASE EndCount
  BY <1>6, ReaderKept, ResetReader DEF EndCount, PassOver, ReaderInv
<1>7. CASE EndGuess
  BY <1>7, ResetReader DEF EndGuess, PassOver, ReaderInv
<1>8. CASE EndParse
  BY <1>8, ReaderKept DEF EndParse, PassOver
<1>9. CASE Stop \/ UNCHANGED vars
  BY <1>9, ReaderKept DEF Stop, vars
<1> QED
  BY <1>1, <1>2, <1>3, <1>4, <1>5, <1>6, <1>7, <1>8, <1>9 DEF Next

LEMMA HandedNext ==
  ASSUME ReaderInv, HandedInv, [Next]_vars
  PROVE  HandedInv'
<1>1. CASE Refill
  BY <1>1, RefillHanded
<1>2. CASE KeepRest
  BY <1>2, KeepRestHanded
<1>3. CASE SkipLine
  BY <1>3, SkipLineHanded
<1>4. CASE TakeLine
  BY <1>4, TakeLineHanded
<1>5. CASE TakeRest
  BY <1>5, TakeRestHanded
<1>6. CASE EndCount
  BY <1>6, HandedKept, ResetHanded DEF EndCount, PassOver
<1>7. CASE EndGuess
  BY <1>7, ResetHanded DEF EndGuess, PassOver
<1>8. CASE EndParse
  BY <1>8, HandedKept DEF EndParse, PassOver
<1>9. CASE Stop \/ UNCHANGED vars
  BY <1>9, HandedKept DEF Stop, vars
<1> QED
  BY <1>1, <1>2, <1>3, <1>4, <1>5, <1>6, <1>7, <1>8, <1>9 DEF Next

\* The reader hands out the lines of its part, each once and whole, in each of
\* the three passes, wherever the buffers end (readLine): for files of any
\* length, buffers of any size and all parts that are readable.
THEOREM HandsOutLinesCorrect == Spec /\ Readable(file, from, to) => HandsOutLines
<1> DEFINE Handed ==
             /\ IsPrefix(lines', LinesOf(file, from, to))
             /\ EndCount \/ EndGuess \/ EndParse =>
                  Len(lines) = IF pass = "parse" THEN Len(LinesOf(file, from, to))
                               ELSE Min({GuessLines, Len(LinesOf(file, from, to))})
           RInv == ReaderInv /\ HandedInv
<1>1. Init /\ Readable(file, from, to) => RInv
  BY ReaderInit, StartHanded
<1>2. RInv /\ [Next]_vars => RInv'
  BY ReaderNext, HandedNext
<1>3. RInv => IsPrefix(lines, LinesOf(file, from, to))
  BY HandedPrefix
<1>4. ASSUME RInv, RInv', IsPrefix(lines, LinesOf(file, from, to))', [Next]_vars
      PROVE  [Handed]_vars
  <2>1. EndCount \/ EndGuess \/ EndParse => PassOver
    BY DEF EndCount, EndGuess, EndParse
  <2>2. EndCount \/ EndGuess \/ EndParse =>
          Len(lines) = IF pass = "parse" THEN Len(LinesOf(file, from, to))
                       ELSE Min({GuessLines, Len(LinesOf(file, from, to))})
    BY <1>4, <2>1, OverLines
  <2>3. file' = file /\ from' = from /\ to' = to
    BY <1>4, FileKept
  <2>4. IsPrefix(lines', LinesOf(file, from, to))
    BY <1>4, <2>3
  <2> QED
    BY <2>2, <2>4
<1> QED
  BY <1>1, <1>2, <1>3, <1>4, PTL DEF Spec, HandsOutLines

-----------------------------------------------------------------------------
(* Types.                                                                  *)

LEMMA MaxOfTwo ==
  ASSUME NEW a \in Nat, NEW b \in Nat
  PROVE  Max({a, b}) = IF a <= b THEN b ELSE a
<1> DEFINE T == {a, b}
           n == IF a <= b THEN b ELSE a
<1>1. n \in Nat /\ n \in T /\ T \subseteq Nat /\ T # {} /\ \A m \in T : m <= n
  OBVIOUS
<1> HIDE DEF T
<1>2. Max(T) \in T /\ \A m \in T : m <= Max(T)
  BY <1>1, Greatest
<1> QED
  BY <1>2 DEF T

\* A stretch of a sequence is one of the same elements.
LEMMA Stretch ==
  ASSUME NEW S, NEW s \in Seq(S), NEW a \in Nat, NEW b \in Int, b <= Len(s), a > 0
  PROVE  SubSeq(s, a, b) \in Seq(S)
<1>1. \A i \in a .. b : s[i] \in S
  OBVIOUS
<1> QED
  BY <1>1, SubSeqProperties

LEMMA TrimType ==
  ASSUME NEW s \in Seq(Bytes), NEW c
  PROVE  Trim(s, c) \in Seq(Bytes)
<1> DEFINE kept == {i \in 1 .. Len(s) : s[i] # c}
<1>1. Len(s) \in Nat /\ kept \subseteq Nat /\ \A m \in kept : m >= 1 /\ m <= Len(s)
  OBVIOUS
<1>2. CASE kept = {}
  BY <1>2 DEF Trim
<1>3. CASE kept # {}
  <2> HIDE DEF kept
  <2>1. PICK a : a = Min(kept) /\ a \in kept
    BY <1>1, <1>3, Least
  <2>2. PICK b : b = Max(kept) /\ b \in kept
    BY <1>1, <1>3, Greatest
  <2>3. a \in Nat /\ a > 0 /\ b \in Int /\ b <= Len(s)
    BY <1>1, <2>1, <2>2
  <2>4. SubSeq(s, a, b) \in Seq(Bytes)
    BY <2>3, Stretch
  <2>5. SubSeq(s, Min(kept), Max(kept)) \in Seq(Bytes)
    BY <2>1, <2>2, <2>4
  <2> QED
    BY <1>3, <2>5 DEF Trim, kept
<1> QED
  BY <1>2, <1>3

LEMMA PrefixType ==
  ASSUME NEW s \in Seq(Bytes), NEW cs
  PROVE  Prefix(s, cs) \in Seq(Bytes)
<1>1. ASSUME NEW T, T \subseteq 1 .. Len(s)
      PROVE  SubSeq(s, 1, Max({0} \cup T)) \in Seq(Bytes)
  <2> DEFINE U == {0} \cup T
  <2>1. Len(s) \in Nat /\ U \subseteq Nat /\ U # {} /\ \A m \in U : m <= Len(s)
    BY <1>1
  <2> HIDE DEF U
  <2>2. PICK b : b = Max(U) /\ b \in U
    BY <2>1, Greatest
  <2>3. b \in Int /\ b <= Len(s)
    BY <2>1, <2>2
  <2>4. SubSeq(s, 1, b) \in Seq(Bytes)
    BY <2>3, Stretch
  <2> QED
    BY <2>2, <2>4 DEF U
<1> QED
  BY <1>1 DEF Prefix

LEMMA ValueType ==
  ASSUME NEW t \in Types \ {"UNKNOWN"}, NEW field \in Seq(Bytes)
  PROVE  Appended(t, field) \in Seq(Bytes)
<1>1. Trim(field, Space) \in Seq(Bytes)
  BY TrimType
<1>2. /\ Trim(Trim(field, Space), Quote) \in Seq(Bytes)
      /\ Prefix(Trim(field, Space), DOMAIN Digits \cup {"."}) \in Seq(Bytes)
      /\ Prefix(Trim(field, Space), DOMAIN Digits) \in Seq(Bytes)
  BY <1>1, TrimType, PrefixType
<1>3. t \in {"BOOL", "INTEGER", "DOUBLE", "STRING"}
  BY DEF Types
<1> HIDE DEF Types
<1>4. CASE t = "STRING"
  BY <1>2, <1>4 DEF Appended
<1>5. CASE t = "DOUBLE"
  BY <1>2, <1>5 DEF Appended
<1>6. CASE t = "INTEGER"
  BY <1>2, <1>6 DEF Appended
<1>7. CASE t = "BOOL"
  BY <1>2, <1>7 DEF Appended
<1> QED
  BY <1>3, <1>4, <1>5, <1>6, <1>7

LEMMA GuessType ==
  ASSUME NEW guess \in Types, NEW field
  PROVE  Guess(guess, field) \in Types
BY DEF Guess, Types

LEMMA FieldsType ==
  ASSUME NEW line \in Seq(Bytes)
  PROVE  Fields(line) \in Seq(Seq(Bytes))
<1> DEFINE at == Scanned(line)
           ends == {i \in 1 .. Len(line) : at[i-1] = "in" /\ at[i] = "out"}
           first(e) == Max({0} \cup {i \in 1 .. e : at[i-1] = "out"})
           fields == [k \in 1 .. Cardinality(ends) |->
                        SubSeq(line, first(Nth(ends, k)) + 1, Nth(ends, k) - 1)]
<1>1. Fields(line) = fields
  BY DEF Fields
<1>2. Len(line) \in Nat /\ ends \subseteq Nat /\ \A e \in ends : e >= 1 /\ e <= Len(line)
  OBVIOUS
<1>3. IsFiniteSet(ends) /\ Cardinality(ends) \in Nat
  <2>1. ends \in SUBSET (1 .. Len(line)) /\ IsFiniteSet(1 .. Len(line))
    BY <1>2, FS_Interval
  <2> HIDE DEF ends
  <2> QED
    BY <2>1, FS_Subset, FS_CardinalityType
<1>4. ASSUME NEW e \in ends
      PROVE  SubSeq(line, first(e) + 1, e - 1) \in Seq(Bytes)
  <2> DEFINE T == {0} \cup {i \in 1 .. e : at[i-1] = "out"}
  <2>1. e \in Nat /\ e >= 1 /\ e <= Len(line)
    BY <1>2
  <2>2. T \subseteq Nat /\ T # {} /\ \A m \in T : m <= e
    BY <2>1
  <2> HIDE DEF T
  <2>3. PICK b : b = Max(T) /\ b \in T
    BY <2>1, <2>2, Greatest
  <2>4. b + 1 \in Nat /\ b + 1 > 0 /\ e - 1 \in Int /\ e - 1 <= Len(line)
    BY <1>2, <2>1, <2>2, <2>3
  <2>5. SubSeq(line, b + 1, e - 1) \in Seq(Bytes)
    BY <2>4, Stretch
  <2> QED
    BY <2>3, <2>5 DEF T
<1> HIDE DEF ends, first
<1>5. \A k \in 1 .. Cardinality(ends) : Nth(ends, k) \in ends
  BY <1>2, <1>3, NthIs
<1>6. \A k \in 1 .. Cardinality(ends) : fields[k] \in Seq(Bytes)
  BY <1>4, <1>5
<1>7. fields \in Seq(Seq(Bytes))
  <2>1. fields \in [1 .. Cardinality(ends) -> Seq(Bytes)]
    BY <1>6
  <2> DEFINE n == Cardinality(ends)
             V == Seq(Bytes)
  <2>2. n \in Nat /\ fields \in [1 .. n -> V]
    BY <1>3, <2>1
  <2> HIDE DEF n, V, fields
  <2> QED
    BY <2>2, IsASeq DEF V
<1> QED
  BY <1>1, <1>7 DEF ends, first

LEMMA FieldsLen ==
  ASSUME NEW line \in Seq(Bytes)
  PROVE  Len(Fields(line)) \in Nat
BY FieldsType

\* The line that is handed out.
LEMMA LineType ==
  ASSUME ReaderInv
  PROVE  /\ TakeLine => Grown(Min(Newlines) - 1) \in Seq(Bytes)
         /\ TakeRest => current_line \in Seq(Bytes)
         /\ current_line = None \/ current_line \in Seq(Bytes \ {Newline})
<1>1. /\ At \in Nat /\ Here \in Nat /\ from + read_size \in Nat /\ Len(file) \in Nat
      /\ At <= from + read_size /\ from + read_size <= Len(file)
      /\ file \in Seq(Bytes) /\ \A i \in Here + 1 .. At : file[i] # Newline
  BY AtFacts, HereFacts DEF ReaderInv, FileInv
<1>2. ASSUME TakeLine
      PROVE  Grown(Min(Newlines) - 1) \in Seq(Bytes)
  <2>1. IsNext(At') /\ Grown(Min(Newlines) - 1) = LineTo(file, from, At')
    BY <1>2, TakeLineMove
  <2> DEFINE e == At'
  <2>2. e \in Nat /\ At < e /\ e <= from + read_size
    BY <2>1 DEF IsNext
  <2> HIDE DEF e
  <2>3. e - 1 \in Nat /\ from \in Nat /\ from <= e - 1
    BY <1>1, <2>2, AtFacts DEF ReaderInv
  <2>4. IsBreak(file, from, e - 1, Break(file, from, e - 1))
    BY <2>3, BreakIs
  <2>5. Break(file, from, e - 1) + 1 \in Nat /\ Break(file, from, e - 1) + 1 > 0 /\ e - 1 <= Len(file)
    BY <1>1, <2>2, <2>4 DEF IsBreak
  <2>6. LineTo(file, from, e) \in Seq(Bytes)
    BY <1>1, <2>3, <2>5, Stretch DEF LineTo
  <2> QED
    BY <2>1, <2>6 DEF e
<1>3. ASSUME current_line # None
      PROVE  current_line \in Seq(Bytes \ {Newline})
  <2>1. current_line = SubSeq(file, Here + 1, At)
    BY <1>3 DEF ReaderInv, LineInv
  <2>2. \A i \in Here + 1 .. At : file[i] \in Bytes \ {Newline}
    BY <1>1
  <2>3. SubSeq(file, Here + 1, At) \in Seq(Bytes \ {Newline})
    BY <1>1, <2>2, SubSeqProperties
  <2> QED
    BY <2>1, <2>3
<1>4. TakeRest => current_line \in Seq(Bytes)
  <2>1. TakeRest => current_line # None
    BY DEF TakeRest
  <2>2. Bytes \ {Newline} \subseteq Bytes
    OBVIOUS
  <2> QED
    BY <1>3, <2>1, <2>2, SeqMonotonic
<1> QED
  BY <1>2, <1>3, <1>4

LEMMA ScanParsed ==
  ASSUME ParsedInv, NEW line \in Seq(Bytes), ScanLine(line)
  PROVE  ParsedInv'
<1> DEFINE fields == Fields(line)
<1>1. Len(fields) \in Nat /\ \A c \in 1 .. Len(fields) : fields[c] \in Seq(Bytes)
  BY FieldsType
<1>2. lines' \in Seq(Seq(Bytes))
  BY DEF ScanLine, ParsedInv
<1> HIDE DEF fields
<1>3. CASE pass = "count" /\ num_columns' = Max({num_columns, Len(fields)})
             /\ UNCHANGED <<pass, guesses, columns>>
  <2>1. num_columns' \in Nat
    <3>1. num_columns \in Nat
      BY DEF ParsedInv
    <3>2. Max({num_columns, Len(fields)}) = IF num_columns <= Len(fields) THEN Len(fields) ELSE num_columns
      BY <1>1, <3>1, MaxOfTwo
    <3> QED
      BY <1>1, <1>3, <3>1, <3>2
  <2> QED
    BY <1>2, <1>3, <2>1 DEF ParsedInv
<1>4. CASE pass = "guess" /\ UNCHANGED <<pass, num_columns, columns>>
             /\ guesses' = [c \in 1 .. num_columns |->
                              IF c <= Len(fields) THEN Guess(guesses[c], fields[c]) ELSE guesses[c]]
  <2>1. num_columns \in Nat /\ \A c \in 1 .. num_columns : guesses[c] \in Types
    BY <1>4 DEF ParsedInv
  <2>2. \A c \in 1 .. num_columns : Guess(guesses[c], fields[c]) \in Types
    BY <2>1, GuessType
  <2>3. guesses' \in [1 .. num_columns -> Types]
    BY <1>4, <2>1, <2>2
  <2>4. guesses' \in Seq(Types)
    BY <2>1, <2>3, IsASeq
  <2> QED
    BY <1>2, <1>4, <2>3, <2>4 DEF ParsedInv
<1>5. CASE pass = "parse" /\ UNCHANGED <<pass, num_columns, guesses>>
             /\ columns' = [c \in 1 .. num_columns |->
                              IF c <= Len(fields)
                              THEN Append(columns[c], Appended(guesses[c], fields[c])) ELSE columns[c]]
  <2>1. /\ num_columns \in Nat /\ guesses \in [1 .. num_columns -> Types \ {"UNKNOWN"}]
        /\ \A c \in 1 .. num_columns : columns[c] \in Seq(Seq(Bytes))
    BY <1>5 DEF ParsedInv
  <2>2. ASSUME NEW c \in 1 .. num_columns, c <= Len(fields)
        PROVE  Append(columns[c], Appended(guesses[c], fields[c])) \in Seq(Seq(Bytes))
    <3>1. guesses[c] \in Types \ {"UNKNOWN"} /\ fields[c] \in Seq(Bytes)
      BY <1>1, <2>1, <2>2
    <3>2. Appended(guesses[c], fields[c]) \in Seq(Bytes)
      BY <3>1, ValueType
    <3> QED
      BY <2>1, <3>2
  <2>3. columns' \in [1 .. num_columns -> Seq(Seq(Bytes))]
    BY <1>5, <2>1, <2>2
  <2> QED
    BY <1>2, <1>5, <2>3 DEF ParsedInv
<1>6. CASE pass' = "failed" /\ UNCHANGED parsed
  BY <1>2, <1>6 DEF ParsedInv, parsed
<1> QED
  BY <1>3, <1>4, <1>5, <1>6 DEF ScanLine, fields

LEMMA ParsedKept ==
  ASSUME ParsedInv, UNCHANGED <<pass, lines, parsed>>
  PROVE  ParsedInv'
BY DEF ParsedInv, parsed

LEMMA EndCountParsed ==
  ASSUME ParsedInv, EndCount
  PROVE  ParsedInv'
<1>1. CASE num_columns = 0
  BY <1>1 DEF EndCount, ParsedInv, parsed
<1>2. CASE num_columns # 0
  <2>1. /\ pass' = "guess" /\ guesses' = [c \in 1 .. num_columns |-> "UNKNOWN"]
        /\ lines' = <<>> /\ num_columns' = num_columns /\ num_columns \in Nat
    BY <1>2 DEF EndCount, Reset, ParsedInv
  <2>2. guesses' \in [1 .. num_columns -> Types]
    BY <2>1 DEF Types
  <2>3. guesses' \in Seq(Types)
    BY <2>1, <2>2, IsASeq
  <2>4. /\ lines' \in Seq(Seq(Bytes)) /\ pass' = "guess"
        /\ num_columns' = num_columns /\ num_columns \in Nat
    BY <2>1
  <2> QED
    BY <2>2, <2>3, <2>4 DEF ParsedInv
<1> QED
  BY <1>1, <1>2

LEMMA EndGuessParsed ==
  ASSUME ParsedInv, EndGuess
  PROVE  ParsedInv'
<1>1. /\ pass' = "parse" /\ columns' = [c \in 1 .. num_columns |-> <<>>]
      /\ guesses' = [c \in 1 .. num_columns |-> IF guesses[c] = "UNKNOWN" THEN "BOOL" ELSE guesses[c]]
      /\ lines' = <<>> /\ num_columns' = num_columns /\ num_columns \in Nat
      /\ guesses \in [1 .. num_columns -> Types]
  BY DEF EndGuess, Reset, ParsedInv
<1>2. guesses' \in [1 .. num_columns -> Types \ {"UNKNOWN"}]
  BY <1>1 DEF Types
<1>3. guesses' \in Seq(Types)
  <2>1. guesses' \in [1 .. num_columns -> Types]
    BY <1>2
  <2> QED
    BY <1>1, <2>1, IsASeq
<1>4. columns' \in [1 .. num_columns -> Seq(Seq(Bytes))]
  BY <1>1
<1> QED
  BY <1>1, <1>2, <1>3, <1>4 DEF ParsedInv

LEMMA ParsedInit ==
  ASSUME Init
  PROVE  ParsedInv
BY DEF Init, ParsedInv

LEMMA ParsedNext ==
  ASSUME ReaderInv, ParsedInv, [Next]_vars
  PROVE  ParsedInv'
<1>1. CASE Refill \/ KeepRest \/ SkipLine \/ Stop \/ UNCHANGED vars
  BY <1>1, ParsedKept DEF Refill, KeepRest, SkipLine, Stop, vars
<1>2. CASE TakeLine
  <2>1. Grown(Min(Newlines) - 1) \in Seq(Bytes)
    BY <1>2, LineType
  <2> QED
    BY <1>2, <2>1, ScanParsed DEF TakeLine
<1>3. CASE TakeRest
  <2>1. current_line \in Seq(Bytes)
    BY <1>3, LineType
  <2> QED
    BY <1>3, <2>1, ScanParsed DEF TakeRest
<1>4. CASE EndParse
  BY <1>4 DEF EndParse, ParsedInv, parsed
<1> QED
  BY <1>1, <1>2, <1>3, <1>4, EndCountParsed, EndGuessParsed DEF Next

LEMMA TypesHold ==
  ASSUME ReaderInv, ParsedInv
  PROVE  TypeOK
<1>1. current_line = None \/ current_line \in Seq(Bytes \ {Newline})
  BY LineType
<1>2. pos \in 0 .. Len(buf) /\ Len(buf) <= Buf
  BY DEF ReaderInv, BufferInv
<1>3. read_size <= Len(file) - from
  BY DEF ReaderInv, BufferInv, FileInv
<1>4. pass \in {"parse", "frame"} => \A c \in 1 .. num_columns : columns[c] \in Seq(Seq(Bytes))
  BY DEF ParsedInv
<1>5. pass \in {"count", "guess", "parse", "frame", "failed"}
      /\ num_columns \in Nat /\ guesses \in Seq(Types)
  BY DEF ParsedInv
<1> QED
  BY <1>1, <1>2, <1>3, <1>4, <1>5 DEF TypeOK

LEMMA ParserInv == Spec => [](ReaderInv /\ ParsedInv)
<1>1. Init => ReaderInv /\ ParsedInv
  BY ReaderInit, ParsedInit
<1>2. ReaderInv /\ ParsedInv /\ [Next]_vars => (ReaderInv /\ ParsedInv)'
  BY ReaderNext, ParsedNext
<1> QED
  BY <1>1, <1>2, PTL DEF Spec

\* The parser's state has its types: whatever part of the file it is given, the
\* reader stays within the file (readLine, whose bound on fread does not), and
\* the line that it keeps from buffer to buffer has no newline.
THEOREM TypeCorrect == Spec => []TypeOK
<1>1. ReaderInv /\ ParsedInv => TypeOK
  BY TypesHold
<1> QED
  BY <1>1, ParserInv, PTL

-----------------------------------------------------------------------------
(* Rows.                                                                   *)

LEMMA RankAdd ==
  ASSUME NEW S, IsFiniteSet(S), S \subseteq Nat, NEW e \in Nat, \A d \in S : d < e
  PROVE  /\ Cardinality(S) \in Nat /\ Cardinality(S \cup {e}) = Cardinality(S) + 1
         /\ Rank(S \cup {e}, e) = Cardinality(S) + 1
         /\ \A k \in S : Rank(S \cup {e}, k) = Rank(S, k) /\ Rank(S, k) \in 1 .. Cardinality(S)
<1>1. e \notin S
  OBVIOUS
<1>2. Cardinality(S) \in Nat /\ Cardinality(S \cup {e}) = Cardinality(S) + 1
  BY <1>1, FS_AddElement, FS_CardinalityType
<1>3. {j \in S \cup {e} : j <= e} = S \cup {e}
  <2> DEFINE U == S \cup {e}
  <2>1. \A j \in U : j <= e
    OBVIOUS
  <2> HIDE DEF U
  <2>2. {j \in U : j <= e} = U
    BY <2>1
  <2> QED
    BY <2>2 DEF U
<1>4. ASSUME NEW k \in S
      PROVE  Rank(S \cup {e}, k) = Rank(S, k) /\ Rank(S, k) \in 1 .. Cardinality(S)
  <2>1. {j \in S \cup {e} : j <= k} = {j \in S : j <= k}
    OBVIOUS
  <2>2. Rank(S, k) \in Nat /\ Rank(S, k) <= Cardinality(S)
    BY RankType
  <2>3. Rank(S, k) # 0
    <3> DEFINE T == {j \in S : j <= k}
    <3>1. k \in T /\ T \in SUBSET S
      OBVIOUS
    <3> HIDE DEF T
    <3>2. IsFiniteSet(T) /\ T # {}
      BY <3>1, FS_Subset
    <3>3. Cardinality(T) # 0
      BY <3>2, FS_EmptySet
    <3> QED
      BY <3>3 DEF Rank, T
  <2>4. Rank(S \cup {e}, k) = Rank(S, k)
    BY <2>1 DEF Rank
  <2> QED
    BY <1>2, <2>2, <2>3, <2>4
<1> QED
  BY <1>2, <1>3, <1>4 DEF Rank

LEMMA HavingFacts ==
  ASSUME NEW ls \in Seq(Seq(Bytes)), NEW c
  PROVE  /\ IsFiniteSet(HavingIn(ls, c)) /\ HavingIn(ls, c) \subseteq Nat
         /\ Len(ls) \in Nat /\ \A k \in HavingIn(ls, c) : k <= Len(ls)
<1>1. HavingIn(ls, c) \in SUBSET (1 .. Len(ls)) /\ IsFiniteSet(1 .. Len(ls))
  BY FS_Interval DEF HavingIn
<1>2. Len(ls) \in Nat
  OBVIOUS
<1>3. IsFiniteSet(HavingIn(ls, c))
  BY <1>1, FS_Subset
<1> QED
  BY <1>1, <1>2, <1>3

\* One more line.
LEMMA HavingAdd ==
  ASSUME NEW ls \in Seq(Seq(Bytes)), NEW line \in Seq(Bytes), NEW c \in Nat
  PROVE  HavingIn(Append(ls, line), c) =
           IF c <= Len(Fields(line)) THEN HavingIn(ls, c) \cup {Len(ls) + 1} ELSE HavingIn(ls, c)
<1> DEFINE all == Append(ls, line)
           n == Len(ls)
<1>1. n \in Nat /\ Len(all) = n + 1 /\ all[n + 1] = line /\ \A k \in 1 .. n : all[k] = ls[k]
  OBVIOUS
<1> HIDE DEF all, n
<1>2. \A k : k \in 1 .. n + 1 <=> k \in 1 .. n \/ k = n + 1
  BY <1>1
<1>3. n + 1 \notin 1 .. n
  BY <1>1
<1>4. {k \in 1 .. n + 1 : c <= Len(Fields(all[k]))} =
        IF c <= Len(Fields(line)) THEN {k \in 1 .. n : c <= Len(Fields(ls[k]))} \cup {n + 1}
                                  ELSE {k \in 1 .. n : c <= Len(Fields(ls[k]))}
  <2> DEFINE has(l) == c <= Len(Fields(l))
  <2> HIDE DEF has
  <2>1. {k \in 1 .. n + 1 : has(all[k])} =
          IF has(line) THEN {k \in 1 .. n : has(ls[k])} \cup {n + 1}
                       ELSE {k \in 1 .. n : has(ls[k])}
    BY <1>1, <1>2, <1>3
  <2> QED
    BY <2>1 DEF has
<1> QED
  BY <1>1, <1>4 DEF HavingIn, all, n

LEMMA HoldsAdd ==
  ASSUME NEW ls \in Seq(Seq(Bytes)), NEW line \in Seq(Bytes), NEW c \in Nat \ {0},
         NEW t \in Types \ {"UNKNOWN"}, NEW column \in Seq(Seq(Bytes)), Holds(column, ls, t, c)
  PROVE  Holds(IF c <= Len(Fields(line)) THEN Append(column, Appended(t, Fields(line)[c])) ELSE column,
               Append(ls, line), t, c)
<1> DEFINE all == Append(ls, line)
           H == HavingIn(ls, c)
           e == Len(ls) + 1
           v == Appended(t, Fields(line)[c])
           more == Append(column, v)
<1>1. e \in Nat /\ all[e] = line /\ \A k \in 1 .. Len(ls) : all[k] = ls[k]
  OBVIOUS
<1>2. IsFiniteSet(H) /\ H \subseteq Nat /\ (\A k \in H : k < e) /\ H \subseteq 1 .. Len(ls)
  <2>1. IsFiniteSet(H) /\ H \subseteq Nat /\ Len(ls) \in Nat /\ \A k \in H : k <= Len(ls)
    BY HavingFacts
  <2>2. H \subseteq 1 .. Len(ls)
    BY DEF HavingIn
  <2> HIDE DEF H
  <2> QED
    BY <2>1, <2>2
<1>3. Len(column) = Cardinality(H) /\ \A k \in H : column[Rank(H, k)] = Appended(t, Fields(ls[k])[c])
  BY DEF Holds
<1>4. \A k \in H : all[k] = ls[k]
  BY <1>1, <1>2
<1>5. /\ Cardinality(H) \in Nat /\ Cardinality(H \cup {e}) = Cardinality(H) + 1
      /\ Rank(H \cup {e}, e) = Cardinality(H) + 1
      /\ \A k \in H : Rank(H \cup {e}, k) = Rank(H, k) /\ Rank(H, k) \in 1 .. Cardinality(H)
  <2> HIDE DEF H, e
  <2> QED
    BY <1>1, <1>2, RankAdd
<1>6. CASE c <= Len(Fields(line))
  <2>1. HavingIn(all, c) = H \cup {e}
    BY <1>6, HavingAdd
  <2>2. v \in Seq(Bytes)
    <3>1. Fields(line)[c] \in Seq(Bytes)
      BY <1>6, FieldsType, FieldsLen
    <3> QED
      BY <3>1, ValueType
  <2>3. /\ Len(more) = Len(column) + 1 /\ more[Len(column) + 1] = v
        /\ \A i \in 1 .. Len(column) : more[i] = column[i]
    BY <2>2, AppendProperties
  <2> HIDE DEF H, e, all, more, v
  <2>4. Len(more) = Cardinality(H \cup {e})
    BY <1>3, <1>5, <2>3
  <2>5. ASSUME NEW k \in H
        PROVE  more[Rank(H \cup {e}, k)] = Appended(t, Fields(all[k])[c])
    BY <1>3, <1>4, <1>5, <2>3
  <2>6. more[Rank(H \cup {e}, e)] = v
    BY <1>3, <1>5, <2>3
  <2>7. v = Appended(t, Fields(all[e])[c])
    BY <1>1 DEF v
  <2>8. Holds(more, all, t, c)
    BY <2>1, <2>4, <2>5, <2>6, <2>7 DEF Holds
  <2> QED
    BY <1>6, <2>8 DEF all, more, v
<1>7. CASE ~(c <= Len(Fields(line)))
  <2>1. HavingIn(all, c) = H
    BY <1>7, HavingAdd
  <2> HIDE DEF H, e, all
  <2>2. Holds(column, all, t, c)
    BY <1>3, <1>4, <2>1 DEF Holds
  <2> QED
    BY <1>7, <2>2 DEF all
<1> QED
  BY <1>6, <1>7

LEMMA ScanRows ==
  ASSUME ParsedInv, RowInv, NEW line \in Seq(Bytes), ScanLine(line)
  PROVE  RowInv'
<1> DEFINE fields == Fields(line)
<1>1. Len(fields) \in Nat /\ lines \in Seq(Seq(Bytes)) /\ lines' = Append(lines, line)
  BY FieldsLen DEF ScanLine, ParsedInv
<1>2. CASE pass = "count" /\ pass' = pass
  BY <1>2 DEF RowInv
<1>3. CASE pass = "guess" /\ UNCHANGED <<pass, num_columns>>
  BY <1>3 DEF RowInv
<1>4. CASE /\ pass = "parse" /\ UNCHANGED <<pass, num_columns, guesses>>
           /\ \A i \in 1 .. Len(fields) : Accepts(fields[i], i)
           /\ columns' = [c \in 1 .. num_columns |->
                            IF c <= Len(fields)
                            THEN Append(columns[c], Appended(guesses[c], fields[c])) ELSE columns[c]]
  <2>1. /\ num_columns \in Nat /\ guesses \in [1 .. num_columns -> Types \ {"UNKNOWN"}]
        /\ columns \in [1 .. num_columns -> Seq(Seq(Bytes))]
    BY <1>4 DEF ParsedInv
  <2>2. /\ num_columns > 0
        /\ \A k \in 1 .. Len(lines) : Len(Fields(lines[k])) <= num_columns
        /\ \A c \in 1 .. num_columns : Holds(columns[c], lines, guesses[c], c)
    BY <1>4 DEF RowInv
  <2>3. Len(fields) <= num_columns
    <3>1. Len(fields) # 0 => Accepts(fields[Len(fields)], Len(fields))
      BY <1>1, <1>4
    <3> HIDE DEF fields
    <3> QED
      BY <1>1, <2>1, <3>1 DEF Accepts
  <2>4. \A k \in 1 .. Len(lines') : Len(Fields(lines'[k])) <= num_columns
    BY <1>1, <2>2, <2>3
  <2>5. ASSUME NEW c \in 1 .. num_columns
        PROVE  Holds(columns'[c], lines', guesses[c], c)
    <3>1. c \in Nat \ {0} /\ guesses[c] \in Types \ {"UNKNOWN"} /\ columns[c] \in Seq(Seq(Bytes))
      BY <2>1
    <3>2. Holds(columns[c], lines, guesses[c], c)
      BY <2>2
    <3>3. columns'[c] = IF c <= Len(fields) THEN Append(columns[c], Appended(guesses[c], fields[c]))
                                            ELSE columns[c]
      BY <1>4
    <3> QED
      BY <1>1, <3>1, <3>2, <3>3, HoldsAdd
  <2> QED
    BY <1>4, <2>2, <2>4, <2>5 DEF RowInv
<1>5. CASE pass' = "failed"
  BY <1>5 DEF RowInv
<1> QED
  BY <1>2, <1>3, <1>4, <1>5 DEF ScanLine

LEMMA RowsKept ==
  ASSUME RowInv, UNCHANGED <<pass, lines, parsed>>
  PROVE  RowInv'
BY DEF RowInv, parsed

LEMMA EndGuessRows ==
  ASSUME ParsedInv, RowInv, EndGuess
  PROVE  RowInv'
<1>1. /\ pass' = "parse" /\ columns' = [c \in 1 .. num_columns |-> <<>>]
      /\ lines' = <<>> /\ num_columns' = num_columns /\ num_columns \in Nat /\ num_columns > 0
  BY DEF EndGuess, Reset, ParsedInv, RowInv
<1>2. \A c : HavingIn(<<>>, c) = {}
  BY DEF HavingIn
<1>3. \A t, c : Holds(<<>>, <<>>, t, c)
  BY <1>2, FS_EmptySet DEF Holds
<1>4. \A c \in 1 .. num_columns' : Holds(columns'[c], lines', guesses'[c], c)
  BY <1>1, <1>3
<1>5. \A k \in 1 .. Len(lines') : Len(Fields(lines'[k])) <= num_columns'
  BY <1>1
<1> QED
  BY <1>1, <1>4, <1>5 DEF RowInv

LEMMA RowsNext ==
  ASSUME ReaderInv, ParsedInv, RowInv, [Next]_vars
  PROVE  RowInv'
<1>1. CASE Refill \/ KeepRest \/ SkipLine \/ Stop \/ UNCHANGED vars
  BY <1>1, RowsKept DEF Refill, KeepRest, SkipLine, Stop, vars
<1>2. CASE TakeLine
  <2>1. Grown(Min(Newlines) - 1) \in Seq(Bytes)
    BY <1>2, LineType
  <2> QED
    BY <1>2, <2>1, ScanRows DEF TakeLine
<1>3. CASE TakeRest
  <2>1. current_line \in Seq(Bytes)
    BY <1>3, LineType
  <2> QED
    BY <1>3, <2>1, ScanRows DEF TakeRest
<1>4. CASE EndCount
  BY <1>4 DEF EndCount, ParsedInv, RowInv
<1>5. CASE EndParse
  BY <1>5 DEF EndParse, RowInv, parsed
<1> QED
  BY <1>1, <1>2, <1>3, <1>4, <1>5, EndGuessRows DEF Next

LEMMA RowsHold ==
  ASSUME ParsedInv, RowInv
  PROVE  RowsAreLines
<1> SUFFICES ASSUME pass = "frame", NEW c \in 1 .. num_columns
             PROVE  /\ Len(columns[c]) = Cardinality(Rows)
                    /\ \A k \in Rows :
                         /\ Len(Fields(lines[k])) = num_columns
                         /\ columns[c][Rank(Rows, k)] = Appended(guesses[c], Fields(lines[k])[c])
  BY DEF RowsAreLines
<1>1. num_columns \in Nat /\ num_columns > 0 /\ lines \in Seq(Seq(Bytes))
  BY DEF ParsedInv, RowInv
<1>2. /\ \A k \in 1 .. Len(lines) : Len(Fields(lines[k])) <= num_columns
      /\ \A d \in 1 .. num_columns : Holds(columns[d], lines, guesses[d], d)
      /\ \A d \in 1 .. num_columns : Len(columns[d]) = Len(columns[1])
  BY DEF RowInv
<1>3. \A k \in 1 .. Len(lines) : Fields(lines[k]) \in Seq(Seq(Bytes)) /\ Len(Fields(lines[k])) \in Nat
  BY <1>1, FieldsType, FieldsLen
<1>4. HavingIn(lines, 1) = Rows
  <2>1. \A k \in 1 .. Len(lines) : Fields(lines[k]) # <<>> <=> 1 <= Len(Fields(lines[k]))
    BY <1>3
  <2> QED
    BY <2>1 DEF HavingIn, Rows
<1>5. ASSUME NEW d \in 1 .. num_columns
      PROVE  HavingIn(lines, d) = Rows
  <2>1. \A k \in HavingIn(lines, d) : k \in HavingIn(lines, 1)
    BY <1>3 DEF HavingIn
  <2>2. Cardinality(HavingIn(lines, d)) = Cardinality(HavingIn(lines, 1))
    BY <1>1, <1>2 DEF Holds
  <2>3. IsFiniteSet(HavingIn(lines, 1))
    BY <1>1, HavingFacts
  <2>4. HavingIn(lines, d) \in SUBSET HavingIn(lines, 1)
    BY <2>1
  <2>5. HavingIn(lines, d) = HavingIn(lines, 1)
    BY <2>2, <2>3, <2>4, FS_Subset
  <2> QED
    BY <1>4, <2>5
<1>6. ASSUME NEW k \in Rows
      PROVE  Len(Fields(lines[k])) = num_columns
  <2>1. k \in HavingIn(lines, num_columns)
    BY <1>1, <1>5
  <2>2. k \in 1 .. Len(lines) /\ num_columns <= Len(Fields(lines[k]))
    BY <2>1 DEF HavingIn
  <2> QED
    BY <1>1, <1>2, <1>3, <2>2
<1>7. Holds(columns[c], lines, guesses[c], c) /\ HavingIn(lines, c) = Rows
  BY <1>2, <1>5
<1> QED
  BY <1>6, <1>7 DEF Holds

\* Whatever the lines of a file, a file whose columns become a data frame has
\* in row r of each column the value of that field of its r-th line with fields
\* (_scanLine, _appendField): the constructor's check of the columns' lengths is
\* enough to tell that no line had fewer fields than another.
THEOREM RowsCorrect == Spec => []RowsAreLines
<1> DEFINE RInv == ReaderInv /\ ParsedInv
<1>1. Init => RowInv
  BY DEF Init, RowInv
<1>2. RInv /\ RowInv /\ [Next]_vars => RowInv'
  BY RowsNext
<1>3. RInv /\ RowInv => RowsAreLines
  BY RowsHold
<1>4. Spec => []RInv
  BY ParserInv
<1> HIDE DEF RInv
<1> QED
  BY <1>1, <1>2, <1>3, <1>4, PTL DEF Spec

-----------------------------------------------------------------------------
(* The schema.                                                             *)

\* A guess is joined with what one more field says.
LEMMA GuessJoin ==
  ASSUME NEW T, <<>> \notin T, NEW field
  PROVE  Guess(Guessed(T), field) = Guessed(T \cup ({Trim(field, Space)} \ {<<>>}))
<1> DEFINE s == Trim(field, Space)
           word(x) == ToSet(x) \cap Numeric = {}
           dotted(x) == "." \in ToSet(x)
           bit(x) == ToInt(x) \in {0, 1}
           g == Guessed(T)
           U == T \cup {s}
<1>1. \A V : TypeOf(V) = IF \E x \in V : word(x) THEN "STRING"
                         ELSE IF \E x \in V : dotted(x) THEN "DOUBLE"
                         ELSE IF \E x \in V : ~bit(x) THEN "INTEGER" ELSE "BOOL"
  BY DEF TypeOf
<1>2. Guess(g, field) = IF s = <<>> \/ g = "STRING" THEN g
                        ELSE IF word(s) THEN "STRING"
                        ELSE IF dotted(s) THEN "DOUBLE"
                        ELSE IF bit(s) /\ g \notin {"INTEGER", "DOUBLE"} THEN "BOOL"
                        ELSE IF g = "DOUBLE" THEN "DOUBLE" ELSE "INTEGER"
  BY DEF Guess
<1>3. g = IF T = {} THEN "UNKNOWN" ELSE TypeOf(T)
  BY DEF Guessed
<1>4. CASE s = <<>>
  <2>1. T \cup ({s} \ {<<>>}) = T
    BY <1>4
  <2> QED
    BY <1>2, <1>4, <2>1
<1>5. CASE s # <<>>
  <2>1. T \cup ({s} \ {<<>>}) = U /\ U # {} /\ \A x : x \in U <=> x \in T \/ x = s
    BY <1>5
  <2>2. Guessed(U) = TypeOf(U)
    BY <2>1 DEF Guessed
  <2> HIDE DEF s, word, dotted, bit, g, U
  <2>3. TypeOf(U) = IF (\E x \in T : word(x)) \/ word(s) THEN "STRING"
                    ELSE IF (\E x \in T : dotted(x)) \/ dotted(s) THEN "DOUBLE"
                    ELSE IF (\E x \in T : ~bit(x)) \/ ~bit(s) THEN "INTEGER" ELSE "BOOL"
    BY <1>1, <2>1
  <2>4. g = IF T = {} THEN "UNKNOWN"
            ELSE IF \E x \in T : word(x) THEN "STRING"
            ELSE IF \E x \in T : dotted(x) THEN "DOUBLE"
            ELSE IF \E x \in T : ~bit(x) THEN "INTEGER" ELSE "BOOL"
    BY <1>1, <1>3
  <2>5. Guess(g, field) = TypeOf(U)
    BY <1>2, <1>5, <2>3, <2>4
  <2> QED
    BY <2>1, <2>2, <2>5 DEF s, g
<1> QED
  BY <1>4, <1>5

LEMMA TextsAdd ==
  ASSUME NEW ls \in Seq(Seq(Bytes)), NEW line \in Seq(Bytes), NEW c \in Nat
  PROVE  TextsIn(Append(ls, line), c) =
           IF c <= Len(Fields(line))
           THEN TextsIn(ls, c) \cup ({Trim(Fields(line)[c], Space)} \ {<<>>}) ELSE TextsIn(ls, c)
<1> DEFINE all == Append(ls, line)
           text(l) == Trim(Fields(l)[c], Space)
           H == HavingIn(ls, c)
           e == Len(ls) + 1
<1>1. HavingIn(all, c) = IF c <= Len(Fields(line)) THEN H \cup {e} ELSE H
  BY HavingAdd
<1>2. all[e] = line /\ \A k \in H : all[k] = ls[k]
  BY DEF HavingIn
<1>3. TextsIn(all, c) = {text(all[k]) : k \in HavingIn(all, c)} \ {<<>>}
  BY DEF TextsIn, HavingIn
<1>4. TextsIn(ls, c) = {text(ls[k]) : k \in H} \ {<<>>}
  BY DEF TextsIn, HavingIn
<1> HIDE DEF all, text, H, e
<1>5. {text(all[k]) : k \in H} = {text(ls[k]) : k \in H}
  BY <1>2
<1>6. {text(all[k]) : k \in H \cup {e}} = {text(ls[k]) : k \in H} \cup {text(line)}
  BY <1>2
<1>7. TextsIn(all, c) = IF c <= Len(Fields(line))
                        THEN TextsIn(ls, c) \cup ({text(line)} \ {<<>>}) ELSE TextsIn(ls, c)
  BY <1>1, <1>3, <1>4, <1>5, <1>6
<1> QED
  BY <1>7 DEF all, text

LEMMA TextsNonempty == \A ls, c : <<>> \notin TextsIn(ls, c)
BY DEF TextsIn

LEMMA TextsNone == \A c : TextsIn(<<>>, c) = {}
<1>1. \A c : HavingIn(<<>>, c) = {}
  BY DEF HavingIn
<1> QED
  BY <1>1 DEF TextsIn, HavingIn

LEMMA SeenKept ==
  ASSUME UNCHANGED <<file, from, to>>
  PROVE  Seen' = Seen
BY DEF Seen

LEMMA ScanGuesses ==
  ASSUME ParsedInv, GuessInv, NEW line \in Seq(Bytes), ScanLine(line), UNCHANGED <<file, from, to>>
  PROVE  GuessInv'
<1> DEFINE fields == Fields(line)
<1>1. lines \in Seq(Seq(Bytes)) /\ lines' = Append(lines, line) /\ Seen' = Seen
  BY SeenKept DEF ScanLine, ParsedInv
<1>2. CASE pass = "count" /\ pass' = pass
  BY <1>2 DEF GuessInv
<1>3. CASE /\ pass = "guess" /\ UNCHANGED <<pass, num_columns>>
           /\ guesses' = [c \in 1 .. num_columns |->
                            IF c <= Len(fields) THEN Guess(guesses[c], fields[c]) ELSE guesses[c]]
  <2>1. ASSUME NEW c \in 1 .. num_columns
        PROVE  guesses'[c] = Guessed(TextsIn(lines', c))
    <3>1. c \in Nat
      BY DEF ParsedInv
    <3>2. guesses[c] = Guessed(TextsIn(lines, c)) /\ <<>> \notin TextsIn(lines, c)
      BY <1>3, TextsNonempty DEF GuessInv
    <3>3. guesses'[c] = IF c <= Len(fields) THEN Guess(guesses[c], fields[c]) ELSE guesses[c]
      BY <1>3
    <3>4. TextsIn(lines', c) = IF c <= Len(fields)
                               THEN TextsIn(lines, c) \cup ({Trim(fields[c], Space)} \ {<<>>})
                               ELSE TextsIn(lines, c)
      BY <1>1, <3>1, TextsAdd
    <3>5. Guess(guesses[c], fields[c]) =
            Guessed(TextsIn(lines, c) \cup ({Trim(fields[c], Space)} \ {<<>>}))
      BY <3>2, GuessJoin
    <3> QED
      BY <3>2, <3>3, <3>4, <3>5
  <2> QED
    BY <1>3, <2>1 DEF GuessInv
<1>4. CASE pass = "parse" /\ UNCHANGED <<pass, num_columns, guesses>>
  BY <1>1, <1>4 DEF GuessInv
<1>5. CASE pass' = "failed"
  BY <1>5 DEF GuessInv
<1> QED
  BY <1>2, <1>3, <1>4, <1>5 DEF ScanLine

LEMMA GuessKept ==
  ASSUME GuessInv, UNCHANGED <<file, from, to, pass, lines, parsed>>
  PROVE  GuessInv'
<1>1. Seen' = Seen
  BY SeenKept
<1> QED
  BY <1>1 DEF GuessInv, parsed

LEMMA EndCountGuesses ==
  ASSUME EndCount
  PROVE  GuessInv'
<1>1. CASE pass' = "failed"
  BY <1>1 DEF GuessInv
<1>2. CASE pass' = "guess"
  <2>1. lines' = <<>> /\ num_columns' = num_columns
        /\ guesses' = [c \in 1 .. num_columns |-> "UNKNOWN"]
    BY <1>2 DEF EndCount, Reset
  <2>2. \A c : Guessed(TextsIn(lines', c)) = "UNKNOWN"
    BY <2>1, TextsNone DEF Guessed
  <2> QED
    BY <1>2, <2>1, <2>2 DEF GuessInv
<1> QED
  BY <1>1, <1>2 DEF EndCount

\* The lines of the pass are all those to guess from.
LEMMA SeenWhole ==
  ASSUME ReaderInv, HandedInv, ParsedInv, PassOver, pass = "guess"
  PROVE  lines = Seen
<1> DEFINE all == LinesOf(file, from, to)
           n == Min({GuessLines, Len(all)})
<1>1. Len(lines) = n
  BY OverLines
<1>2. IsPrefix(lines, all)
  BY HandedPrefix
<1>3. lines \in Seq(Seq(Bytes))
  BY DEF ParsedInv
<1> HIDE DEF all, n
<1>4. SubSeq(lines, 1, Len(lines)) = SubSeq(all, 1, Len(lines))
  BY <1>2 DEF IsPrefix
<1>5. SubSeq(lines, 1, Len(lines)) = lines
  BY <1>3
<1> QED
  BY <1>1, <1>4, <1>5 DEF Seen, all, n

LEMMA EndGuessGuesses ==
  ASSUME ReaderInv, HandedInv, ParsedInv, GuessInv, EndGuess
  PROVE  GuessInv'
<1>1. lines = Seen /\ Seen' = Seen
  BY SeenWhole, SeenKept DEF EndGuess, PassOver
<1>2. /\ pass = "guess" /\ pass' = "parse" /\ num_columns' = num_columns
      /\ guesses' = [c \in 1 .. num_columns |-> IF guesses[c] = "UNKNOWN" THEN "BOOL" ELSE guesses[c]]
  BY DEF EndGuess
<1>3. ASSUME NEW c \in 1 .. num_columns
      PROVE  guesses'[c] = TypeOf(TextsIn(Seen, c))
  <2> DEFINE T == TextsIn(Seen, c)
  <2>1. guesses[c] = Guessed(T)
    BY <1>1, <1>2 DEF GuessInv
  <2>2. guesses'[c] = IF guesses[c] = "UNKNOWN" THEN "BOOL" ELSE guesses[c]
    BY <1>2
  <2> HIDE DEF T
  <2>3. TypeOf({}) = "BOOL" /\ TypeOf(T) # "UNKNOWN"
    BY DEF TypeOf
  <2>4. guesses'[c] = TypeOf(T)
    BY <2>1, <2>2, <2>3 DEF Guessed
  <2> QED
    BY <2>4 DEF T
<1> QED
  BY <1>1, <1>2, <1>3 DEF GuessInv

LEMMA GuessNext ==
  ASSUME ReaderInv, HandedInv, ParsedInv, GuessInv, [Next]_vars
  PROVE  GuessInv'
<1>1. CASE Refill \/ KeepRest \/ SkipLine \/ Stop \/ UNCHANGED vars
  BY <1>1, GuessKept DEF Refill, KeepRest, SkipLine, Stop, vars
<1>2. CASE TakeLine
  <2>1. Grown(Min(Newlines) - 1) \in Seq(Bytes)
    BY <1>2, LineType
  <2> QED
    BY <1>2, <2>1, ScanGuesses DEF TakeLine
<1>3. CASE TakeRest
  <2>1. current_line \in Seq(Bytes)
    BY <1>3, LineType
  <2> QED
    BY <1>3, <2>1, ScanGuesses DEF TakeRest
<1>4. CASE EndParse
  <2>1. Seen' = Seen
    BY <1>4, SeenKept DEF EndParse, PassOver
  <2> QED
    BY <1>4, <2>1 DEF EndParse, GuessInv, parsed
<1> QED
  BY <1>1, <1>2, <1>3, <1>4, EndCountGuesses, EndGuessGuesses DEF Next

\* In a part of the file that is readable, the types guessed for the columns
\* (_guessFieldType, in the order of the lines) are those that all fields of
\* the first GUESS_SCHEMA_LINES lines together call for, and do not depend on
\* the order of these lines.
THEOREM SchemaCorrect == Spec /\ Readable(file, from, to) => []SchemaIsJoin
<1> DEFINE RInv == ReaderInv /\ ParsedInv
           HInv == HandedInv /\ GuessInv
<1>1. Init /\ Readable(file, from, to) => HInv
  BY ReaderInit, StartHanded DEF Init, GuessInv
<1>2. RInv /\ HInv /\ [Next]_vars => HInv'
  BY HandedNext, GuessNext
<1>3. HInv => SchemaIsJoin
  BY DEF GuessInv, SchemaIsJoin, Seen
<1>4. Spec => []RInv
  BY ParserInv
<1> HIDE DEF RInv, HInv
<1> QED
  BY <1>1, <1>2, <1>3, <1>4, PTL DEF Spec

-----------------------------------------------------------------------------
(* Concatenations.                                                         *)

\* Induction, for sets of numbers and of sequences.
LEMMA UpFromZero ==
  ASSUME NEW T, 0 \in T, \A n \in Nat : n \in T => n + 1 \in T
  PROVE  \A n \in Nat : n \in T
<1> SUFFICES ASSUME Nat \ T # {} PROVE FALSE
  OBVIOUS
<1>1. PICK m \in Nat \ T : \A k \in Nat \ T : m <= k
  BY SomeLeast
<1>2. m # 0 /\ m \in Nat
  OBVIOUS
<1>3. m - 1 \in Nat /\ (m - 1) + 1 = m /\ ~(m <= m - 1)
  BY <1>2
<1>4. m - 1 \in T
  BY <1>1, <1>3
<1> QED
  BY <1>3, <1>4

LEMMA Extended ==
  ASSUME NEW S, NEW T, <<>> \in T,
         \A s \in Seq(S) : \A e \in S : s \in T => Append(s, e) \in T
  PROVE  \A s \in Seq(S) : s \in T
<1> DEFINE U == {n \in Nat : \A s \in Seq(S) : Len(s) = n => s \in T}
<1>1. 0 \in U
  BY EmptySeq
<1>2. ASSUME NEW n \in Nat, n \in U
      PROVE  n + 1 \in U
  <2> SUFFICES ASSUME NEW s \in Seq(S), Len(s) = n + 1 PROVE s \in T
    OBVIOUS
  <2>1. s # <<>>
    OBVIOUS
  <2>2. PICK r \in Seq(S), e \in S : s = Append(r, e)
    BY <2>1, SequenceEmptyOrAppend
  <2>3. Len(r) = n
    BY <2>2, AppendProperties
  <2>4. r \in T
    BY <1>2, <2>3
  <2> QED
    BY <2>2, <2>4
<1> HIDE DEF U
<1>3. \A n \in Nat : n \in U
  BY <1>1, <1>2, UpFromZero
<1> QED
  BY <1>3 DEF U

\* What FlattenSeq computes, up to the m-th sequence.
Joins(ss, m, f) == f = [i \in 1 .. m |-> IF i = 1 THEN ss[i] ELSE f[i-1] \o ss[i]]

LEMMA JoinsExist ==
  ASSUME NEW ss
  PROVE  \A m \in Nat : \E f : Joins(ss, m, f)
<1> DEFINE T == {m \in Nat : \E f : Joins(ss, m, f)}
<1>1. 0 \in T
  <2>1. Joins(ss, 0, [i \in 1 .. 0 |-> 0])
    BY DEF Joins
  <2> QED
    BY <2>1
<1>2. ASSUME NEW m \in Nat, m \in T
      PROVE  m + 1 \in T
  <2>1. PICK f : Joins(ss, m, f)
    BY <1>2
  <2> DEFINE n == m + 1
             last == IF m = 0 THEN ss[1] ELSE f[m] \o ss[n]
             g == [i \in 1 .. n |-> IF i = n THEN last ELSE f[i]]
  <2>2. n \in Nat /\ n # 0 /\ n - 1 = m /\ (n = 1 <=> m = 0)
    OBVIOUS
  <2>3. \A i \in 1 .. n : i = n \/ i \in 1 .. m
    OBVIOUS
  <2>4. \A i \in 1 .. m : i # n /\ i \in 1 .. n /\ (i # 1 => i - 1 \in 1 .. m)
    OBVIOUS
  <2>5. m # 0 => m \in 1 .. m
    OBVIOUS
  <2>6. g[n] = last /\ \A i \in 1 .. m : g[i] = f[i]
    <3>1. n \in 1 .. n
      BY <2>2
    <3> HIDE DEF n, last
    <3> QED
      BY <2>4, <3>1
  <2>7. \A i \in 1 .. m : f[i] = IF i = 1 THEN ss[i] ELSE f[i-1] \o ss[i]
    BY <2>1 DEF Joins
  <2> HIDE DEF n
  <2>8. g[n] = IF n = 1 THEN ss[n] ELSE g[n-1] \o ss[n]
    BY <2>2, <2>5, <2>6
  <2>9. \A i \in 1 .. m : g[i] = IF i = 1 THEN ss[i] ELSE g[i-1] \o ss[i]
    BY <2>4, <2>6, <2>7
  <2>10. \A i \in 1 .. n : g[i] = IF i = 1 THEN ss[i] ELSE g[i-1] \o ss[i]
    BY <2>3, <2>8, <2>9
  <2>11. \E h : h = g
    OBVIOUS
  <2>12. PICK h : h = g
    BY <2>11
  <2>13. h = [i \in 1 .. n |-> h[i]] /\ \A i \in 1 .. n : h[i] = IF i = 1 THEN ss[i] ELSE h[i-1] \o ss[i]
    BY <2>10, <2>12
  <2> HIDE DEF g
  <2>14. Joins(ss, n, h)
    BY <2>13 DEF Joins
  <2> QED
    BY <2>14 DEF n
<1> HIDE DEF T
<1>3. \A m \in Nat : m \in T
  BY <1>1, <1>2, UpFromZero
<1> QED
  BY <1>3 DEF T

LEMMA JoinsSame ==
  ASSUME NEW ss, NEW tt, NEW m \in Nat, NEW n \in Nat, m <= n, NEW f, NEW g,
         Joins(ss, m, f), Joins(tt, n, g), \A i \in 1 .. m : ss[i] = tt[i]
  PROVE  \A i \in 1 .. m : f[i] = g[i]
<1> DEFINE T == {k \in Nat : k \in 1 .. m => f[k] = g[k]}
<1>1. /\ \A i \in 1 .. m : f[i] = IF i = 1 THEN ss[i] ELSE f[i-1] \o ss[i]
      /\ \A i \in 1 .. m : g[i] = IF i = 1 THEN tt[i] ELSE g[i-1] \o tt[i]
  <2>1. \A i \in 1 .. m : i \in 1 .. n
    OBVIOUS
  <2>2. \A i \in 1 .. n : g[i] = IF i = 1 THEN tt[i] ELSE g[i-1] \o tt[i]
    BY DEF Joins
  <2>3. \A i \in 1 .. m : f[i] = IF i = 1 THEN ss[i] ELSE f[i-1] \o ss[i]
    BY DEF Joins
  <2> QED
    BY <2>1, <2>2, <2>3
<1>2. 0 \in T
  OBVIOUS
<1>3. ASSUME NEW k \in Nat, k \in T
      PROVE  k + 1 \in T
  <2> SUFFICES ASSUME k + 1 \in 1 .. m PROVE f[k+1] = g[k+1]
    OBVIOUS
  <2> DEFINE j == k + 1
  <2>1. j \in 1 .. m /\ j - 1 = k /\ (j # 1 => k \in 1 .. m)
    OBVIOUS
  <2>2. j # 1 => f[k] = g[k]
    BY <1>3, <2>1
  <2> HIDE DEF j
  <2>3. f[j] = g[j]
    BY <1>1, <2>1, <2>2
  <2> QED
    BY <2>3 DEF j
<1> HIDE DEF T
<1>4. \A k \in Nat : k \in T
  BY <1>2, <1>3, UpFromZero
<1> QED
  BY <1>4 DEF T

LEMMA FlatJoins ==
  ASSUME NEW ss, Len(ss) \in Nat, Len(ss) # 0
  PROVE  \E f : Joins(ss, Len(ss), f) /\ FlattenSeq(ss) = f[Len(ss)]
<1> DEFINE f == CHOOSE g : Joins(ss, Len(ss), g)
<1>1. Joins(ss, Len(ss), f)
  BY JoinsExist
<1>2. FlattenSeq(ss) = f[Len(ss)]
  BY DEF FlattenSeq, Joins
<1> QED
  BY <1>1, <1>2

\* One more sequence.
LEMMA FlatAppend ==
  ASSUME NEW S, NEW ss \in Seq(Seq(S)), NEW e \in Seq(S)
  PROVE  FlattenSeq(Append(ss, e)) = FlattenSeq(ss) \o e
<1> DEFINE n == Len(ss)
           tt == Append(ss, e)
<1>1. n \in Nat /\ Len(tt) = n + 1 /\ tt[n + 1] = e /\ \A i \in 1 .. n : tt[i] = ss[i]
  OBVIOUS
<1>2. n = 0 => FlattenSeq(ss) = <<>>
  BY DEF FlattenSeq
<1> HIDE DEF n, tt
<1>3. PICK g : Joins(tt, n + 1, g) /\ FlattenSeq(tt) = g[n + 1]
  BY <1>1, FlatJoins
<1>4. g[n + 1] = IF n = 0 THEN e ELSE g[n] \o e
  <2> DEFINE m == n + 1
  <2>1. m \in 1 .. m /\ (m = 1 <=> n = 0) /\ m - 1 = n
    BY <1>1
  <2>2. tt[m] = e /\ Joins(tt, m, g)
    BY <1>1, <1>3
  <2> HIDE DEF m
  <2>3. g[m] = IF m = 1 THEN tt[m] ELSE g[m-1] \o tt[m]
    BY <2>1, <2>2 DEF Joins
  <2>4. g[m] = IF n = 0 THEN e ELSE g[n] \o e
    BY <2>1, <2>2, <2>3
  <2> QED
    BY <2>4 DEF m
<1>5. CASE n = 0
  <2>1. FlattenSeq(tt) = e /\ FlattenSeq(ss) = <<>>
    BY <1>2, <1>3, <1>4, <1>5
  <2>2. <<>> \o e = e
    BY ConcatEmptySeq
  <2> QED
    BY <2>1, <2>2 DEF tt
<1>6. CASE n # 0
  <2>1. PICK f : Joins(ss, n, f) /\ FlattenSeq(ss) = f[n]
    BY <1>1, <1>6, FlatJoins DEF n
  <2>2. n <= n + 1 /\ n \in 1 .. n /\ n + 1 \in Nat
    BY <1>1, <1>6
  <2>3. f[n] = g[n]
    <3> DEFINE m == n + 1
    <3>1. Joins(ss, n, f) /\ Joins(tt, m, g) /\ n \in Nat /\ m \in Nat /\ n <= m /\ n \in 1 .. n
          /\ \A i \in 1 .. n : ss[i] = tt[i]
      BY <1>1, <1>3, <2>1, <2>2
    <3> HIDE DEF m
    <3>2. \A i \in 1 .. n : f[i] = g[i]
      BY <3>1, JoinsSame
    <3> QED
      BY <3>1, <3>2
  <2> QED
    BY <1>3, <1>4, <1>6, <2>1, <2>3 DEF tt
<1> QED
  BY <1>5, <1>6

LEMMA FlatEmpty == FlattenSeq(<<>>) = <<>>
BY DEF FlattenSeq

LEMMA FlatType ==
  ASSUME NEW S
  PROVE  \A ss \in Seq(Seq(S)) : FlattenSeq(ss) \in Seq(S)
<1> DEFINE T == {ss \in Seq(Seq(S)) : FlattenSeq(ss) \in Seq(S)}
           V == Seq(S)
<1>1. <<>> \in T
  BY FlatEmpty, EmptySeq
<1>2. ASSUME NEW ss \in Seq(V), NEW e \in V, ss \in T
      PROVE  Append(ss, e) \in T
  BY <1>2, FlatAppend, AppendProperties, ConcatProperties
<1> HIDE DEF T, V
<1>3. \A ss \in Seq(V) : ss \in T
  BY <1>1, <1>2, Extended
<1> QED
  BY <1>3 DEF T, V

LEMMA AppendLater ==
  ASSUME NEW S, NEW s \in Seq(S), NEW t \in Seq(S), NEW e \in S
  PROVE  s \o Append(t, e) = Append(s \o t, e) /\ s \o t \in Seq(S)
<1> DEFINE u == <<e>>
<1>1. Append(t, e) = t \o u /\ u \in Seq(S) /\ s \o t \in Seq(S)
  BY AppendIsConcat, ConcatProperties
<1>2. Append(s \o t, e) = (s \o t) \o u
  BY <1>1, AppendIsConcat
<1> HIDE DEF u
<1>3. (s \o t) \o u = s \o (t \o u)
  BY <1>1, ConcatAssociative
<1> QED
  BY <1>1, <1>2, <1>3

LEMMA FlatConcat ==
  ASSUME NEW S, NEW ss \in Seq(Seq(S))
  PROVE  \A tt \in Seq(Seq(S)) : FlattenSeq(ss \o tt) = FlattenSeq(ss) \o FlattenSeq(tt)
<1> DEFINE V == Seq(S)
           T == {tt \in Seq(V) : FlattenSeq(ss \o tt) = FlattenSeq(ss) \o FlattenSeq(tt)}
<1>1. FlattenSeq(ss) \in Seq(S) /\ \A tt \in Seq(V) : FlattenSeq(tt) \in Seq(S)
  BY FlatType
<1>2. <<>> \in T
  <2>1. ss \o <<>> = ss /\ FlattenSeq(ss) \o <<>> = FlattenSeq(ss)
    BY <1>1, ConcatEmptySeq
  <2> QED
    BY <2>1, FlatEmpty, EmptySeq
<1>3. ASSUME NEW tt \in Seq(V), NEW e \in V, tt \in T
      PROVE  Append(tt, e) \in T
  <2>1. ss \o Append(tt, e) = Append(ss \o tt, e) /\ ss \o tt \in Seq(V)
    <3>1. ss \in Seq(V) /\ e \in V
      OBVIOUS
    <3> HIDE DEF V
    <3> QED
      BY <3>1, AppendLater
  <2>2. FlattenSeq(Append(ss \o tt, e)) = FlattenSeq(ss \o tt) \o e
    BY <2>1, FlatAppend
  <2>3. FlattenSeq(Append(tt, e)) = FlattenSeq(tt) \o e
    BY FlatAppend
  <2>4. FlattenSeq(ss \o tt) = FlattenSeq(ss) \o FlattenSeq(tt)
    BY <1>3
  <2>5. (FlattenSeq(ss) \o FlattenSeq(tt)) \o e = FlattenSeq(ss) \o (FlattenSeq(tt) \o e)
    <3> DEFINE a == FlattenSeq(ss)
               b == FlattenSeq(tt)
    <3>1. a \in Seq(S) /\ b \in Seq(S) /\ e \in Seq(S)
      BY <1>1
    <3> HIDE DEF a, b, T, V
    <3>2. (a \o b) \o e = a \o (b \o e)
      BY <3>1, ConcatAssociative
    <3> QED
      BY <3>2 DEF a, b
  <2>6. Append(tt, e) \in Seq(V)
    BY AppendProperties
  <2> QED
    BY <2>1, <2>2, <2>3, <2>4, <2>5, <2>6
<1> HIDE DEF T, V
<1>4. \A tt \in Seq(V) : tt \in T
  BY <1>2, <1>3, Extended
<1> QED
  BY <1>4 DEF T, V

LEMMA FlatOne ==
  ASSUME NEW S, NEW e \in Seq(S)
  PROVE  FlattenSeq(<<e>>) = e
<1>1. Append(<<>>, e) = <<e>> /\ <<>> \in Seq(Seq(S))
  OBVIOUS
<1>2. FlattenSeq(Append(<<>>, e)) = FlattenSeq(<<>>) \o e
  BY <1>1, FlatAppend
<1>3. <<>> \o e = e
  BY ConcatEmptySeq
<1> QED
  BY <1>1, <1>2, <1>3, FlatEmpty

LEMMA FlatTwo ==
  ASSUME NEW S, NEW a \in Seq(S), NEW b \in Seq(S)
  PROVE  FlattenSeq(<<a, b>>) = a \o b
<1> DEFINE V == Seq(S)
<1>1. Append(<<a>>, b) = <<a, b>> /\ <<a>> \in Seq(V)
  <2> HIDE DEF V
  <2>1. a \in V /\ b \in V
    BY DEF V
  <2>2. <<a>> \in Seq(V) /\ <<a, b>> \in Seq(V) /\ Len(<<a>>) = 1 /\ Len(<<a, b>>) = 2
        /\ <<a>>[1] = a /\ <<a, b>>[1] = a /\ <<a, b>>[2] = b
    BY <2>1
  <2>3. Append(<<a>>, b) \in Seq(V) /\ Len(Append(<<a>>, b)) = 2
        /\ Append(<<a>>, b)[1] = a /\ Append(<<a>>, b)[2] = b
    BY <2>1, <2>2, AppendProperties
  <2>4. \A i \in 1 .. 2 : i = 1 \/ i = 2
    OBVIOUS
  <2> QED
    BY <2>2, <2>3, <2>4, SeqEqual
<1>2. FlattenSeq(Append(<<a>>, b)) = FlattenSeq(<<a>>) \o b
  BY <1>1, FlatAppend
<1> QED
  BY <1>1, <1>2, FlatOne

LEMMA FlatSuffix ==
  ASSUME NEW S, NEW ss \in Seq(Seq(S)), NEW i \in 1 .. Len(ss)
  PROVE  FlattenSeq(SubSeq(ss, i, Len(ss))) = ss[i] \o FlattenSeq(SubSeq(ss, i + 1, Len(ss)))
<1> DEFINE V == Seq(S)
           n == Len(ss)
<1>1. SubSeq(ss, i, n) = <<ss[i]>> \o SubSeq(ss, i + 1, n)
  BY SubSeqRecursiveFirst
<1>2. ss[i] \in V /\ <<ss[i]>> \in Seq(V) /\ SubSeq(ss, i + 1, n) \in Seq(V)
  OBVIOUS
<1>3. FlattenSeq(<<ss[i]>> \o SubSeq(ss, i + 1, n)) =
        FlattenSeq(<<ss[i]>>) \o FlattenSeq(SubSeq(ss, i + 1, n))
  BY <1>2, FlatConcat
<1> QED
  BY <1>1, <1>2, <1>3, FlatOne

\* Concatenated at once or one by one.
LEMMA FlatFlat ==
  ASSUME NEW S
  PROVE  \A ess \in Seq(Seq(Seq(S))) :
           /\ [i \in DOMAIN ess |-> FlattenSeq(ess[i])] \in Seq(Seq(S))
           /\ FlattenSeq(FlattenSeq(ess)) = FlattenSeq([i \in DOMAIN ess |-> FlattenSeq(ess[i])])
<1> DEFINE V == Seq(S)
           W0 == Seq(V)
           each(ess) == [i \in DOMAIN ess |-> FlattenSeq(ess[i])]
           T == {ess \in Seq(W0) : each(ess) \in Seq(V)
                                   /\ FlattenSeq(FlattenSeq(ess)) = FlattenSeq(each(ess))}
<1>1. <<>> \in T
  <2>1. each(<<>>) = <<>>
    OBVIOUS
  <2> QED
    BY <2>1, FlatEmpty, EmptySeq
<1>2. ASSUME NEW ess \in Seq(W0), NEW e \in W0, ess \in T
      PROVE  Append(ess, e) \in T
  <2>1. FlattenSeq(e) \in V /\ FlattenSeq(ess) \in W0 /\ each(ess) \in Seq(V)
        /\ FlattenSeq(FlattenSeq(ess)) = FlattenSeq(each(ess))
    BY <1>2, FlatType
  <2>2. each(Append(ess, e)) = Append(each(ess), FlattenSeq(e))
    <3> DEFINE a == each(Append(ess, e))
               b == Append(each(ess), FlattenSeq(e))
               n == Len(ess)
    <3>1. n \in Nat /\ Len(Append(ess, e)) = n + 1 /\ Append(ess, e)[n + 1] = e
          /\ DOMAIN Append(ess, e) = 1 .. n + 1
          /\ \A i \in 1 .. n : Append(ess, e)[i] = ess[i]
      OBVIOUS
    <3>2. a = [i \in 1 .. n + 1 |-> FlattenSeq(Append(ess, e)[i])]
      BY <3>1
    <3>3. Len(each(ess)) = n /\ \A i \in 1 .. n : each(ess)[i] = FlattenSeq(ess[i])
      BY <2>1
    <3>4. b \in Seq(V) /\ Len(b) = n + 1 /\ b[n + 1] = FlattenSeq(e)
          /\ \A i \in 1 .. n : b[i] = each(ess)[i]
      <4> HIDE DEF each, V
      <4> QED
        BY <2>1, <3>3, AppendProperties
    <3>5. \A i \in 1 .. n + 1 : i \in 1 .. n \/ i = n + 1
      BY <3>1
    <3> HIDE DEF each, n, b
    <3>6. \A i \in 1 .. n + 1 : b[i] = FlattenSeq(Append(ess, e)[i])
      BY <3>1, <3>3, <3>4, <3>5
    <3>7. b = [i \in 1 .. n + 1 |-> b[i]]
      BY <3>1, <3>4
    <3>8. a = b
      BY <3>2, <3>6, <3>7
    <3> QED
      BY <3>8 DEF b
  <2>3. FlattenSeq(Append(ess, e)) = FlattenSeq(ess) \o e
    BY FlatAppend
  <2>4. FlattenSeq(FlattenSeq(ess) \o e) = FlattenSeq(FlattenSeq(ess)) \o FlattenSeq(e)
    BY <2>1, FlatConcat
  <2> HIDE DEF each, V
  <2>5. FlattenSeq(Append(each(ess), FlattenSeq(e))) = FlattenSeq(each(ess)) \o FlattenSeq(e)
    BY <2>1, FlatAppend DEF V
  <2>6. Append(each(ess), FlattenSeq(e)) \in Seq(V) /\ Append(ess, e) \in Seq(W0)
    BY <2>1, AppendProperties
  <2> QED
    BY <2>1, <2>2, <2>3, <2>4, <2>5, <2>6
<1> HIDE DEF T, W0
<1>3. \A ess \in Seq(W0) : ess \in T
  BY <1>1, <1>2, Extended
<1> QED
  BY <1>3 DEF T, W0

\* What is in some sequence is in their concatenation.
Occurs(s, x) == \E i \in 1 .. Len(s) : s[i] = x
LEMMA FlatHas ==
  ASSUME NEW S, NEW x
  PROVE  \A ss \in Seq(Seq(S)) :
           Occurs(FlattenSeq(ss), x) <=> \E j \in 1 .. Len(ss) : Occurs(ss[j], x)
<1> DEFINE V == Seq(S)
           Has(s) == Occurs(s, x)
           T == {ss \in Seq(V) : Has(FlattenSeq(ss)) <=> \E j \in 1 .. Len(ss) : Has(ss[j])}
<1>1. <<>> \in T
  BY FlatEmpty DEF Occurs
<1>2. \A a, b \in V : Has(a \o b) <=> Has(a) \/ Has(b)
  <2> SUFFICES ASSUME NEW a \in V, NEW b \in V PROVE Has(a \o b) <=> Has(a) \/ Has(b)
    OBVIOUS
  <2>1. Len(a \o b) = Len(a) + Len(b) /\ Len(a) \in Nat /\ Len(b) \in Nat
    OBVIOUS
  <2>2. ASSUME NEW i \in 1 .. Len(a) PROVE i \in 1 .. Len(a \o b) /\ (a \o b)[i] = a[i]
    OBVIOUS
  <2>3. ASSUME NEW i \in 1 .. Len(b)
        PROVE  Len(a) + i \in 1 .. Len(a \o b) /\ (a \o b)[Len(a) + i] = b[i]
    OBVIOUS
  <2>4. ASSUME NEW i \in 1 .. Len(a \o b)
        PROVE  \/ i \in 1 .. Len(a) /\ (a \o b)[i] = a[i]
               \/ i - Len(a) \in 1 .. Len(b) /\ (a \o b)[i] = b[i - Len(a)]
    OBVIOUS
  <2> QED
    BY <2>2, <2>3, <2>4 DEF Occurs
<1>3. ASSUME NEW ss \in Seq(V), NEW e \in V, ss \in T
      PROVE  Append(ss, e) \in T
  <2>1. FlattenSeq(Append(ss, e)) = FlattenSeq(ss) \o e /\ FlattenSeq(ss) \in V
    BY FlatAppend, FlatType
  <2> DEFINE n == Len(ss)
             tt == Append(ss, e)
  <2>2. n \in Nat /\ Len(tt) = n + 1 /\ tt[n + 1] = e /\ (\A i \in 1 .. n : tt[i] = ss[i])
        /\ tt \in Seq(V)
    OBVIOUS
  <2>3. \A i : i \in 1 .. n + 1 <=> i \in 1 .. n \/ i = n + 1
    BY <2>2
  <2>4. Has(FlattenSeq(ss) \o e) <=> Has(FlattenSeq(ss)) \/ Has(e)
    BY <1>2, <2>1
  <2>5. Has(FlattenSeq(ss)) <=> \E j \in 1 .. n : Has(ss[j])
    BY <1>3
  <2> HIDE DEF Has, n, tt
  <2>6. (\E j \in 1 .. n + 1 : Has(tt[j])) <=> (\E j \in 1 .. n : Has(ss[j])) \/ Has(e)
    BY <2>2, <2>3
  <2>7. Has(FlattenSeq(tt)) <=> \E j \in 1 .. Len(tt) : Has(tt[j])
    BY <2>1, <2>2, <2>4, <2>5, <2>6 DEF tt
  <2> QED
    BY <2>2, <2>7 DEF tt
<1> HIDE DEF T, V
<1>4. \A ss \in Seq(V) : ss \in T
  BY <1>1, <1>3, Extended
<1> QED
  BY <1>4 DEF T, V

LEMMA TakeDrop ==
  ASSUME NEW S, NEW a \in Seq(S), NEW b \in Seq(S)
  PROVE  /\ SubSeq(a \o b, 1, Len(a)) = a /\ SubSeq(a \o b, Len(a) + 1, Len(a \o b)) = b
         /\ Len(a \o b) = Len(a) + Len(b) /\ Len(a) \in Nat /\ Len(b) \in Nat
<1> DEFINE s == a \o b
           m == Len(a)
           n == Len(b)
<1>1. /\ m \in Nat /\ n \in Nat /\ s \in Seq(S) /\ Len(s) = m + n
      /\ (\A i \in 1 .. m : s[i] = a[i]) /\ \A i \in 1 .. n : s[m + i] = b[i]
  OBVIOUS
<1> HIDE DEF s
<1>2. /\ SubSeq(s, 1, m) \in Seq(S) /\ Len(SubSeq(s, 1, m)) = m
      /\ \A i \in 1 .. m : SubSeq(s, 1, m)[i] = s[i]
  BY <1>1
<1>3. /\ SubSeq(s, m + 1, m + n) \in Seq(S) /\ Len(SubSeq(s, m + 1, m + n)) = n
      /\ \A i \in 1 .. n : SubSeq(s, m + 1, m + n)[i] = s[m + i]
  BY <1>1
<1>4. SubSeq(s, 1, m) = a
  BY <1>1, <1>2, SeqEqual
<1>5. SubSeq(s, m + 1, m + n) = b
  BY <1>1, <1>3, SeqEqual
<1> QED
  BY <1>1, <1>4, <1>5 DEF s

-----------------------------------------------------------------------------
(* Objects and their bytes.                                                *)

CONSTANTS Byte, Datum

\* What numbers, characters and the like are, and bytes, those of a Value that
\* a program makes included.  The names are those of the kinds, and of Send's key.
Kinds == {"PUT", "GET", "WAITANDGET", "REPLY", "REGISTER", "DIRECTORY", "STATUS", "KILL"}
Data == Datum \cup Nat \cup Kinds \cup {"k"}
AnyByte == ((DOMAIN Width) \X Data \X Nat) \cup Byte
Calls == Seq(Seq(AnyByte))

\* The objects: names are not empty.
Names == Seq(Data) \ {<<>>}
Keys == [k : Names, node : Nat]
Addresses == [ip : Data, port : Data]
Columns == [size : Nat, id : Names, segments : Seq(Keys)]
Arrays == [kind : {"array"}, type : {"I", "D", "B"}, items : Seq(Data)]
            \cup [kind : {"array"}, type : {"S"}, items : Seq(Seq(Data))]
Frames == {f \in [kind : {"frame"}, types : Seq(Data), rows : Nat, columns : Seq(Columns)] :
             Len(f.columns) = Len(f.types)}
Messages ==
  [kind : {"PUT"}, key : Keys, v : Seq(AnyByte)]
    \cup [kind : {"GET", "WAITANDGET"}, key : Keys]
    \cup [kind : {"REPLY"}, v : Seq(AnyByte)]
    \cup [kind : {"REGISTER"}, node : Nat, address : Addresses]
    \cup [kind : {"DIRECTORY"}, addresses : Seq(Addresses)]
    \cup [kind : {"STATUS"}, message : Seq(Data)]
    \cup [kind : {"KILL"}]

\* Garbage is no number and no bytes.
GarbageApart == Garbage \notin Nat /\ Garbage \notin Seq(AnyByte)

\* No call of a sequence adds nothing.
Filled(calls) == \A i \in 1 .. Len(calls) : calls[i] # <<>>

LEMMA ByteIn ==
  ASSUME NEW type \in DOMAIN Width, NEW v \in Data, NEW i \in Nat
  PROVE  <<type, v, i>> \in AnyByte
<1> DEFINE T == DOMAIN Width
<1>1. type \in T
  OBVIOUS
<1> HIDE DEF T
<1>2. <<type, v, i>> \in T \X Data \X Nat
  BY <1>1
<1> QED
  BY <1>2 DEF AnyByte, T

LEMMA EncodedType ==
  ASSUME NEW type \in DOMAIN Width, NEW v \in Data
  PROVE  /\ Encoded(type, v) \in Seq(AnyByte) /\ Len(Encoded(type, v)) = Width[type]
         /\ Width[type] \in Nat \ {0} /\ Encoded(type, v)[1][2] = v /\ Encoded(type, v) # <<>>
<1>1. Width[type] \in Nat \ {0}
  BY DEF Width
<1> DEFINE w == Width[type]
           e == [i \in 1 .. w |-> <<type, v, i>>]
<1>2. \A i \in 1 .. w : <<type, v, i>> \in AnyByte
  BY <1>1, ByteIn
<1> HIDE DEF w
<1>3. w \in Nat \ {0}
  BY <1>1 DEF w
<1>4. e \in Seq(AnyByte) /\ Len(e) = w /\ e[1] = <<type, v, 1>>
  <2>1. e \in [1 .. w -> AnyByte]
    BY <1>2
  <2> QED
    BY <1>3, <2>1
<1>5. e # <<>>
  BY <1>3, <1>4
<1>6. Encoded(type, v) = e
  BY DEF Encoded, w
<1> QED
  BY <1>3, <1>4, <1>5, <1>6 DEF w

LEMMA GetEncoded ==
  ASSUME NEW type \in DOMAIN Width, NEW v \in Data, NEW r \in Seq(AnyByte)
  PROVE  Get(type, Encoded(type, v) \o r) = [val |-> v, rest |-> r]
<1> DEFINE e == Encoded(type, v)
           d == e \o r
           w == Width[type]
<1>1. e \in Seq(AnyByte) /\ Len(e) = w /\ w \in Nat \ {0} /\ e[1][2] = v
  BY EncodedType
<1> HIDE DEF e, w
<1>2. SubSeq(d, 1, w) = e /\ SubSeq(d, w + 1, Len(d)) = r /\ Len(d) >= w
  BY <1>1, TakeDrop
<1>3. d[1] = e[1]
  BY <1>1
<1> HIDE DEF d
<1>4. SubSeq(d, 1, w) = Encoded(type, d[1][2])
  BY <1>1, <1>2, <1>3 DEF e
<1>5. Get(type, d) = [val |-> d[1][2], rest |-> SubSeq(d, w + 1, Len(d))]
  BY <1>2, <1>4 DEF Get, From, w
<1> QED
  BY <1>1, <1>2, <1>3, <1>5 DEF d, e

LEMMA SizeRead ==
  ASSUME NEW n \in Nat, NEW r \in Seq(AnyByte)
  PROVE  /\ GetSize(Encoded("size_t", n) \o r) = [val |-> n, rest |-> r]
         /\ Encoded("size_t", n) \in Seq(AnyByte) /\ Encoded("size_t", n) # <<>>
<1>1. "size_t" \in DOMAIN Width /\ n \in Data
  BY DEF Width, Data
<1> QED
  BY <1>1, GetEncoded, EncodedType DEF GetSize

LEMMA TwoCalls ==
  ASSUME NEW a \in Seq(AnyByte), NEW b \in Seq(AnyByte)
  PROVE  /\ <<a, b>> \in Calls /\ FlattenSeq(<<a, b>>) = a \o b
         /\ Filled(<<a, b>>) <=> a # <<>> /\ b # <<>>
<1> DEFINE V == Seq(AnyByte)
<1>1. a \in V /\ b \in V
  OBVIOUS
<1>2. FlattenSeq(<<a, b>>) = a \o b
  BY FlatTwo
<1> HIDE DEF V
<1>3. <<a, b>> \in Seq(V) /\ Len(<<a, b>>) = 2 /\ <<a, b>>[1] = a /\ <<a, b>>[2] = b
  BY <1>1
<1>4. \A i : i \in 1 .. 2 <=> i = 1 \/ i = 2
  OBVIOUS
<1>5. Filled(<<a, b>>) <=> a # <<>> /\ b # <<>>
  BY <1>3, <1>4 DEF Filled
<1> QED
  BY <1>2, <1>3, <1>5 DEF Calls, V

LEMMA ValueCalls ==
  ASSUME NEW v \in Seq(AnyByte)
  PROVE  /\ Value(v) \in Calls
         /\ FlattenSeq(Value(v)) = Encoded("size_t", Len(v)) \o v
         /\ Filled(Value(v)) <=> v # <<>>
<1> DEFINE a == Encoded("size_t", Len(v))
<1>1. a \in Seq(AnyByte) /\ a # <<>>
  <2>1. Len(v) \in Nat /\ <<>> \in Seq(AnyByte)
    OBVIOUS
  <2> QED
    BY <2>1, SizeRead
<1>2. Value(v) = <<a, v>>
  BY DEF Value
<1> HIDE DEF a
<1>3. <<a, v>> \in Calls /\ FlattenSeq(<<a, v>>) = a \o v /\ (Filled(<<a, v>>) <=> v # <<>>)
  BY <1>1, TwoCalls
<1> QED
  BY <1>2, <1>3 DEF a

LEMMA ValueRead ==
  ASSUME GarbageApart, NEW v \in Seq(AnyByte), v # <<>>, NEW r \in Seq(AnyByte)
  PROVE  ReadValue(FlattenSeq(Value(v)) \o r) = [val |-> v, rest |-> r]
<1> DEFINE n == Len(v)
           a == Encoded("size_t", n)
           d == v \o r
<1>1. n \in Nat /\ n > 0 /\ n # Garbage
  BY DEF GarbageApart
<1>2. a \in Seq(AnyByte) /\ d \in Seq(AnyByte)
  BY <1>1, SizeRead, ConcatProperties
<1>3. FlattenSeq(Value(v)) = a \o v
  BY ValueCalls
<1>4. (a \o v) \o r = a \o d
  BY <1>2, ConcatAssociative
<1>5. SubSeq(d, 1, n) = v /\ SubSeq(d, n + 1, Len(d)) = r /\ Len(d) >= n
  <2>1. Len(d) = n + Len(r) /\ Len(r) \in Nat
    BY TakeDrop
  <2> QED
    BY <1>1, <2>1, TakeDrop
<1>6. GetSize(a \o d) = [val |-> n, rest |-> d]
  BY <1>1, <1>2, SizeRead
<1> HIDE DEF n, a, d
<1>7. GetBuffer(n, d) = [val |-> v, rest |-> r]
  BY <1>1, <1>5 DEF GetBuffer, From
<1> QED
  BY <1>3, <1>4, <1>6, <1>7 DEF ReadValue

LEMMA StringCalls ==
  ASSUME NEW s \in Seq(Data)
  PROVE  /\ String(s) \in Calls
         /\ Filled(String(s)) <=> s # <<>>
<1> DEFINE c == [i \in DOMAIN s |-> <<"char", s[i], 1>>]
<1>1. c \in Seq(AnyByte) /\ (c = <<>> <=> s = <<>>)
  <2> DEFINE n == Len(s)
  <2>1. n \in Nat /\ DOMAIN s = 1 .. n /\ (s = <<>> <=> n = 0)
    OBVIOUS
  <2>2. \A i \in 1 .. n : <<"char", s[i], 1>> \in AnyByte
    <3>1. "char" \in DOMAIN Width /\ 1 \in Nat
      BY DEF Width
    <3>2. \A i \in 1 .. n : s[i] \in Data
      OBVIOUS
    <3> QED
      BY <3>1, <3>2, ByteIn
  <2> HIDE DEF n
  <2>3. c \in [1 .. n -> AnyByte]
    BY <2>1, <2>2
  <2> HIDE DEF c
  <2>4. c \in Seq(AnyByte) /\ Len(c) = n
    BY <2>1, <2>3
  <2> QED
    BY <2>1, <2>4
<1>2. String(s) = Value(c)
  BY DEF String
<1> HIDE DEF c
<1> QED
  BY <1>1, <1>2, ValueCalls

LEMMA StringRead ==
  ASSUME GarbageApart, NEW s \in Names, NEW r \in Seq(AnyByte)
  PROVE  ReadString(FlattenSeq(String(s)) \o r) = [val |-> s, rest |-> r]
<1> DEFINE c == [i \in DOMAIN s |-> <<"char", s[i], 1>>]
           n == Len(s)
<1>1. n \in Nat /\ DOMAIN s = 1 .. n /\ n # 0 /\ s \in Seq(Data)
  BY DEF Names
<1>2. \A i \in 1 .. n : <<"char", s[i], 1>> \in AnyByte
  <2>1. "char" \in DOMAIN Width /\ 1 \in Nat
    BY DEF Width
  <2>2. \A i \in 1 .. n : s[i] \in Data
    BY <1>1
  <2> QED
    BY <2>1, <2>2, ByteIn
<1>3. c \in [1 .. n -> AnyByte] /\ \A i \in 1 .. n : c[i][2] = s[i]
  BY <1>1, <1>2
<1>4. String(s) = Value(c)
  BY DEF String
<1>5. s = [i \in 1 .. n |-> s[i]]
  BY <1>1
<1> HIDE DEF c, n
<1>6. c \in Seq(AnyByte) /\ c # <<>> /\ DOMAIN c = 1 .. n
  BY <1>1, <1>3
<1>7. ReadValue(FlattenSeq(Value(c)) \o r) = [val |-> c, rest |-> r]
  BY <1>6, ValueRead
<1>8. [val |-> c, rest |-> r] # Failed
  BY <1>6 DEF Failed, GarbageApart
<1>9. [i \in DOMAIN c |-> c[i][2]] = s
  BY <1>3, <1>5, <1>6
<1> QED
  BY <1>4, <1>7, <1>8, <1>9 DEF ReadString

-----------------------------------------------------------------------------
(* The buffer of a Serializer.                                             *)

\* Any program that uses Serializers.
BufferSpec == SInit /\ [][Renew \/ \E b \in Seq(AnyByte) \ {<<>>} : Add(b)]_svars

\* The capacity never falls below the first.
BufferIInv == InBounds /\ TightGrowth /\ capacity >= Initial

\* The factor that expand_ finds makes room, and no more than it has to.
LEMMA FactorFits ==
  ASSUME NEW c \in Nat, NEW f \in Nat, NEW min \in Nat,
         c > 0, f >= 2, c < min, min < c * f, f = 2 \/ min >= c * (f - 1)
  PROVE  /\ c * f \in Nat
         /\ c * f < 2 * min
         /\ c * f >= c
<1>1. c * f \in Nat
  OBVIOUS
<1>2. c * f = c * (f - 1) + c
  OBVIOUS
<1>3. c * f < 2 * min
  <2>1. CASE f = 2
    BY <2>1
  <2>2. CASE min >= c * (f - 1)
    <3>1. c * (f - 1) \in Nat
      OBVIOUS
    <3>2. QED
      BY <3>1, <2>2, <1>2
  <2>3. QED
    BY <2>1, <2>2
<1>4. c * f >= c
  <2>1. c * (f - 1) \in Nat
    OBVIOUS
  <2>2. QED
    BY <2>1, <1>2
<1>5. QED
  BY <1>1, <1>3, <1>4

\* What Add does, in terms of one new capacity.
LEMMA AddGrows ==
  ASSUME BufferIInv, NEW b \in Seq(AnyByte) \ {<<>>}, Add(b)
  PROVE  /\ Len(b) \in Nat \ {0}
         /\ size' = size + Len(b)
         /\ capacity' \in Nat
         /\ capacity' >= Initial
         /\ size' <= capacity'
         /\ capacity' = capacity \/ capacity' < 2 * size'
         /\ \/ bytes' = Written(bytes, b) /\ capacity' = capacity
            \/ bytes' = Written(Copied(capacity'), b)
<1> USE SerializerAssumption DEF BufferIInv, InBounds
<1>1. Len(b) \in Nat \ {0}
  OBVIOUS
<1>2. size' = size + Len(b)
  BY DEF Add
<1>3. CASE size + Len(b) <= capacity /\ capacity' = capacity /\ bytes' = Written(bytes, b)
  BY <1>1, <1>2, <1>3
<1>4. CASE size + Len(b) > capacity
             /\ \E f \in Factor(size + Len(b)) :
                  capacity' = capacity * f /\ bytes' = Written(Copied(capacity * f), b)
  <2> DEFINE min == size + Len(b)
  <2>1. PICK f \in Factor(min) :
          capacity' = capacity * f /\ bytes' = Written(Copied(capacity * f), b)
    BY <1>4
  <2>2. min \in Nat /\ capacity < min
    BY <1>1, <1>4
  <2>3. /\ f \in Nat
        /\ f >= 2
        /\ min < capacity * f
        /\ f = 2 \/ min >= capacity * (f - 1)
    BY <2>2 DEF Factor
  <2> HIDE DEF min
  <2>4. capacity \in Nat /\ capacity > 0 /\ capacity >= Initial /\ Initial \in Nat
    OBVIOUS
  <2>5. /\ capacity * f \in Nat
        /\ capacity * f < 2 * min
        /\ capacity * f >= capacity
    BY <2>2, <2>3, <2>4, FactorFits
  <2>6. size' = min
    BY <1>2 DEF min
  <2> DEFINE grown == capacity * f
  <2>7. grown \in Nat /\ grown < 2 * min /\ grown >= capacity /\ min < grown
    BY <2>3, <2>5
  <2>8. capacity' = grown /\ bytes' = Written(Copied(grown), b)
    BY <2>1
  <2> HIDE DEF grown
  <2>9. QED
    BY <1>1, <1>2, <2>2, <2>4, <2>6, <2>7, <2>8
<1>5. QED
  BY <1>3, <1>4 DEF Add

LEMMA BufferInit == SInit => BufferIInv
BY SerializerAssumption DEF SInit, New, BufferIInv, InBounds, TightGrowth

LEMMA BufferNext ==
  ASSUME BufferIInv, [Renew \/ \E b \in Seq(AnyByte) \ {<<>>} : Add(b)]_svars
  PROVE  BufferIInv'
<1>1. CASE Renew
  BY <1>1, SerializerAssumption DEF Renew, New, BufferIInv, InBounds, TightGrowth
<1>2. ASSUME NEW b \in Seq(AnyByte) \ {<<>>}, Add(b)
      PROVE  BufferIInv'
  <2>1. /\ Len(b) \in Nat \ {0}
        /\ size' = size + Len(b)
        /\ capacity' \in Nat
        /\ capacity' >= Initial
        /\ size' <= capacity'
        /\ capacity' = capacity \/ capacity' < 2 * size'
        /\ \/ bytes' = Written(bytes, b) /\ capacity' = capacity
           \/ bytes' = Written(Copied(capacity'), b)
    BY <1>2, AddGrows
  <2>2. DOMAIN bytes' = 1 .. capacity'
    BY <2>1 DEF BufferIInv, InBounds, Written, Copied
  <2>3. InBounds'
    BY <2>1, <2>2 DEF BufferIInv, InBounds
  <2>4. TightGrowth'
    BY <2>1, SerializerAssumption DEF BufferIInv, InBounds, TightGrowth
  <2>5. QED
    BY <2>1, <2>3, <2>4 DEF BufferIInv
<1>3. CASE UNCHANGED svars
  BY <1>3 DEF svars, BufferIInv, InBounds, TightGrowth
<1>4. QED
  BY <1>1, <1>2, <1>3

\* No add_ call writes behind the end of the buffer.
THEOREM BoundsCorrect == BufferSpec => []InBounds
<1>1. BufferIInv => InBounds
  BY DEF BufferIInv
<1>2. QED
  BY BufferInit, BufferNext, <1>1, PTL DEF BufferSpec

\* A grown buffer is less than twice as long as what it holds.
THEOREM GrowthCorrect == BufferSpec => []TightGrowth
<1>1. BufferIInv => TightGrowth
  BY DEF BufferIInv
<1>2. QED
  BY BufferInit, BufferNext, <1>1, PTL DEF BufferSpec

\* No add_ call, and no growth of the buffer, changes what was added before.
THEOREM BytesCorrect == BufferSpec => KeepsBytes
<1> DEFINE Keeps == size' > size => \A i \in 1 .. size : bytes'[i] = bytes[i]
<1>1. ASSUME BufferIInv, [Renew \/ \E b \in Seq(AnyByte) \ {<<>>} : Add(b)]_svars
      PROVE  [Keeps]_svars
  <2>1. CASE Renew
    BY <1>1, <2>1 DEF Renew, New, BufferIInv, InBounds
  <2>2. ASSUME NEW b \in Seq(AnyByte) \ {<<>>}, Add(b)
        PROVE  Keeps
    <3>1. /\ Len(b) \in Nat \ {0}
          /\ size' = size + Len(b)
          /\ capacity' \in Nat
          /\ size' <= capacity'
          /\ \/ bytes' = Written(bytes, b) /\ capacity' = capacity
             \/ bytes' = Written(Copied(capacity'), b)
      BY <1>1, <2>2, AddGrows
    <3>2. SUFFICES ASSUME NEW i \in 1 .. size
                   PROVE  bytes'[i] = bytes[i]
      OBVIOUS
    <3>3. size \in Nat /\ capacity \in Nat /\ size <= capacity /\ DOMAIN bytes = 1 .. capacity
      BY <1>1 DEF BufferIInv, InBounds
    <3>4. CASE bytes' = Written(bytes, b)
      BY <3>1, <3>2, <3>3, <3>4 DEF Written
    <3>5. CASE bytes' = Written(Copied(capacity'), b)
      <4>1. i \in 1 .. capacity' /\ i \notin size + 1 .. size + Len(b) /\ i <= size
        BY <3>1, <3>2, <3>3
      <4>2. DOMAIN Copied(capacity') = 1 .. capacity' /\ Copied(capacity')[i] = bytes[i]
        BY <4>1 DEF Copied
      <4>3. QED
        BY <3>5, <4>1, <4>2 DEF Written
    <3>6. QED
      BY <3>1, <3>4, <3>5
  <2>3. QED
    BY <1>1, <2>1, <2>2
<1>2. QED
  BY BufferInit, BufferNext, <1>1, PTL DEF BufferSpec, KeepsBytes

LEMMA Concats ==
  ASSUME NEW a \in Seq(AnyByte), NEW b \in Seq(AnyByte), NEW c \in Seq(AnyByte)
  PROVE  (a \o b) \o c = a \o (b \o c) /\ b \o c \in Seq(AnyByte)
<1> QED
  BY ConcatAssociative, ConcatProperties

LEMMA CallsConcat ==
  ASSUME NEW a \in Calls, NEW b \in Calls
  PROVE  /\ a \o b \in Calls /\ FlattenSeq(a \o b) = FlattenSeq(a) \o FlattenSeq(b)
         /\ FlattenSeq(a) \in Seq(AnyByte) /\ FlattenSeq(b) \in Seq(AnyByte)
         /\ Filled(a \o b) <=> Filled(a) /\ Filled(b)
<1> DEFINE V == Seq(AnyByte)
<1>1. a \in Seq(V) /\ b \in Seq(V)
  BY DEF Calls
<1>2. FlattenSeq(a) \in V /\ FlattenSeq(b) \in V /\ FlattenSeq(a \o b) = FlattenSeq(a) \o FlattenSeq(b)
  BY <1>1, FlatType, FlatConcat
<1> HIDE DEF V
<1> DEFINE m == Len(a)
           n == Len(b)
           s == a \o b
<1>3. /\ m \in Nat /\ n \in Nat /\ s \in Seq(V) /\ Len(s) = m + n
      /\ (\A i \in 1 .. m : s[i] = a[i]) /\ \A i \in 1 .. n : s[m + i] = b[i]
  BY <1>1
<1> HIDE DEF m, n, s
<1>4. (\A i \in 1 .. m + n : s[i] # <<>>)
        <=> (\A i \in 1 .. m : a[i] # <<>>) /\ \A i \in 1 .. n : b[i] # <<>>
  <2>1. \A i \in 1 .. m : i \in 1 .. m + n
    BY <1>3
  <2>2. \A i \in 1 .. n : m + i \in 1 .. m + n
    BY <1>3
  <2>3. \A i \in 1 .. m + n : i \in 1 .. m \/ \E j \in 1 .. n : i = m + j
    <3> SUFFICES ASSUME NEW i \in 1 .. m + n, i \notin 1 .. m PROVE \E j \in 1 .. n : i = m + j
      OBVIOUS
    <3>1. i - m \in 1 .. n /\ i = m + (i - m)
      BY <1>3
    <3> QED
      BY <3>1
  <2>4. ASSUME \A i \in 1 .. m + n : s[i] # <<>>
        PROVE  (\A i \in 1 .. m : a[i] # <<>>) /\ \A i \in 1 .. n : b[i] # <<>>
    BY <1>3, <2>1, <2>2, <2>4
  <2>5. ASSUME \A i \in 1 .. m : a[i] # <<>>, \A i \in 1 .. n : b[i] # <<>>,
               NEW i \in 1 .. m + n
        PROVE  s[i] # <<>>
    BY <1>3, <2>3, <2>5
  <2> QED
    BY <2>4, <2>5
<1> QED
  BY <1>1, <1>2, <1>3, <1>4 DEF Filled, Calls, V, m, n, s

LEMMA OneCall ==
  ASSUME NEW c \in Seq(AnyByte)
  PROVE  <<c>> \in Calls /\ FlattenSeq(<<c>>) = c /\ (Filled(<<c>>) <=> c # <<>>)
<1> DEFINE V == Seq(AnyByte)
<1>1. FlattenSeq(<<c>>) = c
  BY FlatOne
<1>2. c \in V
  OBVIOUS
<1> HIDE DEF V
<1>3. <<c>> \in Seq(V) /\ Len(<<c>>) = 1 /\ <<c>>[1] = c
  BY <1>2
<1>4. \A i : i \in 1 .. 1 <=> i = 1
  OBVIOUS
<1>5. Filled(<<c>>) <=> c # <<>>
  BY <1>3, <1>4 DEF Filled
<1> QED
  BY <1>1, <1>3, <1>5 DEF Calls, V

\* Calls before others, and one behind them.
LEMMA CallsBefore ==
  ASSUME NEW a \in Calls, NEW b \in Calls, NEW r \in Seq(AnyByte)
  PROVE  /\ a \o b \in Calls
         /\ FlattenSeq(a \o b) \o r = FlattenSeq(a) \o (FlattenSeq(b) \o r)
         /\ FlattenSeq(b) \o r \in Seq(AnyByte)
         /\ Filled(a \o b) <=> Filled(a) /\ Filled(b)
<1>1. /\ a \o b \in Calls /\ FlattenSeq(a \o b) = FlattenSeq(a) \o FlattenSeq(b)
      /\ FlattenSeq(a) \in Seq(AnyByte) /\ FlattenSeq(b) \in Seq(AnyByte)
      /\ (Filled(a \o b) <=> Filled(a) /\ Filled(b))
  BY CallsConcat
<1>2. /\ (FlattenSeq(a) \o FlattenSeq(b)) \o r = FlattenSeq(a) \o (FlattenSeq(b) \o r)
      /\ FlattenSeq(b) \o r \in Seq(AnyByte)
  BY <1>1, ConcatAssociative, ConcatProperties
<1> QED
  BY <1>1, <1>2

LEMMA CallBehind ==
  ASSUME NEW c \in Seq(AnyByte), NEW a \in Calls
  PROVE  Append(a, c) \in Calls /\ (Filled(Append(a, c)) <=> Filled(a) /\ c # <<>>)
<1> DEFINE u == <<c>>
<1>1. u \in Calls /\ (Filled(u) <=> c # <<>>)
  BY OneCall
<1>2. Append(a, c) = a \o u
  BY AppendIsConcat DEF Calls
<1> HIDE DEF u
<1>3. a \o u \in Calls /\ (Filled(a \o u) <=> Filled(a) /\ Filled(u))
  BY <1>1, CallsConcat
<1> QED
  BY <1>1, <1>2, <1>3

LEMMA BytesBehind ==
  ASSUME NEW c \in Seq(AnyByte), NEW a \in Calls, NEW r \in Seq(AnyByte)
  PROVE  FlattenSeq(Append(a, c)) \o r = FlattenSeq(a) \o (c \o r) /\ c \o r \in Seq(AnyByte)
<1>1. FlattenSeq(Append(a, c)) = FlattenSeq(a) \o c
  BY FlatAppend DEF Calls
<1>2. FlattenSeq(a) \in Seq(AnyByte)
  BY FlatType DEF Calls
<1> DEFINE f == FlattenSeq(a)
<1>3. f \in Seq(AnyByte)
  BY <1>2
<1> HIDE DEF f
<1>4. (f \o c) \o r = f \o (c \o r) /\ c \o r \in Seq(AnyByte)
  BY <1>3, Concats
<1> QED
  BY <1>1, <1>4 DEF f

\* One read after the other.
LEMMA KeyInTurn ==
  ASSUME NEW d, NEW e, NEW r, NEW x, NEW y,
         ReadString(d) = [val |-> x, rest |-> e], GetSize(e) = [val |-> y, rest |-> r]
  PROVE  ReadKey(d) = [val |-> [k |-> x, node |-> y], rest |-> r]
<1> QED
  BY DEF ReadKey

LEMMA AddressInTurn ==
  ASSUME NEW d, NEW e, NEW r, NEW x, NEW y,
         Get("uint32", d) = [val |-> x, rest |-> e], Get("uint16", e) = [val |-> y, rest |-> r]
  PROVE  ReadAddress(d) = [val |-> [ip |-> x, port |-> y], rest |-> r]
<1> QED
  BY DEF ReadAddress

LEMMA KeyRead ==
  ASSUME NEW k \in Keys
  PROVE  /\ Key(k) \in Calls /\ Filled(Key(k))
         /\ \A r \in Seq(AnyByte) : GarbageApart =>
              ReadKey(FlattenSeq(Key(k)) \o r) = [val |-> k, rest |-> r]
<1> DEFINE e == Encoded("size_t", k.node)
           s == String(k.k)
<1>1. k.k \in Names /\ k.node \in Nat /\ k.k \in Seq(Data) /\ k.k # <<>> /\ k = [k |-> k.k, node |-> k.node]
  BY DEF Keys, Names
<1>2. e \in Seq(AnyByte) /\ e # <<>> /\ \A r \in Seq(AnyByte) : GetSize(e \o r) = [val |-> k.node, rest |-> r]
  <2>1. <<>> \in Seq(AnyByte)
    OBVIOUS
  <2> QED
    BY <1>1, <2>1, SizeRead
<1>3. s \in Calls /\ Filled(s)
  BY <1>1, StringCalls
<1>4. Key(k) = Append(s, e)
  BY DEF Key
<1> HIDE DEF e, s
<1>5. Append(s, e) \in Calls /\ Filled(Append(s, e))
  <2>1. e \in Seq(AnyByte) /\ s \in Calls /\ e # <<>> /\ Filled(s)
    BY <1>2, <1>3
  <2> QED
    BY <2>1, CallBehind
<1>6. ASSUME NEW r \in Seq(AnyByte), GarbageApart
      PROVE  ReadKey(FlattenSeq(Append(s, e)) \o r) = [val |-> k, rest |-> r]
  <2> DEFINE er == e \o r
             d == FlattenSeq(s) \o er
  <2>1. FlattenSeq(Append(s, e)) \o r = d /\ er \in Seq(AnyByte)
    <3>1. e \in Seq(AnyByte) /\ s \in Calls
      BY <1>2, <1>3
    <3> QED
      BY <3>1, BytesBehind
  <2>2. ReadString(d) = [val |-> k.k, rest |-> er]
    <3> HIDE DEF er
    <3> QED
      BY <1>1, <1>6, <2>1, StringRead DEF s
  <2>3. GetSize(er) = [val |-> k.node, rest |-> r]
    BY <1>2
  <2> HIDE DEF d, er
  <2>4. ReadKey(d) = [val |-> [k |-> k.k, node |-> k.node], rest |-> r]
    BY <2>2, <2>3, KeyInTurn
  <2> QED
    BY <1>1, <2>1, <2>4
<1> QED
  BY <1>4, <1>5, <1>6

LEMMA AddressRead ==
  ASSUME NEW a \in Addresses
  PROVE  /\ Address(a) \in Calls /\ Filled(Address(a))
         /\ \A r \in Seq(AnyByte) : ReadAddress(FlattenSeq(Address(a)) \o r) = [val |-> a, rest |-> r]
<1> DEFINE e == Encoded("uint32", a.ip)
           f == Encoded("uint16", a.port)
<1>1. a.ip \in Data /\ a.port \in Data /\ a = [ip |-> a.ip, port |-> a.port]
  BY DEF Addresses
<1>2. "uint32" \in DOMAIN Width /\ "uint16" \in DOMAIN Width
  BY DEF Width
<1>3. e \in Seq(AnyByte) /\ e # <<>> /\ f \in Seq(AnyByte) /\ f # <<>>
  BY <1>1, <1>2, EncodedType
<1>4. \A r \in Seq(AnyByte) : /\ Get("uint32", e \o r) = [val |-> a.ip, rest |-> r]
                              /\ Get("uint16", f \o r) = [val |-> a.port, rest |-> r]
  BY <1>1, <1>2, GetEncoded
<1>5. Address(a) = <<e, f>>
  BY DEF Address
<1> HIDE DEF e, f
<1>6. <<e, f>> \in Calls /\ FlattenSeq(<<e, f>>) = e \o f /\ Filled(<<e, f>>)
  BY <1>3, TwoCalls
<1>7. ASSUME NEW r \in Seq(AnyByte)
      PROVE  ReadAddress((e \o f) \o r) = [val |-> a, rest |-> r]
  <2> DEFINE fr == f \o r
             d == e \o fr
  <2>1. (e \o f) \o r = d /\ fr \in Seq(AnyByte)
    BY <1>3, Concats
  <2>2. Get("uint32", d) = [val |-> a.ip, rest |-> fr] /\ Get("uint16", fr) = [val |-> a.port, rest |-> r]
    BY <1>4, <2>1
  <2> HIDE DEF d, fr
  <2>3. ReadAddress(d) = [val |-> [ip |-> a.ip, port |-> a.port], rest |-> r]
    BY <2>2, AddressInTurn
  <2> QED
    BY <1>1, <2>1, <2>3
<1> QED
  BY <1>5, <1>6, <1>7

\* An integer, a call of its own.
LEMMA IntRead ==
  ASSUME NEW x \in Data
  PROVE  /\ <<Encoded("int", x)>> \in Calls /\ Filled(<<Encoded("int", x)>>)
         /\ \A r \in Seq(AnyByte) :
              Get("int", FlattenSeq(<<Encoded("int", x)>>) \o r) = [val |-> x, rest |-> r]
<1> DEFINE c == Encoded("int", x)
<1>1. "int" \in DOMAIN Width
  BY DEF Width
<1>2. c \in Seq(AnyByte) /\ c # <<>> /\ \A r \in Seq(AnyByte) : Get("int", c \o r) = [val |-> x, rest |-> r]
  BY <1>1, EncodedType, GetEncoded
<1> HIDE DEF c
<1>3. <<c>> \in Calls /\ FlattenSeq(<<c>>) = c /\ Filled(<<c>>)
  BY <1>2, OneCall
<1> QED
  BY <1>2, <1>3 DEF c

-----------------------------------------------------------------------------
(* Reads in a row.                                                         *)

LEMMA ValRest ==
  ASSUME NEW u, NEW v, NEW w, u = [val |-> v, rest |-> w]
  PROVE  u.val = v /\ u.rest = w
<1> QED
  OBVIOUS

\* What is left after each.
LEMMA Rests ==
  ASSUME NEW E \in Calls, NEW t \in Seq(AnyByte)
  PROVE  \E h : /\ h[0] = FlattenSeq(E) \o t /\ h[Len(E)] = t
                /\ \A i \in 1 .. Len(E) : h[i-1] = E[i] \o h[i] /\ h[i] \in Seq(AnyByte)
<1> DEFINE n == Len(E)
           V == Seq(AnyByte)
           left(i) == FlattenSeq(SubSeq(E, i + 1, n)) \o t
           g == [i \in 0 .. n |-> left(i)]
<1>1. n \in Nat /\ E \in Seq(V) /\ \A i \in 1 .. n : E[i] \in V
  BY DEF Calls
<1>2. left(0) = FlattenSeq(E) \o t
  <2>1. SubSeq(E, 1, n) = E
    BY <1>1, SubSeqFull
  <2>2. 0 + 1 = 1
    OBVIOUS
  <2> HIDE DEF n
  <2> QED
    BY <2>1, <2>2
<1>3. left(n) = t
  <2>1. SubSeq(E, n + 1, n) = <<>>
    BY <1>1, SubSeqEmpty
  <2>2. <<>> \o t = t
    BY ConcatEmptySeq
  <2> QED
    BY <2>1, <2>2, FlatEmpty
<1>4. ASSUME NEW i \in 1 .. n
      PROVE  left(i-1) = E[i] \o left(i) /\ left(i) \in V
  <2> DEFINE b == SubSeq(E, i + 1, n)
  <2>1. i - 1 + 1 = i
    BY <1>1
  <2>2. FlattenSeq(SubSeq(E, i, n)) = E[i] \o FlattenSeq(b)
    BY <1>1, FlatSuffix
  <2>3. b \in Seq(V) /\ E[i] \in V
    BY <1>1
  <2>4. FlattenSeq(b) \in V
    BY <2>3, FlatType
  <2> DEFINE fb == FlattenSeq(b)
             e == E[i]
  <2>0. t \in V /\ e \in V /\ fb \in V
    BY <2>3, <2>4
  <2> HIDE DEF b, V, fb, e
  <2>5. (e \o fb) \o t = e \o (fb \o t) /\ fb \o t \in V
    BY <2>0, Concats DEF V
  <2>6. (E[i] \o FlattenSeq(b)) \o t = E[i] \o (FlattenSeq(b) \o t) /\ FlattenSeq(b) \o t \in V
    BY <2>5 DEF e, fb
  <2> QED
    BY <2>1, <2>2, <2>6 DEF b
<1> HIDE DEF left
<1>5. PICK h : h = g
  OBVIOUS
<1>6. \A i \in 0 .. n : h[i] = left(i)
  BY <1>5
<1> HIDE DEF g
<1>7. \A i \in 1 .. n : h[i-1] = E[i] \o h[i] /\ h[i] \in V
  <2> SUFFICES ASSUME NEW i \in 1 .. n PROVE h[i-1] = E[i] \o h[i] /\ h[i] \in V
    OBVIOUS
  <2>1. i - 1 \in 0 .. n /\ i \in 0 .. n
    BY <1>1
  <2> QED
    BY <1>4, <1>6, <2>1
<1>8. 0 \in 0 .. n /\ n \in 0 .. n
  BY <1>1
<1> QED
  BY <1>2, <1>3, <1>6, <1>7, <1>8

\* The values read so far, and what is left.
SoFar(x, h) == [i \in 0 .. Len(x) |-> [val |-> SubSeq(x, 1, i), rest |-> h[i]]]

Growing(x, h, g) ==
  /\ g[0] = [val |-> <<>>, rest |-> h[0]]
  /\ g[Len(x)] = [val |-> x, rest |-> h[Len(x)]]
  /\ \A i \in 1 .. Len(x) :
       /\ g[i-1].rest = h[i-1]
       /\ g[i] = [val |-> Append(g[i-1].val, x[i]), rest |-> h[i]]

LEMMA OneMore ==
  ASSUME NEW S, NEW x \in Seq(S), NEW h
  PROVE  Growing(x, h, SoFar(x, h))
<1> DEFINE n == Len(x)
           V == Seq(S)
           g == SoFar(x, h)
<1>1. n \in Nat /\ SubSeq(x, 1, 0) = <<>> /\ SubSeq(x, 1, n) = x
  BY SubSeqFull, SubSeqEmpty
<1>2. ASSUME NEW i \in 1 .. n
      PROVE  SubSeq(x, 1, i) = Append(SubSeq(x, 1, i - 1), x[i])
  BY SubSeqRecursiveSecond
<1>3. \A i \in 0 .. n : g[i] = [val |-> SubSeq(x, 1, i), rest |-> h[i]]
  BY DEF SoFar
<1> HIDE DEF g
<1>4. 0 \in 0 .. n /\ n \in 0 .. n /\ \A i \in 1 .. n : i - 1 \in 0 .. n /\ i \in 0 .. n
  BY <1>1
<1>5. \A i \in 1 .. n : g[i-1].rest = h[i-1] /\ g[i] = [val |-> Append(g[i-1].val, x[i]), rest |-> h[i]]
  <2> SUFFICES ASSUME NEW i \in 1 .. n
               PROVE  g[i-1].rest = h[i-1] /\ g[i] = [val |-> Append(g[i-1].val, x[i]), rest |-> h[i]]
    OBVIOUS
  <2> DEFINE k == i - 1
  <2>1. k \in 0 .. n /\ i \in 0 .. n
    BY <1>4
  <2>2. SubSeq(x, 1, i) = Append(SubSeq(x, 1, k), x[i])
    BY <1>2
  <2> HIDE DEF k
  <2>3. g[k] = [val |-> SubSeq(x, 1, k), rest |-> h[k]] /\ g[i] = [val |-> SubSeq(x, 1, i), rest |-> h[i]]
    BY <1>3, <2>1
  <2>4. g[k].val = SubSeq(x, 1, k) /\ g[k].rest = h[k]
    BY <2>3, ValRest
  <2>5. g[i] = [val |-> Append(g[k].val, x[i]), rest |-> h[i]]
    BY <2>2, <2>3, <2>4
  <2> QED
    BY <2>4, <2>5 DEF k
<1> QED
  BY <1>1, <1>3, <1>4, <1>5 DEF g, Growing

LEMMA AllRead ==
  ASSUME NEW S, NEW x \in Seq(S), NEW h, NEW f, f[0] = [val |-> <<>>, rest |-> h[0]],
         \A i \in 1 .. Len(x) : f[i-1].rest = h[i-1] =>
           f[i] = [val |-> Append(f[i-1].val, x[i]), rest |-> h[i]]
  PROVE  f[Len(x)] = [val |-> x, rest |-> h[Len(x)]]
<1> DEFINE n == Len(x)
           g == SoFar(x, h)
           T == {i \in Nat : i \in 0 .. n => f[i] = g[i]}
<1>1. n \in Nat
  OBVIOUS
<1>2. /\ g[0] = [val |-> <<>>, rest |-> h[0]] /\ g[n] = [val |-> x, rest |-> h[n]]
      /\ \A i \in 1 .. n : g[i-1].rest = h[i-1]
                           /\ g[i] = [val |-> Append(g[i-1].val, x[i]), rest |-> h[i]]
  <2>1. Growing(x, h, g)
    BY OneMore
  <2> HIDE DEF g
  <2> QED
    BY <2>1 DEF Growing
<1> HIDE DEF g
<1>3. 0 \in T
  BY <1>2
<1>4. ASSUME NEW k \in Nat, k \in T
      PROVE  k + 1 \in T
  <2> SUFFICES ASSUME k + 1 \in 0 .. n PROVE f[k+1] = g[k+1]
    OBVIOUS
  <2> DEFINE i == k + 1
  <2>1. i \in 1 .. n /\ i - 1 = k /\ k \in 0 .. n
    BY <1>1
  <2>2. f[i-1] = g[i-1]
    BY <1>4, <2>1
  <2> HIDE DEF i
  <2>3. f[i] = g[i]
    BY <1>2, <2>1, <2>2
  <2> QED
    BY <2>3 DEF i
<1> HIDE DEF T
<1>5. \A k \in Nat : k \in T
  BY <1>3, <1>4, UpFromZero
<1>6. f[n] = g[n]
  BY <1>1, <1>5 DEF T
<1> QED
  BY <1>2, <1>6

\* n reads of the same, when each reads what is its.
Sizes(n, d) == ReadTimes(GetSize, n, d)
Ints(n, d) == ReadTimes(LAMBDA r : Get("int", r), n, d)
Items(type, n, d) == ReadTimes(LAMBDA r : ReadItem(type, r), n, d)
Keyed(n, d) == ReadTimes(ReadKey, n, d)
Addressed(n, d) == ReadTimes(ReadAddress, n, d)
Columned(n, d) == ReadTimes(ReadColumn, n, d)

LEMMA SizesInTurn ==
  ASSUME NEW S, NEW x \in Seq(S), Len(x) # Garbage,
         NEW E \in Calls, Len(E) = Len(x), NEW t \in Seq(AnyByte),
         \A i \in 1 .. Len(x) : \A r \in Seq(AnyByte) : GetSize(E[i] \o r) = [val |-> x[i], rest |-> r]
  PROVE  Sizes(Len(x), FlattenSeq(E) \o t) = [val |-> x, rest |-> t]
<1> DEFINE n == Len(x)
           d == FlattenSeq(E) \o t
           After(f) == f = [i \in 0 .. n |->
                             IF i = 0 THEN [val |-> <<>>, rest |-> d]
                             ELSE [val |-> Append(f[i-1].val, GetSize(f[i-1].rest).val),
                                   rest |-> GetSize(f[i-1].rest).rest]]
           f == CHOOSE f : After(f)
<1>0. PICK h : /\ h[0] = FlattenSeq(E) \o t /\ h[Len(E)] = t
               /\ \A i \in 1 .. Len(E) : h[i-1] = E[i] \o h[i] /\ h[i] \in Seq(AnyByte)
  BY Rests
<1>1. /\ h[0] = d /\ h[n] = t
      /\ \A i \in 1 .. n : h[i-1] = E[i] \o h[i] /\ h[i] \in Seq(AnyByte)
  BY <1>0
<1>2. \A i \in 1 .. n : GetSize(h[i-1]) = [val |-> x[i], rest |-> h[i]]
  BY <1>1
<1> HIDE DEF d
<1>3. n \in Nat
  OBVIOUS
<1>4. Sizes(n, d) = f[n]
  BY DEF ReadTimes, Sizes
<1>5. \E g : After(g)
  <2> DEFINE g == SoFar(x, h)
  <2>0. Growing(x, h, g)
    BY OneMore
  <2>1. /\ g[0] = [val |-> <<>>, rest |-> h[0]]
        /\ \A i \in 1 .. n : g[i-1].rest = h[i-1]
                             /\ g[i] = [val |-> Append(g[i-1].val, x[i]), rest |-> h[i]]
    BY <2>0 DEF Growing
  <2>2. g = [i \in 0 .. n |-> g[i]]
    BY DEF SoFar
  <2> HIDE DEF g, n
  <2>3. ASSUME NEW i \in 0 .. n
        PROVE  g[i] = IF i = 0 THEN [val |-> <<>>, rest |-> d]
                      ELSE [val |-> Append(g[i-1].val, GetSize(g[i-1].rest).val),
                            rest |-> GetSize(g[i-1].rest).rest]
    <3>1. CASE i = 0
      BY <1>1, <2>1, <3>1
    <3>2. CASE i # 0
      <4>1. i \in 1 .. n
        BY <1>3, <3>2
      <4>2. GetSize(g[i-1].rest) = [val |-> x[i], rest |-> h[i]]
        BY <1>2, <2>1, <4>1
      <4>3. GetSize(g[i-1].rest).val = x[i] /\ GetSize(g[i-1].rest).rest = h[i]
        BY <4>2, ValRest
      <4>4. g[i] = [val |-> Append(g[i-1].val, x[i]), rest |-> h[i]]
        BY <2>1, <4>1
      <4> QED
        BY <3>2, <4>3, <4>4
    <3> QED
      BY <3>1, <3>2
  <2> QED
    BY <2>2, <2>3
<1>6. After(f)
  BY <1>5
<1> HIDE DEF f
<1>7. f[0] = [val |-> <<>>, rest |-> h[0]]
  <2>1. 0 \in 0 .. n
    BY <1>3
  <2> HIDE DEF n
  <2> QED
    BY <1>1, <1>6, <2>1
<1>8. ASSUME NEW i \in 1 .. n, f[i-1].rest = h[i-1]
      PROVE  f[i] = [val |-> Append(f[i-1].val, x[i]), rest |-> h[i]]
  <2>1. i \in 0 .. n /\ i # 0
    BY <1>3
  <2> HIDE DEF n
  <2>2. f[i] = [val |-> Append(f[i-1].val, GetSize(f[i-1].rest).val), rest |-> GetSize(f[i-1].rest).rest]
    BY <1>6, <2>1
  <2>3. GetSize(f[i-1].rest) = [val |-> x[i], rest |-> h[i]]
    BY <1>2, <1>8
  <2>4. GetSize(f[i-1].rest).val = x[i] /\ GetSize(f[i-1].rest).rest = h[i]
    BY <2>3, ValRest
  <2> QED
    BY <2>2, <2>4
<1>9. f[n] = [val |-> x, rest |-> h[n]]
  <2> HIDE DEF After
  <2> QED
    BY <1>7, <1>8, AllRead
<1> QED
  BY <1>1, <1>4, <1>9 DEF d

LEMMA IntsInTurn ==
  ASSUME NEW S, NEW x \in Seq(S), Len(x) # Garbage,
         NEW E \in Calls, Len(E) = Len(x), NEW t \in Seq(AnyByte),
         \A i \in 1 .. Len(x) : \A r \in Seq(AnyByte) : Get("int", E[i] \o r) = [val |-> x[i], rest |-> r]
  PROVE  Ints(Len(x), FlattenSeq(E) \o t) = [val |-> x, rest |-> t]
<1> DEFINE n == Len(x)
           d == FlattenSeq(E) \o t
           After(f) == f = [i \in 0 .. n |->
                             IF i = 0 THEN [val |-> <<>>, rest |-> d]
                             ELSE [val |-> Append(f[i-1].val, Get("int", f[i-1].rest).val),
                                   rest |-> Get("int", f[i-1].rest).rest]]
           f == CHOOSE f : After(f)
<1>0. PICK h : /\ h[0] = FlattenSeq(E) \o t /\ h[Len(E)] = t
               /\ \A i \in 1 .. Len(E) : h[i-1] = E[i] \o h[i] /\ h[i] \in Seq(AnyByte)
  BY Rests
<1>1. /\ h[0] = d /\ h[n] = t
      /\ \A i \in 1 .. n : h[i-1] = E[i] \o h[i] /\ h[i] \in Seq(AnyByte)
  BY <1>0
<1>2. \A i \in 1 .. n : Get("int", h[i-1]) = [val |-> x[i], rest |-> h[i]]
  BY <1>1
<1> HIDE DEF d
<1>3. n \in Nat
  OBVIOUS
<1>4. Ints(n, d) = f[n]
  BY DEF ReadTimes, Ints
<1>5. \E g : After(g)
  <2> DEFINE g == SoFar(x, h)
  <2>0. Growing(x, h, g)
    BY OneMore
  <2>1. /\ g[0] = [val |-> <<>>, rest |-> h[0]]
        /\ \A i \in 1 .. n : g[i-1].rest = h[i-1]
                             /\ g[i] = [val |-> Append(g[i-1].val, x[i]), rest |-> h[i]]
    BY <2>0 DEF Growing
  <2>2. g = [i \in 0 .. n |-> g[i]]
    BY DEF SoFar
  <2> HIDE DEF g, n
  <2>3. ASSUME NEW i \in 0 .. n
        PROVE  g[i] = IF i = 0 THEN [val |-> <<>>, rest |-> d]
                      ELSE [val |-> Append(g[i-1].val, Get("int", g[i-1].rest).val),
                            rest |-> Get("int", g[i-1].rest).rest]
    <3>1. CASE i = 0
      BY <1>1, <2>1, <3>1
    <3>2. CASE i # 0
      <4>1. i \in 1 .. n
        BY <1>3, <3>2
      <4>2. Get("int", g[i-1].rest) = [val |-> x[i], rest |-> h[i]]
        BY <1>2, <2>1, <4>1
      <4>3. Get("int", g[i-1].rest).val = x[i] /\ Get("int", g[i-1].rest).rest = h[i]
        BY <4>2, ValRest
      <4>4. g[i] = [val |-> Append(g[i-1].val, x[i]), rest |-> h[i]]
        BY <2>1, <4>1
      <4> QED
        BY <3>2, <4>3, <4>4
    <3> QED
      BY <3>1, <3>2
  <2> QED
    BY <2>2, <2>3
<1>6. After(f)
  BY <1>5
<1> HIDE DEF f
<1>7. f[0] = [val |-> <<>>, rest |-> h[0]]
  <2>1. 0 \in 0 .. n
    BY <1>3
  <2> HIDE DEF n
  <2> QED
    BY <1>1, <1>6, <2>1
<1>8. ASSUME NEW i \in 1 .. n, f[i-1].rest = h[i-1]
      PROVE  f[i] = [val |-> Append(f[i-1].val, x[i]), rest |-> h[i]]
  <2>1. i \in 0 .. n /\ i # 0
    BY <1>3
  <2> HIDE DEF n
  <2>2. f[i] = [val |-> Append(f[i-1].val, Get("int", f[i-1].rest).val), rest |-> Get("int", f[i-1].rest).rest]
    BY <1>6, <2>1
  <2>3. Get("int", f[i-1].rest) = [val |-> x[i], rest |-> h[i]]
    BY <1>2, <1>8
  <2>4. Get("int", f[i-1].rest).val = x[i] /\ Get("int", f[i-1].rest).rest = h[i]
    BY <2>3, ValRest
  <2> QED
    BY <2>2, <2>4
<1>9. f[n] = [val |-> x, rest |-> h[n]]
  <2> HIDE DEF After
  <2> QED
    BY <1>7, <1>8, AllRead
<1> QED
  BY <1>1, <1>4, <1>9 DEF d

LEMMA ItemsInTurn ==
  ASSUME NEW type, NEW S, NEW x \in Seq(S), Len(x) # Garbage,
         NEW E \in Calls, Len(E) = Len(x), NEW t \in Seq(AnyByte),
         \A i \in 1 .. Len(x) : \A r \in Seq(AnyByte) : ReadItem(type, E[i] \o r) = [val |-> x[i], rest |-> r]
  PROVE  Items(type, Len(x), FlattenSeq(E) \o t) = [val |-> x, rest |-> t]
<1> DEFINE n == Len(x)
           d == FlattenSeq(E) \o t
           After(f) == f = [i \in 0 .. n |->
                             IF i = 0 THEN [val |-> <<>>, rest |-> d]
                             ELSE [val |-> Append(f[i-1].val, ReadItem(type, f[i-1].rest).val),
                                   rest |-> ReadItem(type, f[i-1].rest).rest]]
           f == CHOOSE f : After(f)
<1>0. PICK h : /\ h[0] = FlattenSeq(E) \o t /\ h[Len(E)] = t
               /\ \A i \in 1 .. Len(E) : h[i-1] = E[i] \o h[i] /\ h[i] \in Seq(AnyByte)
  BY Rests
<1>1. /\ h[0] = d /\ h[n] = t
      /\ \A i \in 1 .. n : h[i-1] = E[i] \o h[i] /\ h[i] \in Seq(AnyByte)
  BY <1>0
<1>2. \A i \in 1 .. n : ReadItem(type, h[i-1]) = [val |-> x[i], rest |-> h[i]]
  BY <1>1
<1> HIDE DEF d
<1>3. n \in Nat
  OBVIOUS
<1>4. Items(type, n, d) = f[n]
  BY DEF ReadTimes, Items
<1>5. \E g : After(g)
  <2> DEFINE g == SoFar(x, h)
  <2>0. Growing(x, h, g)
    BY OneMore
  <2>1. /\ g[0] = [val |-> <<>>, rest |-> h[0]]
        /\ \A i \in 1 .. n : g[i-1].rest = h[i-1]
                             /\ g[i] = [val |-> Append(g[i-1].val, x[i]), rest |-> h[i]]
    BY <2>0 DEF Growing
  <2>2. g = [i \in 0 .. n |-> g[i]]
    BY DEF SoFar
  <2> HIDE DEF g, n
  <2>3. ASSUME NEW i \in 0 .. n
        PROVE  g[i] = IF i = 0 THEN [val |-> <<>>, rest |-> d]
                      ELSE [val |-> Append(g[i-1].val, ReadItem(type, g[i-1].rest).val),
                            rest |-> ReadItem(type, g[i-1].rest).rest]
    <3>1. CASE i = 0
      BY <1>1, <2>1, <3>1
    <3>2. CASE i # 0
      <4>1. i \in 1 .. n
        BY <1>3, <3>2
      <4>2. ReadItem(type, g[i-1].rest) = [val |-> x[i], rest |-> h[i]]
        BY <1>2, <2>1, <4>1
      <4>3. ReadItem(type, g[i-1].rest).val = x[i] /\ ReadItem(type, g[i-1].rest).rest = h[i]
        BY <4>2, ValRest
      <4>4. g[i] = [val |-> Append(g[i-1].val, x[i]), rest |-> h[i]]
        BY <2>1, <4>1
      <4> QED
        BY <3>2, <4>3, <4>4
    <3> QED
      BY <3>1, <3>2
  <2> QED
    BY <2>2, <2>3
<1>6. After(f)
  BY <1>5
<1> HIDE DEF f
<1>7. f[0] = [val |-> <<>>, rest |-> h[0]]
  <2>1. 0 \in 0 .. n
    BY <1>3
  <2> HIDE DEF n
  <2> QED
    BY <1>1, <1>6, <2>1
<1>8. ASSUME NEW i \in 1 .. n, f[i-1].rest = h[i-1]
      PROVE  f[i] = [val |-> Append(f[i-1].val, x[i]), rest |-> h[i]]
  <2>1. i \in 0 .. n /\ i # 0
    BY <1>3
  <2> HIDE DEF n
  <2>2. f[i] = [val |-> Append(f[i-1].val, ReadItem(type, f[i-1].rest).val), rest |-> ReadItem(type, f[i-1].rest).rest]
    BY <1>6, <2>1
  <2>3. ReadItem(type, f[i-1].rest) = [val |-> x[i], rest |-> h[i]]
    BY <1>2, <1>8
  <2>4. ReadItem(type, f[i-1].rest).val = x[i] /\ ReadItem(type, f[i-1].rest).rest = h[i]
    BY <2>3, ValRest
  <2> QED
    BY <2>2, <2>4
<1>9. f[n] = [val |-> x, rest |-> h[n]]
  <2> HIDE DEF After
  <2> QED
    BY <1>7, <1>8, AllRead
<1> QED
  BY <1>1, <1>4, <1>9 DEF d

LEMMA KeysInTurn ==
  ASSUME NEW S, NEW x \in Seq(S), Len(x) # Garbage,
         NEW E \in Calls, Len(E) = Len(x), NEW t \in Seq(AnyByte),
         \A i \in 1 .. Len(x) : \A r \in Seq(AnyByte) : ReadKey(E[i] \o r) = [val |-> x[i], rest |-> r]
  PROVE  Keyed(Len(x), FlattenSeq(E) \o t) = [val |-> x, rest |-> t]
<1> DEFINE n == Len(x)
           d == FlattenSeq(E) \o t
           After(f) == f = [i \in 0 .. n |->
                             IF i = 0 THEN [val |-> <<>>, rest |-> d]
                             ELSE [val |-> Append(f[i-1].val, ReadKey(f[i-1].rest).val),
                                   rest |-> ReadKey(f[i-1].rest).rest]]
           f == CHOOSE f : After(f)
<1>0. PICK h : /\ h[0] = FlattenSeq(E) \o t /\ h[Len(E)] = t
               /\ \A i \in 1 .. Len(E) : h[i-1] = E[i] \o h[i] /\ h[i] \in Seq(AnyByte)
  BY Rests
<1>1. /\ h[0] = d /\ h[n] = t
      /\ \A i \in 1 .. n : h[i-1] = E[i] \o h[i] /\ h[i] \in Seq(AnyByte)
  BY <1>0
<1>2. \A i \in 1 .. n : ReadKey(h[i-1]) = [val |-> x[i], rest |-> h[i]]
  BY <1>1
<1> HIDE DEF d
<1>3. n \in Nat
  OBVIOUS
<1>4. Keyed(n, d) = f[n]
  BY DEF ReadTimes, Keyed
<1>5. \E g : After(g)
  <2> DEFINE g == SoFar(x, h)
  <2>0. Growing(x, h, g)
    BY OneMore
  <2>1. /\ g[0] = [val |-> <<>>, rest |-> h[0]]
        /\ \A i \in 1 .. n : g[i-1].rest = h[i-1]
                             /\ g[i] = [val |-> Append(g[i-1].val, x[i]), rest |-> h[i]]
    BY <2>0 DEF Growing
  <2>2. g = [i \in 0 .. n |-> g[i]]
    BY DEF SoFar
  <2> HIDE DEF g, n
  <2>3. ASSUME NEW i \in 0 .. n
        PROVE  g[i] = IF i = 0 THEN [val |-> <<>>, rest |-> d]
                      ELSE [val |-> Append(g[i-1].val, ReadKey(g[i-1].rest).val),
                            rest |-> ReadKey(g[i-1].rest).rest]
    <3>1. CASE i = 0
      BY <1>1, <2>1, <3>1
    <3>2. CASE i # 0
      <4>1. i \in 1 .. n
        BY <1>3, <3>2
      <4>2. ReadKey(g[i-1].rest) = [val |-> x[i], rest |-> h[i]]
        BY <1>2, <2>1, <4>1
      <4>3. ReadKey(g[i-1].rest).val = x[i] /\ ReadKey(g[i-1].rest).rest = h[i]
        BY <4>2, ValRest
      <4>4. g[i] = [val |-> Append(g[i-1].val, x[i]), rest |-> h[i]]
        BY <2>1, <4>1
      <4> QED
        BY <3>2, <4>3, <4>4
    <3> QED
      BY <3>1, <3>2
  <2> QED
    BY <2>2, <2>3
<1>6. After(f)
  BY <1>5
<1> HIDE DEF f
<1>7. f[0] = [val |-> <<>>, rest |-> h[0]]
  <2>1. 0 \in 0 .. n
    BY <1>3
  <2> HIDE DEF n
  <2> QED
    BY <1>1, <1>6, <2>1
<1>8. ASSUME NEW i \in 1 .. n, f[i-1].rest = h[i-1]
      PROVE  f[i] = [val |-> Append(f[i-1].val, x[i]), rest |-> h[i]]
  <2>1. i \in 0 .. n /\ i # 0
    BY <1>3
  <2> HIDE DEF n
  <2>2. f[i] = [val |-> Append(f[i-1].val, ReadKey(f[i-1].rest).val), rest |-> ReadKey(f[i-1].rest).rest]
    BY <1>6, <2>1
  <2>3. ReadKey(f[i-1].rest) = [val |-> x[i], rest |-> h[i]]
    BY <1>2, <1>8
  <2>4. ReadKey(f[i-1].rest).val = x[i] /\ ReadKey(f[i-1].rest).rest = h[i]
    BY <2>3, ValRest
  <2> QED
    BY <2>2, <2>4
<1>9. f[n] = [val |-> x, rest |-> h[n]]
  <2> HIDE DEF After
  <2> QED
    BY <1>7, <1>8, AllRead
<1> QED
  BY <1>1, <1>4, <1>9 DEF d

LEMMA AddressesInTurn ==
  ASSUME NEW S, NEW x \in Seq(S), Len(x) # Garbage,
         NEW E \in Calls, Len(E) = Len(x), NEW t \in Seq(AnyByte),
         \A i \in 1 .. Len(x) : \A r \in Seq(AnyByte) : ReadAddress(E[i] \o r) = [val |-> x[i], rest |-> r]
  PROVE  Addressed(Len(x), FlattenSeq(E) \o t) = [val |-> x, rest |-> t]
<1> DEFINE n == Len(x)
           d == FlattenSeq(E) \o t
           After(f) == f = [i \in 0 .. n |->
                             IF i = 0 THEN [val |-> <<>>, rest |-> d]
                             ELSE [val |-> Append(f[i-1].val, ReadAddress(f[i-1].rest).val),
                                   rest |-> ReadAddress(f[i-1].rest).rest]]
           f == CHOOSE f : After(f)
<1>0. PICK h : /\ h[0] = FlattenSeq(E) \o t /\ h[Len(E)] = t
               /\ \A i \in 1 .. Len(E) : h[i-1] = E[i] \o h[i] /\ h[i] \in Seq(AnyByte)
  BY Rests
<1>1. /\ h[0] = d /\ h[n] = t
      /\ \A i \in 1 .. n : h[i-1] = E[i] \o h[i] /\ h[i] \in Seq(AnyByte)
  BY <1>0
<1>2. \A i \in 1 .. n : ReadAddress(h[i-1]) = [val |-> x[i], rest |-> h[i]]
  BY <1>1
<1> HIDE DEF d
<1>3. n \in Nat
  OBVIOUS
<1>4. Addressed(n, d) = f[n]
  BY DEF ReadTimes, Addressed
<1>5. \E g : After(g)
  <2> DEFINE g == SoFar(x, h)
  <2>0. Growing(x, h, g)
    BY OneMore
  <2>1. /\ g[0] = [val |-> <<>>, rest |-> h[0]]
        /\ \A i \in 1 .. n : g[i-1].rest = h[i-1]
                             /\ g[i] = [val |-> Append(g[i-1].val, x[i]), rest |-> h[i]]
    BY <2>0 DEF Growing
  <2>2. g = [i \in 0 .. n |-> g[i]]
    BY DEF SoFar
  <2> HIDE DEF g, n
  <2>3. ASSUME NEW i \in 0 .. n
        PROVE  g[i] = IF i = 0 THEN [val |-> <<>>, rest |-> d]
                      ELSE [val |-> Append(g[i-1].val, ReadAddress(g[i-1].rest).val),
                            rest |-> ReadAddress(g[i-1].rest).rest]
    <3>1. CASE i = 0
      BY <1>1, <2>1, <3>1
    <3>2. CASE i # 0
      <4>1. i \in 1 .. n
        BY <1>3, <3>2
      <4>2. ReadAddress(g[i-1].rest) = [val |-> x[i], rest |-> h[i]]
        BY <1>2, <2>1, <4>1
      <4>3. ReadAddress(g[i-1].rest).val = x[i] /\ ReadAddress(g[i-1].rest).rest = h[i]
        BY <4>2, ValRest
      <4>4. g[i] = [val |-> Append(g[i-1].val, x[i]), rest |-> h[i]]
        BY <2>1, <4>1
      <4> QED
        BY <3>2, <4>3, <4>4
    <3> QED
      BY <3>1, <3>2
  <2> QED
    BY <2>2, <2>3
<1>6. After(f)
  BY <1>5
<1> HIDE DEF f
<1>7. f[0] = [val |-> <<>>, rest |-> h[0]]
  <2>1. 0 \in 0 .. n
    BY <1>3
  <2> HIDE DEF n
  <2> QED
    BY <1>1, <1>6, <2>1
<1>8. ASSUME NEW i \in 1 .. n, f[i-1].rest = h[i-1]
      PROVE  f[i] = [val |-> Append(f[i-1].val, x[i]), rest |-> h[i]]
  <2>1. i \in 0 .. n /\ i # 0
    BY <1>3
  <2> HIDE DEF n
  <2>2. f[i] = [val |-> Append(f[i-1].val, ReadAddress(f[i-1].rest).val), rest |-> ReadAddress(f[i-1].rest).rest]
    BY <1>6, <2>1
  <2>3. ReadAddress(f[i-1].rest) = [val |-> x[i], rest |-> h[i]]
    BY <1>2, <1>8
  <2>4. ReadAddress(f[i-1].rest).val = x[i] /\ ReadAddress(f[i-1].rest).rest = h[i]
    BY <2>3, ValRest
  <2> QED
    BY <2>2, <2>4
<1>9. f[n] = [val |-> x, rest |-> h[n]]
  <2> HIDE DEF After
  <2> QED
    BY <1>7, <1>8, AllRead
<1> QED
  BY <1>1, <1>4, <1>9 DEF d

LEMMA ColumnsInTurn ==
  ASSUME NEW S, NEW x \in Seq(S), Len(x) # Garbage,
         NEW E \in Calls, Len(E) = Len(x), NEW t \in Seq(AnyByte),
         \A i \in 1 .. Len(x) : \A r \in Seq(AnyByte) : ReadColumn(E[i] \o r) = [val |-> x[i], rest |-> r]
  PROVE  Columned(Len(x), FlattenSeq(E) \o t) = [val |-> x, rest |-> t]
<1> DEFINE n == Len(x)
           d == FlattenSeq(E) \o t
           After(f) == f = [i \in 0 .. n |->
                             IF i = 0 THEN [val |-> <<>>, rest |-> d]
                             ELSE [val |-> Append(f[i-1].val, ReadColumn(f[i-1].rest).val),
                                   rest |-> ReadColumn(f[i-1].rest).rest]]
           f == CHOOSE f : After(f)
<1>0. PICK h : /\ h[0] = FlattenSeq(E) \o t /\ h[Len(E)] = t
               /\ \A i \in 1 .. Len(E) : h[i-1] = E[i] \o h[i] /\ h[i] \in Seq(AnyByte)
  BY Rests
<1>1. /\ h[0] = d /\ h[n] = t
      /\ \A i \in 1 .. n : h[i-1] = E[i] \o h[i] /\ h[i] \in Seq(AnyByte)
  BY <1>0
<1>2. \A i \in 1 .. n : ReadColumn(h[i-1]) = [val |-> x[i], rest |-> h[i]]
  BY <1>1
<1> HIDE DEF d
<1>3. n \in Nat
  OBVIOUS
<1>4. Columned(n, d) = f[n]
  BY DEF ReadTimes, Columned
<1>5. \E g : After(g)
  <2> DEFINE g == SoFar(x, h)
  <2>0. Growing(x, h, g)
    BY OneMore
  <2>1. /\ g[0] = [val |-> <<>>, rest |-> h[0]]
        /\ \A i \in 1 .. n : g[i-1].rest = h[i-1]
                             /\ g[i] = [val |-> Append(g[i-1].val, x[i]), rest |-> h[i]]
    BY <2>0 DEF Growing
  <2>2. g = [i \in 0 .. n |-> g[i]]
    BY DEF SoFar
  <2> HIDE DEF g, n
  <2>3. ASSUME NEW i \in 0 .. n
        PROVE  g[i] = IF i = 0 THEN [val |-> <<>>, rest |-> d]
                      ELSE [val |-> Append(g[i-1].val, ReadColumn(g[i-1].rest).val),
                            rest |-> ReadColumn(g[i-1].rest).rest]
    <3>1. CASE i = 0
      BY <1>1, <2>1, <3>1
    <3>2. CASE i # 0
      <4>1. i \in 1 .. n
        BY <1>3, <3>2
      <4>2. ReadColumn(g[i-1].rest) = [val |-> x[i], rest |-> h[i]]
        BY <1>2, <2>1, <4>1
      <4>3. ReadColumn(g[i-1].rest).val = x[i] /\ ReadColumn(g[i-1].rest).rest = h[i]
        BY <4>2, ValRest
      <4>4. g[i] = [val |-> Append(g[i-1].val, x[i]), rest |-> h[i]]
        BY <2>1, <4>1
      <4> QED
        BY <3>2, <4>3, <4>4
    <3> QED
      BY <3>1, <3>2
  <2> QED
    BY <2>2, <2>3
<1>6. After(f)
  BY <1>5
<1> HIDE DEF f
<1>7. f[0] = [val |-> <<>>, rest |-> h[0]]
  <2>1. 0 \in 0 .. n
    BY <1>3
  <2> HIDE DEF n
  <2> QED
    BY <1>1, <1>6, <2>1
<1>8. ASSUME NEW i \in 1 .. n, f[i-1].rest = h[i-1]
      PROVE  f[i] = [val |-> Append(f[i-1].val, x[i]), rest |-> h[i]]
  <2>1. i \in 0 .. n /\ i # 0
    BY <1>3
  <2> HIDE DEF n
  <2>2. f[i] = [val |-> Append(f[i-1].val, ReadColumn(f[i-1].rest).val), rest |-> ReadColumn(f[i-1].rest).rest]
    BY <1>6, <2>1
  <2>3. ReadColumn(f[i-1].rest) = [val |-> x[i], rest |-> h[i]]
    BY <1>2, <1>8
  <2>4. ReadColumn(f[i-1].rest).val = x[i] /\ ReadColumn(f[i-1].rest).rest = h[i]
    BY <2>3, ValRest
  <2> QED
    BY <2>2, <2>4
<1>9. f[n] = [val |-> x, rest |-> h[n]]
  <2> HIDE DEF After
  <2> QED
    BY <1>7, <1>8, AllRead
<1> QED
  BY <1>1, <1>4, <1>9 DEF d

-----------------------------------------------------------------------------
(* The calls for many things, and what a constructor makes of the bytes.   *)

\* E is the bytes of each.
BytesOfEach(each, E) ==
  /\ E \in Calls /\ Len(E) = Len(each)
  /\ \A i \in 1 .. Len(each) : E[i] = FlattenSeq(each[i])
  /\ FlattenSeq(FlattenSeq(each)) = FlattenSeq(E)

LEMMA EachCalls ==
  ASSUME NEW each \in Seq(Calls)
  PROVE  /\ FlattenSeq(each) \in Calls
         /\ Filled(FlattenSeq(each)) <=> \A i \in 1 .. Len(each) : Filled(each[i])
         /\ \E E : BytesOfEach(each, E)
<1> DEFINE V == Seq(AnyByte)
           E == [i \in DOMAIN each |-> FlattenSeq(each[i])]
<1>1. each \in Seq(Seq(Seq(AnyByte)))
  BY DEF Calls
<1>2. E \in Seq(V) /\ FlattenSeq(FlattenSeq(each)) = FlattenSeq(E)
  BY <1>1, FlatFlat
<1>3. Len(E) = Len(each) /\ \A i \in 1 .. Len(each) : E[i] = FlattenSeq(each[i])
  <2>1. DOMAIN each = 1 .. Len(each) /\ Len(each) \in Nat
    OBVIOUS
  <2> QED
    BY <1>2, <2>1
<1> HIDE DEF E
<1>4. BytesOfEach(each, E)
  BY <1>2, <1>3 DEF BytesOfEach, Calls
<1> HIDE DEF V
<1>5. FlattenSeq(each) \in Seq(V)
  BY <1>1, FlatType DEF V
<1>6. Occurs(FlattenSeq(each), <<>>) <=> \E j \in 1 .. Len(each) : Occurs(each[j], <<>>)
  <2>1. each \in Seq(Seq(V))
    BY <1>1 DEF V
  <2> QED
    BY <2>1, FlatHas
<1>7. \A s : Filled(s) <=> ~Occurs(s, <<>>)
  BY DEF Filled, Occurs
<1> QED
  BY <1>4, <1>5, <1>6, <1>7 DEF Calls, V

LEMMA ManyCalls ==
  ASSUME NEW each \in Seq(Calls), NEW t \in Seq(AnyByte)
  PROVE  /\ Many(each) \in Calls
         /\ Filled(Many(each)) <=> \A i \in 1 .. Len(each) : Filled(each[i])
         /\ \E E : /\ BytesOfEach(each, E)
                   /\ GetSize(FlattenSeq(Many(each)) \o t) = [val |-> Len(each), rest |-> FlattenSeq(E) \o t]
<1> DEFINE n == Len(each)
           c == Encoded("size_t", n)
           a == FlattenSeq(each)
<1>1. n \in Nat
  OBVIOUS
<1>2. c \in Seq(AnyByte) /\ c # <<>> /\ \A r \in Seq(AnyByte) : GetSize(c \o r) = [val |-> n, rest |-> r]
  BY <1>1, SizeRead
<1>3. a \in Calls /\ (Filled(a) <=> \A i \in 1 .. n : Filled(each[i]))
  BY EachCalls
<1>4. PICK E : BytesOfEach(each, E)
  BY EachCalls
<1>5. Many(each) = <<c>> \o a
  BY DEF Many
<1>6. FlattenSeq(a) = FlattenSeq(E)
  BY <1>4 DEF BytesOfEach
<1> DEFINE b == FlattenSeq(a) \o t
           ca == Many(each)
<1> HIDE DEF n, c, a, ca
<1>7. /\ ca \in Calls /\ (Filled(ca) <=> Filled(a))
      /\ FlattenSeq(ca) \o t = c \o b /\ b \in Seq(AnyByte)
  <2> DEFINE u == <<c>>
  <2>1. u \in Calls /\ FlattenSeq(u) = c /\ Filled(u)
    BY <1>2, OneCall
  <2>2. ca = u \o a
    BY <1>5 DEF ca
  <2> HIDE DEF u
  <2>3. /\ u \o a \in Calls /\ FlattenSeq(u \o a) \o t = FlattenSeq(u) \o (FlattenSeq(a) \o t)
        /\ FlattenSeq(a) \o t \in Seq(AnyByte) /\ (Filled(u \o a) <=> Filled(u) /\ Filled(a))
    BY <1>3, <2>1, CallsBefore
  <2> QED
    BY <2>1, <2>2, <2>3
<1>8. GetSize(FlattenSeq(ca) \o t) = [val |-> n, rest |-> b]
  BY <1>2, <1>7
<1> QED
  BY <1>3, <1>4, <1>6, <1>7, <1>8 DEF n, b, ca

LEMMA ItemRead ==
  ASSUME NEW type \in {"I", "D", "B"}, NEW x \in Data
  PROVE  /\ Item(type, x) \in Calls /\ Filled(Item(type, x))
         /\ \A r \in Seq(AnyByte) : ReadItem(type, FlattenSeq(Item(type, x)) \o r) = [val |-> x, rest |-> r]
<1> DEFINE w == ItemType[type]
           c == Encoded(w, x)
<1>1. w \in DOMAIN Width /\ type # "S"
  BY DEF ItemType, Width
<1>2. c \in Seq(AnyByte) /\ c # <<>> /\ \A r \in Seq(AnyByte) : Get(w, c \o r) = [val |-> x, rest |-> r]
  <2> HIDE DEF w
  <2> QED
    BY <1>1, EncodedType, GetEncoded
<1>3. Item(type, x) = <<c>>
  BY <1>1 DEF Item
<1> HIDE DEF c
<1>4. <<c>> \in Calls /\ FlattenSeq(<<c>>) = c /\ Filled(<<c>>)
  BY <1>2, OneCall
<1>5. \A d : ReadItem(type, d) = Get(w, d)
  BY <1>1 DEF ReadItem
<1> QED
  BY <1>2, <1>3, <1>4, <1>5

LEMMA StringItemRead ==
  ASSUME NEW x \in Seq(Data)
  PROVE  /\ Item("S", x) \in Calls /\ (Filled(Item("S", x)) <=> x # <<>>)
         /\ GarbageApart /\ x # <<>> => \A r \in Seq(AnyByte) :
              ReadItem("S", FlattenSeq(Item("S", x)) \o r) = [val |-> x, rest |-> r]
<1>1. Item("S", x) = String(x) /\ \A d : ReadItem("S", d) = ReadString(d)
  BY DEF Item, ReadItem
<1>2. String(x) \in Calls /\ (Filled(String(x)) <=> x # <<>>)
  BY StringCalls
<1>3. ASSUME GarbageApart, x # <<>>, NEW r \in Seq(AnyByte)
      PROVE  ReadString(FlattenSeq(String(x)) \o r) = [val |-> x, rest |-> r]
  <2>1. x \in Names
    BY <1>3 DEF Names
  <2> QED
    BY <1>3, <2>1, StringRead
<1> QED
  BY <1>1, <1>2, <1>3

\* An array can be written when its strings can, and then is read.
LEMMA ItemsCalls ==
  ASSUME NEW a \in Arrays
  PROVE  /\ a = [kind |-> "array", type |-> a.type, items |-> a.items] /\ a.kind = "array"
         /\ \E S : a.items \in Seq(S)
         /\ \A i \in 1 .. Len(a.items) :
              /\ Item(a.type, a.items[i]) \in Calls
              /\ Filled(Item(a.type, a.items[i])) <=> (a.type = "S" => a.items[i] # <<>>)
              /\ GarbageApart /\ (a.type = "S" => a.items[i] # <<>>) => \A r \in Seq(AnyByte) :
                   ReadItem(a.type, FlattenSeq(Item(a.type, a.items[i])) \o r)
                     = [val |-> a.items[i], rest |-> r]
<1> DEFINE x == a.items
<1>1. CASE a \in [kind : {"array"}, type : {"I", "D", "B"}, items : Seq(Data)]
  <2>1. a.type \in {"I", "D", "B"} /\ x \in Seq(Data) /\ a.type # "S"
        /\ a = [kind |-> "array", type |-> a.type, items |-> a.items] /\ a.kind = "array"
    BY <1>1
  <2>2. ASSUME NEW i \in 1 .. Len(x)
        PROVE  /\ Item(a.type, x[i]) \in Calls /\ Filled(Item(a.type, x[i]))
               /\ \A r \in Seq(AnyByte) :
                    ReadItem(a.type, FlattenSeq(Item(a.type, x[i])) \o r) = [val |-> x[i], rest |-> r]
    <3>1. x[i] \in Data
      BY <2>1
    <3> HIDE DEF x
    <3> QED
      BY <2>1, <3>1, ItemRead
  <2> QED
    BY <2>1, <2>2
<1>2. CASE a \in [kind : {"array"}, type : {"S"}, items : Seq(Seq(Data))]
  <2>1. a.type = "S" /\ x \in Seq(Seq(Data))
        /\ a = [kind |-> "array", type |-> a.type, items |-> a.items] /\ a.kind = "array"
    BY <1>2
  <2>2. ASSUME NEW i \in 1 .. Len(x)
        PROVE  /\ Item("S", x[i]) \in Calls /\ (Filled(Item("S", x[i])) <=> x[i] # <<>>)
               /\ GarbageApart /\ x[i] # <<>> => \A r \in Seq(AnyByte) :
                    ReadItem("S", FlattenSeq(Item("S", x[i])) \o r) = [val |-> x[i], rest |-> r]
    <3>1. x[i] \in Seq(Data)
      BY <2>1
    <3> HIDE DEF x
    <3> QED
      BY <3>1, StringItemRead
  <2> QED
    BY <2>1, <2>2
<1> QED
  BY <1>1, <1>2 DEF Arrays

LEMMA ArrayInTurn ==
  ASSUME NEW type, NEW d, NEW e, NEW r, NEW n, NEW x, GetSize(d) = [val |-> n, rest |-> e],
         Items(type, n, e) = [val |-> x, rest |-> r]
  PROVE  ReadArray(type, d) = [val |-> [kind |-> "array", type |-> type, items |-> x], rest |-> r]
<1> QED
  BY DEF ReadArray, ReadMany, Items

LEMMA ArrayRead ==
  ASSUME NEW a \in Arrays
  PROVE  /\ Array(a) \in Calls /\ (Filled(Array(a)) <=> Sendable(a))
         /\ GarbageApart /\ Sendable(a) => \A r \in Seq(AnyByte) :
              ReadArray(a.type, FlattenSeq(Array(a)) \o r) = [val |-> a, rest |-> r]
<1> DEFINE x == a.items
           n == Len(x)
           each == [i \in 1 .. n |-> Item(a.type, x[i])]
<1>1. /\ a = [kind |-> "array", type |-> a.type, items |-> x] /\ a.kind = "array"
      /\ \E S : x \in Seq(S)
      /\ \A i \in 1 .. n :
           /\ Item(a.type, x[i]) \in Calls
           /\ Filled(Item(a.type, x[i])) <=> (a.type = "S" => x[i] # <<>>)
           /\ GarbageApart /\ (a.type = "S" => x[i] # <<>>) => \A r \in Seq(AnyByte) :
                ReadItem(a.type, FlattenSeq(Item(a.type, x[i])) \o r) = [val |-> x[i], rest |-> r]
  BY ItemsCalls
<1>2. PICK S : x \in Seq(S)
  BY <1>1
<1>3. n \in Nat /\ DOMAIN x = 1 .. n
  BY <1>2
<1>4. Array(a) = Many(each)
  BY <1>3 DEF Array
<1>5. Sendable(a) <=> (a.type = "S" => \A i \in 1 .. n : x[i] # <<>>)
  <2>1. <<>> \in Range(x) <=> \E i \in 1 .. n : x[i] = <<>>
    BY <1>3 DEF Range
  <2> QED
    BY <1>1, <2>1 DEF Sendable
<1> HIDE DEF x, n
<1>6. each \in Seq(Calls) /\ Len(each) = n /\ \A i \in 1 .. n : each[i] = Item(a.type, x[i])
  <2>1. each \in [1 .. n -> Calls]
    BY <1>1
  <2> QED
    BY <1>3, <2>1
<1> HIDE DEF each
<1>7. Many(each) \in Calls /\ (Filled(Many(each)) <=> \A i \in 1 .. n : Filled(each[i]))
  <2>1. <<>> \in Seq(AnyByte)
    OBVIOUS
  <2>2. Many(each) \in Calls /\ (Filled(Many(each)) <=> \A i \in 1 .. Len(each) : Filled(each[i]))
    BY <1>6, <2>1, ManyCalls
  <2> QED
    BY <1>6, <2>2
<1>8. Filled(Many(each)) <=> Sendable(a)
  BY <1>1, <1>5, <1>6, <1>7
<1>9. ASSUME GarbageApart, Sendable(a), NEW r \in Seq(AnyByte)
      PROVE  ReadArray(a.type, FlattenSeq(Many(each)) \o r) = [val |-> a, rest |-> r]
  <2>1. PICK E : /\ BytesOfEach(each, E)
                 /\ GetSize(FlattenSeq(Many(each)) \o r) = [val |-> Len(each), rest |-> FlattenSeq(E) \o r]
    BY <1>6, ManyCalls
  <2>2. E \in Calls /\ Len(E) = Len(x) /\ \A i \in 1 .. n : E[i] = FlattenSeq(each[i])
    BY <1>6, <2>1 DEF BytesOfEach, n
  <2>3. \A i \in 1 .. n : \A q \in Seq(AnyByte) : ReadItem(a.type, E[i] \o q) = [val |-> x[i], rest |-> q]
    BY <1>1, <1>5, <1>6, <1>9, <2>2
  <2>4. n # Garbage
    BY <1>3, <1>9 DEF GarbageApart
  <2>5. Items(a.type, n, FlattenSeq(E) \o r) = [val |-> x, rest |-> r]
    BY <1>2, <2>2, <2>3, <2>4, ItemsInTurn DEF n
  <2> DEFINE d == FlattenSeq(Many(each)) \o r
             e == FlattenSeq(E) \o r
  <2>6. GetSize(d) = [val |-> n, rest |-> e]
    BY <1>6, <2>1
  <2>7. Items(a.type, n, e) = [val |-> x, rest |-> r]
    BY <2>5
  <2> HIDE DEF d, e
  <2>8. ReadArray(a.type, d) = [val |-> [kind |-> "array", type |-> a.type, items |-> x], rest |-> r]
    BY <2>6, <2>7, ArrayInTurn
  <2> QED
    BY <1>1, <2>8 DEF d
<1> QED
  BY <1>4, <1>7, <1>8, <1>9

\* Counted.
ManyInts(d) == ReadMany(LAMBDA r : Get("int", r), d)
ManyKeys(d) == ReadMany(ReadKey, d)
ManyAddresses(d) == ReadMany(ReadAddress, d)

LEMMA IntsRead ==
  ASSUME NEW x \in Seq(Data), NEW c, c = Many([i \in DOMAIN x |-> <<Encoded("int", x[i])>>])
  PROVE  /\ c \in Calls /\ Filled(c)
         /\ \A r \in Seq(AnyByte) : GarbageApart => ManyInts(FlattenSeq(c) \o r) = [val |-> x, rest |-> r]
<1> DEFINE n == Len(x)
           each == [i \in DOMAIN x |-> <<Encoded("int", x[i])>>]
<1>1. n \in Nat /\ DOMAIN x = 1 .. n
  OBVIOUS
<1>2. ASSUME NEW i \in 1 .. n
      PROVE  /\ <<Encoded("int", x[i])>> \in Calls /\ Filled(<<Encoded("int", x[i])>>)
             /\ GarbageApart => \A r \in Seq(AnyByte) :
                  Get("int", FlattenSeq(<<Encoded("int", x[i])>>) \o r) = [val |-> x[i], rest |-> r]
  <2>1. PICK y \in Data : y = x[i]
    OBVIOUS
  <2>2. /\ <<Encoded("int", y)>> \in Calls /\ Filled(<<Encoded("int", y)>>)
        /\ GarbageApart => \A r \in Seq(AnyByte) :
             Get("int", FlattenSeq(<<Encoded("int", y)>>) \o r) = [val |-> y, rest |-> r]
    BY IntRead
  <2> QED
    BY <2>1, <2>2
<1> HIDE DEF n
<1>3. each \in Seq(Calls) /\ Len(each) = n /\ \A i \in 1 .. n : each[i] = <<Encoded("int", x[i])>>
  <2>1. each \in [1 .. n -> Calls]
    BY <1>1, <1>2
  <2> QED
    BY <1>1, <2>1
<1>4. c = Many(each)
  OBVIOUS
<1> HIDE DEF each
<1>5. Many(each) \in Calls /\ Filled(Many(each))
  <2>1. <<>> \in Seq(AnyByte)
    OBVIOUS
  <2>2. Many(each) \in Calls /\ (Filled(Many(each)) <=> \A i \in 1 .. Len(each) : Filled(each[i]))
    BY <1>3, <2>1, ManyCalls
  <2> QED
    BY <1>2, <1>3, <2>2
<1>6. ASSUME GarbageApart, NEW r \in Seq(AnyByte)
      PROVE  ManyInts(FlattenSeq(Many(each)) \o r) = [val |-> x, rest |-> r]
  <2>1. PICK E : /\ BytesOfEach(each, E)
                 /\ GetSize(FlattenSeq(Many(each)) \o r) = [val |-> Len(each), rest |-> FlattenSeq(E) \o r]
    BY <1>3, ManyCalls
  <2>2. E \in Calls /\ Len(E) = Len(x) /\ \A i \in 1 .. n : E[i] = FlattenSeq(each[i])
    BY <1>3, <2>1 DEF BytesOfEach, n
  <2>3. \A i \in 1 .. n : \A q \in Seq(AnyByte) : Get("int", E[i] \o q) = [val |-> x[i], rest |-> q]
    BY <1>2, <1>3, <1>6, <2>2
  <2>4. n # Garbage
    BY <1>1, <1>6 DEF GarbageApart
  <2>5. Ints(n, FlattenSeq(E) \o r) = [val |-> x, rest |-> r]
    BY <2>2, <2>3, <2>4, IntsInTurn DEF n
  <2> DEFINE d == FlattenSeq(Many(each)) \o r
             e == FlattenSeq(E) \o r
  <2>6. GetSize(d) = [val |-> n, rest |-> e]
    BY <1>3, <2>1
  <2>7. Ints(n, e) = [val |-> x, rest |-> r]
    BY <2>5
  <2> HIDE DEF d, e
  <2>8. ManyInts(d) = [val |-> x, rest |-> r]
    BY <2>6, <2>7 DEF ReadMany, Ints, ManyInts
  <2> QED
    BY <2>8 DEF d
<1> QED
  BY <1>4, <1>5, <1>6

LEMMA KeysRead ==
  ASSUME NEW x \in Seq(Keys), NEW c, c = Many([i \in DOMAIN x |-> Key(x[i])])
  PROVE  /\ c \in Calls /\ Filled(c)
         /\ \A r \in Seq(AnyByte) : GarbageApart => ManyKeys(FlattenSeq(c) \o r) = [val |-> x, rest |-> r]
<1> DEFINE n == Len(x)
           each == [i \in DOMAIN x |-> Key(x[i])]
<1>1. n \in Nat /\ DOMAIN x = 1 .. n
  OBVIOUS
<1>2. ASSUME NEW i \in 1 .. n
      PROVE  /\ Key(x[i]) \in Calls /\ Filled(Key(x[i]))
             /\ GarbageApart => \A r \in Seq(AnyByte) :
                  ReadKey(FlattenSeq(Key(x[i])) \o r) = [val |-> x[i], rest |-> r]
  <2>1. PICK y \in Keys : y = x[i]
    OBVIOUS
  <2>2. /\ Key(y) \in Calls /\ Filled(Key(y))
        /\ GarbageApart => \A r \in Seq(AnyByte) :
             ReadKey(FlattenSeq(Key(y)) \o r) = [val |-> y, rest |-> r]
    BY KeyRead
  <2> QED
    BY <2>1, <2>2
<1> HIDE DEF n
<1>3. each \in Seq(Calls) /\ Len(each) = n /\ \A i \in 1 .. n : each[i] = Key(x[i])
  <2>1. each \in [1 .. n -> Calls]
    BY <1>1, <1>2
  <2> QED
    BY <1>1, <2>1
<1>4. c = Many(each)
  OBVIOUS
<1> HIDE DEF each
<1>5. Many(each) \in Calls /\ Filled(Many(each))
  <2>1. <<>> \in Seq(AnyByte)
    OBVIOUS
  <2>2. Many(each) \in Calls /\ (Filled(Many(each)) <=> \A i \in 1 .. Len(each) : Filled(each[i]))
    BY <1>3, <2>1, ManyCalls
  <2> QED
    BY <1>2, <1>3, <2>2
<1>6. ASSUME GarbageApart, NEW r \in Seq(AnyByte)
      PROVE  ManyKeys(FlattenSeq(Many(each)) \o r) = [val |-> x, rest |-> r]
  <2>1. PICK E : /\ BytesOfEach(each, E)
                 /\ GetSize(FlattenSeq(Many(each)) \o r) = [val |-> Len(each), rest |-> FlattenSeq(E) \o r]
    BY <1>3, ManyCalls
  <2>2. E \in Calls /\ Len(E) = Len(x) /\ \A i \in 1 .. n : E[i] = FlattenSeq(each[i])
    BY <1>3, <2>1 DEF BytesOfEach, n
  <2>3. \A i \in 1 .. n : \A q \in Seq(AnyByte) : ReadKey(E[i] \o q) = [val |-> x[i], rest |-> q]
    BY <1>2, <1>3, <1>6, <2>2
  <2>4. n # Garbage
    BY <1>1, <1>6 DEF GarbageApart
  <2>5. Keyed(n, FlattenSeq(E) \o r) = [val |-> x, rest |-> r]
    BY <2>2, <2>3, <2>4, KeysInTurn DEF n
  <2> DEFINE d == FlattenSeq(Many(each)) \o r
             e == FlattenSeq(E) \o r
  <2>6. GetSize(d) = [val |-> n, rest |-> e]
    BY <1>3, <2>1
  <2>7. Keyed(n, e) = [val |-> x, rest |-> r]
    BY <2>5
  <2> HIDE DEF d, e
  <2>8. ManyKeys(d) = [val |-> x, rest |-> r]
    BY <2>6, <2>7 DEF ReadMany, Keyed, ManyKeys
  <2> QED
    BY <2>8 DEF d
<1> QED
  BY <1>4, <1>5, <1>6

LEMMA AddressesRead ==
  ASSUME NEW x \in Seq(Addresses), NEW c, c = Many([i \in DOMAIN x |-> Address(x[i])])
  PROVE  /\ c \in Calls /\ Filled(c)
         /\ \A r \in Seq(AnyByte) : GarbageApart => ManyAddresses(FlattenSeq(c) \o r) = [val |-> x, rest |-> r]
<1> DEFINE n == Len(x)
           each == [i \in DOMAIN x |-> Address(x[i])]
<1>1. n \in Nat /\ DOMAIN x = 1 .. n
  OBVIOUS
<1>2. ASSUME NEW i \in 1 .. n
      PROVE  /\ Address(x[i]) \in Calls /\ Filled(Address(x[i]))
             /\ GarbageApart => \A r \in Seq(AnyByte) :
                  ReadAddress(FlattenSeq(Address(x[i])) \o r) = [val |-> x[i], rest |-> r]
  <2>1. PICK y \in Addresses : y = x[i]
    OBVIOUS
  <2>2. /\ Address(y) \in Calls /\ Filled(Address(y))
        /\ GarbageApart => \A r \in Seq(AnyByte) :
             ReadAddress(FlattenSeq(Address(y)) \o r) = [val |-> y, rest |-> r]
    BY AddressRead
  <2> QED
    BY <2>1, <2>2
<1> HIDE DEF n
<1>3. each \in Seq(Calls) /\ Len(each) = n /\ \A i \in 1 .. n : each[i] = Address(x[i])
  <2>1. each \in [1 .. n -> Calls]
    BY <1>1, <1>2
  <2> QED
    BY <1>1, <2>1
<1>4. c = Many(each)
  OBVIOUS
<1> HIDE DEF each
<1>5. Many(each) \in Calls /\ Filled(Many(each))
  <2>1. <<>> \in Seq(AnyByte)
    OBVIOUS
  <2>2. Many(each) \in Calls /\ (Filled(Many(each)) <=> \A i \in 1 .. Len(each) : Filled(each[i]))
    BY <1>3, <2>1, ManyCalls
  <2> QED
    BY <1>2, <1>3, <2>2
<1>6. ASSUME GarbageApart, NEW r \in Seq(AnyByte)
      PROVE  ManyAddresses(FlattenSeq(Many(each)) \o r) = [val |-> x, rest |-> r]
  <2>1. PICK E : /\ BytesOfEach(each, E)
                 /\ GetSize(FlattenSeq(Many(each)) \o r) = [val |-> Len(each), rest |-> FlattenSeq(E) \o r]
    BY <1>3, ManyCalls
  <2>2. E \in Calls /\ Len(E) = Len(x) /\ \A i \in 1 .. n : E[i] = FlattenSeq(each[i])
    BY <1>3, <2>1 DEF BytesOfEach, n
  <2>3. \A i \in 1 .. n : \A q \in Seq(AnyByte) : ReadAddress(E[i] \o q) = [val |-> x[i], rest |-> q]
    BY <1>2, <1>3, <1>6, <2>2
  <2>4. n # Garbage
    BY <1>1, <1>6 DEF GarbageApart
  <2>5. Addressed(n, FlattenSeq(E) \o r) = [val |-> x, rest |-> r]
    BY <2>2, <2>3, <2>4, AddressesInTurn DEF n
  <2> DEFINE d == FlattenSeq(Many(each)) \o r
             e == FlattenSeq(E) \o r
  <2>6. GetSize(d) = [val |-> n, rest |-> e]
    BY <1>3, <2>1
  <2>7. Addressed(n, e) = [val |-> x, rest |-> r]
    BY <2>5
  <2> HIDE DEF d, e
  <2>8. ManyAddresses(d) = [val |-> x, rest |-> r]
    BY <2>6, <2>7 DEF ReadMany, Addressed, ManyAddresses
  <2> QED
    BY <2>8 DEF d
<1> QED
  BY <1>4, <1>5, <1>6

LEMMA ColumnInTurn ==
  ASSUME NEW d, NEW e, NEW f, NEW r, NEW x, NEW y, NEW z, GetSize(d) = [val |-> x, rest |-> e],
         ReadString(e) = [val |-> y, rest |-> f], ManyKeys(f) = [val |-> z, rest |-> r]
  PROVE  ReadColumn(d) = [val |-> [size |-> x, id |-> y, segments |-> z], rest |-> r]
<1> QED
  BY DEF ReadColumn, ManyKeys

LEMMA ColumnRead ==
  ASSUME NEW c \in Columns
  PROVE  /\ Column(c) \in Calls /\ Filled(Column(c))
         /\ \A r \in Seq(AnyByte) : GarbageApart =>
              ReadColumn(FlattenSeq(Column(c)) \o r) = [val |-> c, rest |-> r]
<1> DEFINE e == Encoded("size_t", c.size)
           u == <<e>>
           s == String(c.id)
           k == Many([i \in DOMAIN c.segments |-> Key(c.segments[i])])
<1>1. /\ c.size \in Nat /\ c.id \in Names /\ c.id \in Seq(Data) /\ c.id # <<>> /\ c.segments \in Seq(Keys)
      /\ c = [size |-> c.size, id |-> c.id, segments |-> c.segments]
  BY DEF Columns, Names
<1>2. e \in Seq(AnyByte) /\ e # <<>> /\ \A r \in Seq(AnyByte) : GetSize(e \o r) = [val |-> c.size, rest |-> r]
  <2>1. <<>> \in Seq(AnyByte)
    OBVIOUS
  <2> QED
    BY <1>1, <2>1, SizeRead
<1>3. u \in Calls /\ FlattenSeq(u) = e /\ Filled(u)
  <2> HIDE DEF e
  <2> QED
    BY <1>2, OneCall
<1>4. s \in Calls /\ Filled(s)
  BY <1>1, StringCalls
<1>5. /\ k \in Calls /\ Filled(k)
      /\ \A r \in Seq(AnyByte) : GarbageApart => ManyKeys(FlattenSeq(k) \o r) = [val |-> c.segments, rest |-> r]
  BY <1>1, KeysRead
<1>6. Column(c) = (u \o s) \o k
  BY DEF Column
<1> HIDE DEF e, u, s, k
<1>7. u \o s \in Calls /\ Filled(u \o s)
  BY <1>3, <1>4, CallsConcat
<1> DEFINE us == u \o s
<1>8. us \o k \in Calls /\ Filled(us \o k)
  <2> HIDE DEF us
  <2> QED
    BY <1>5, <1>7, CallsConcat DEF us
<1>9. ASSUME NEW r \in Seq(AnyByte), GarbageApart
      PROVE  ReadColumn(FlattenSeq(us \o k) \o r) = [val |-> c, rest |-> r]
  <2> DEFINE kr == FlattenSeq(k) \o r
             skr == FlattenSeq(s) \o kr
             d == e \o skr
  <2>1. FlattenSeq(us \o k) \o r = FlattenSeq(us) \o kr /\ kr \in Seq(AnyByte)
    <3>1. us \in Calls
      BY <1>7
    <3> HIDE DEF us
    <3> QED
      BY <1>5, <3>1, CallsBefore
  <2>2. FlattenSeq(us) \o kr = d /\ skr \in Seq(AnyByte)
    <3> HIDE DEF kr
    <3>1. FlattenSeq(u \o s) \o kr = FlattenSeq(u) \o (FlattenSeq(s) \o kr)
          /\ FlattenSeq(s) \o kr \in Seq(AnyByte)
      BY <1>3, <1>4, <2>1, CallsBefore
    <3> QED
      BY <1>3, <3>1
  <2>3. ManyKeys(kr) = [val |-> c.segments, rest |-> r]
    BY <1>5, <1>9
  <2>4. ReadString(skr) = [val |-> c.id, rest |-> kr]
    <3> HIDE DEF kr
    <3> QED
      BY <1>1, <1>9, <2>1, StringRead DEF s
  <2>5. GetSize(d) = [val |-> c.size, rest |-> skr]
    <3> HIDE DEF skr
    <3> QED
      BY <1>2, <2>2
  <2> HIDE DEF kr, skr, d, us
  <2>6. ReadColumn(d) = [val |-> [size |-> c.size, id |-> c.id, segments |-> c.segments], rest |-> r]
    BY <2>3, <2>4, <2>5, ColumnInTurn
  <2> QED
    BY <1>1, <2>1, <2>2, <2>6
<1> QED
  BY <1>6, <1>8, <1>9

\* As many columns as there are types.
LEMMA ColumnsRead ==
  ASSUME NEW x \in Seq(Columns), NEW c, c = FlattenSeq([i \in DOMAIN x |-> Column(x[i])])
  PROVE  /\ c \in Calls /\ Filled(c)
         /\ \A r \in Seq(AnyByte) : GarbageApart =>
              Columned(Len(x), FlattenSeq(c) \o r) = [val |-> x, rest |-> r]
<1> DEFINE n == Len(x)
           each == [i \in DOMAIN x |-> Column(x[i])]
<1>1. n \in Nat /\ DOMAIN x = 1 .. n
  OBVIOUS
<1>2. ASSUME NEW i \in 1 .. n
      PROVE  /\ Column(x[i]) \in Calls /\ Filled(Column(x[i]))
             /\ GarbageApart => \A r \in Seq(AnyByte) :
                  ReadColumn(FlattenSeq(Column(x[i])) \o r) = [val |-> x[i], rest |-> r]
  <2>1. PICK y \in Columns : y = x[i]
    OBVIOUS
  <2>2. /\ Column(y) \in Calls /\ Filled(Column(y))
        /\ GarbageApart => \A r \in Seq(AnyByte) :
             ReadColumn(FlattenSeq(Column(y)) \o r) = [val |-> y, rest |-> r]
    BY ColumnRead
  <2> QED
    BY <2>1, <2>2
<1> HIDE DEF n
<1>3. each \in Seq(Calls) /\ Len(each) = n /\ \A i \in 1 .. n : each[i] = Column(x[i])
  <2>1. each \in [1 .. n -> Calls]
    BY <1>1, <1>2
  <2> QED
    BY <1>1, <2>1
<1>4. c = FlattenSeq(each)
  OBVIOUS
<1> HIDE DEF each
<1>5. c \in Calls /\ Filled(c)
  <2>1. FlattenSeq(each) \in Calls
        /\ (Filled(FlattenSeq(each)) <=> \A i \in 1 .. Len(each) : Filled(each[i]))
    BY <1>3, EachCalls
  <2> QED
    BY <1>2, <1>3, <1>4, <2>1
<1>6. ASSUME GarbageApart, NEW r \in Seq(AnyByte)
      PROVE  Columned(n, FlattenSeq(c) \o r) = [val |-> x, rest |-> r]
  <2>1. PICK E : BytesOfEach(each, E)
    BY <1>3, EachCalls
  <2>2. E \in Calls /\ Len(E) = Len(x) /\ \A i \in 1 .. n : E[i] = FlattenSeq(each[i])
    BY <1>3, <2>1 DEF BytesOfEach, n
  <2>3. \A i \in 1 .. n : \A q \in Seq(AnyByte) : ReadColumn(E[i] \o q) = [val |-> x[i], rest |-> q]
    BY <1>2, <1>3, <1>6, <2>2
  <2>4. n # Garbage
    BY <1>1, <1>6 DEF GarbageApart
  <2>5. Columned(n, FlattenSeq(E) \o r) = [val |-> x, rest |-> r]
    BY <2>2, <2>3, <2>4, ColumnsInTurn DEF n
  <2>6. FlattenSeq(c) = FlattenSeq(E)
    BY <1>4, <2>1 DEF BytesOfEach
  <2> QED
    BY <2>5, <2>6
<1> QED
  BY <1>5, <1>6 DEF n

LEMMA FrameInTurn ==
  ASSUME NEW d, NEW e, NEW f, NEW r, NEW x, NEW y, NEW z, ManyInts(d) = [val |-> x, rest |-> e],
         GetSize(e) = [val |-> y, rest |-> f], Columned(Len(x), f) = [val |-> z, rest |-> r]
  PROVE  ReadFrame(d) = [val |-> [kind |-> "frame", types |-> x, rows |-> y, columns |-> z], rest |-> r]
<1> QED
  BY DEF ReadFrame, ManyInts, Columned

LEMMA FrameRead ==
  ASSUME NEW f \in Frames
  PROVE  /\ DataFrame(f) \in Calls /\ Filled(DataFrame(f)) /\ Sendable(f)
         /\ \A r \in Seq(AnyByte) : GarbageApart =>
              ReadFrame(FlattenSeq(DataFrame(f)) \o r) = [val |-> f, rest |-> r]
<1> DEFINE t == Many([i \in DOMAIN f.types |-> <<Encoded("int", f.types[i])>>])
           e == Encoded("size_t", f.rows)
           s == Append(t, e)
           c == FlattenSeq([i \in DOMAIN f.columns |-> Column(f.columns[i])])
<1>1. /\ f.types \in Seq(Data) /\ f.rows \in Nat /\ f.columns \in Seq(Columns)
      /\ Len(f.columns) = Len(f.types) /\ f.kind = "frame"
      /\ f = [kind |-> "frame", types |-> f.types, rows |-> f.rows, columns |-> f.columns]
  BY DEF Frames
<1>2. Sendable(f)
  BY <1>1 DEF Sendable
<1>3. e \in Seq(AnyByte) /\ e # <<>> /\ \A r \in Seq(AnyByte) : GetSize(e \o r) = [val |-> f.rows, rest |-> r]
  <2>1. <<>> \in Seq(AnyByte)
    OBVIOUS
  <2> QED
    BY <1>1, <2>1, SizeRead
<1>4. /\ t \in Calls /\ Filled(t)
      /\ \A r \in Seq(AnyByte) : GarbageApart => ManyInts(FlattenSeq(t) \o r) = [val |-> f.types, rest |-> r]
  BY <1>1, IntsRead
<1>5. /\ c \in Calls /\ Filled(c)
      /\ \A r \in Seq(AnyByte) : GarbageApart =>
           Columned(Len(f.types), FlattenSeq(c) \o r) = [val |-> f.columns, rest |-> r]
  BY <1>1, ColumnsRead
<1>6. DataFrame(f) = s \o c
  BY DEF DataFrame, Schema
<1> HIDE DEF e, t, c
<1>7. s \in Calls /\ Filled(s)
  <2>1. e \in Seq(AnyByte) /\ t \in Calls /\ e # <<>> /\ Filled(t)
    BY <1>3, <1>4
  <2> QED
    BY <2>1, CallBehind
<1>8. s \o c \in Calls /\ Filled(s \o c)
  <2> HIDE DEF s
  <2> QED
    BY <1>5, <1>7, CallsConcat
<1>9. ASSUME NEW r \in Seq(AnyByte), GarbageApart
      PROVE  ReadFrame(FlattenSeq(s \o c) \o r) = [val |-> f, rest |-> r]
  <2> DEFINE cr == FlattenSeq(c) \o r
             ecr == e \o cr
             d == FlattenSeq(t) \o ecr
  <2>1. FlattenSeq(s \o c) \o r = FlattenSeq(s) \o cr /\ cr \in Seq(AnyByte)
    <3> HIDE DEF s
    <3> QED
      BY <1>5, <1>7, CallsBefore
  <2>2. FlattenSeq(s) \o cr = d /\ ecr \in Seq(AnyByte)
    <3>1. t \in Calls /\ e \in Seq(AnyByte) /\ cr \in Seq(AnyByte)
      BY <1>3, <1>4, <2>1
    <3> HIDE DEF cr
    <3> QED
      BY <3>1, BytesBehind
  <2>3. ManyInts(d) = [val |-> f.types, rest |-> ecr]
    <3> HIDE DEF ecr
    <3> QED
      BY <1>4, <1>9, <2>2
  <2>4. GetSize(ecr) = [val |-> f.rows, rest |-> cr]
    <3> HIDE DEF cr
    <3> QED
      BY <1>3, <2>1
  <2>5. Columned(Len(f.types), cr) = [val |-> f.columns, rest |-> r]
    BY <1>5, <1>9
  <2> HIDE DEF cr, ecr, d, s
  <2>6. ReadFrame(d) = [val |-> [kind |-> "frame", types |-> f.types, rows |-> f.rows, columns |-> f.columns],
                        rest |-> r]
    BY <2>3, <2>4, <2>5, FrameInTurn
  <2> QED
    BY <1>1, <2>1, <2>2, <2>6
<1> QED
  BY <1>2, <1>6, <1>8, <1>9

-----------------------------------------------------------------------------
(* Messages.                                                               *)

\* d starts with the header of a message of that kind, and then has h.
Headed(d, kind, h) ==
  \E e, z : Get("msg_type", d) = [val |-> kind, rest |-> e] /\ Sizes(3, e) = [val |-> z, rest |-> h]

LEMMA HeaderRead ==
  ASSUME NEW kind \in Data
  PROVE  /\ Header(kind) \in Calls /\ Filled(Header(kind))
         /\ \A r \in Seq(AnyByte) : GarbageApart => Headed(FlattenSeq(Header(kind)) \o r, kind, r)
<1> DEFINE c == Encoded("msg_type", kind)
           o == Encoded("size_t", 0)
           E == [i \in 1 .. 3 |-> o]
           x == [i \in 1 .. 3 |-> 0]
           V == Seq(AnyByte)
<1>1. c \in V /\ c # <<>> /\ \A r \in V : Get("msg_type", c \o r) = [val |-> kind, rest |-> r]
  <2>1. "msg_type" \in DOMAIN Width
    BY DEF Width
  <2> QED
    BY <2>1, EncodedType, GetEncoded
<1>2. o \in V /\ o # <<>> /\ \A r \in V : GetSize(o \o r) = [val |-> 0, rest |-> r]
  <2>1. <<>> \in V /\ 0 \in Nat
    OBVIOUS
  <2> QED
    BY <2>1, SizeRead
<1>3. Header(kind) = <<c>> \o E
  BY DEF Header
<1> HIDE DEF c, o
<1>4. E \in Calls /\ Len(E) = 3 /\ \A i \in 1 .. 3 : E[i] = o
  <2> HIDE DEF V
  <2>1. E \in [1 .. 3 -> V]
    BY <1>2
  <2>2. E \in Seq(V) /\ Len(E) = 3
    BY <2>1
  <2> QED
    BY <2>2 DEF Calls, V
<1>5. x \in Seq(Nat) /\ Len(x) = 3 /\ \A i \in 1 .. 3 : x[i] = 0
  <2>1. x \in [1 .. 3 -> Nat]
    OBVIOUS
  <2> QED
    BY <2>1
<1> DEFINE u == <<c>>
<1>6. u \in Calls /\ FlattenSeq(u) = c /\ Filled(u)
  BY <1>1, OneCall
<1> HIDE DEF E, x, u
<1>7. Filled(E)
  BY <1>2, <1>4 DEF Filled
<1>8. u \o E \in Calls /\ Filled(u \o E)
  BY <1>4, <1>6, <1>7, CallsConcat
<1>9. ASSUME NEW r \in V, GarbageApart
      PROVE  Headed(FlattenSeq(u \o E) \o r, kind, r)
  <2> DEFINE e == FlattenSeq(E) \o r
  <2>1. FlattenSeq(u \o E) \o r = c \o e /\ e \in V
    BY <1>4, <1>6, CallsBefore
  <2>2. Sizes(3, e) = [val |-> x, rest |-> r]
    <3>1. Len(x) # Garbage /\ Len(E) = Len(x)
      BY <1>4, <1>5, <1>9 DEF GarbageApart
    <3>2. \A i \in 1 .. Len(x) : \A q \in V : GetSize(E[i] \o q) = [val |-> x[i], rest |-> q]
      BY <1>2, <1>4, <1>5
    <3>3. Sizes(Len(x), e) = [val |-> x, rest |-> r]
      BY <1>4, <1>5, <3>1, <3>2, SizesInTurn
    <3> QED
      BY <1>5, <3>3
  <2> HIDE DEF e
  <2>3. Get("msg_type", c \o e) = [val |-> kind, rest |-> e]
    BY <1>1, <2>1
  <2> QED
    BY <2>1, <2>2, <2>3 DEF Headed
<1> QED
  BY <1>3, <1>8, <1>9 DEF u

\* What is read after the header.
LEMMA PutInTurn ==
  ASSUME NEW d, NEW h, NEW e, NEW r, NEW k, NEW v, Headed(d, "PUT", h),
         ReadKey(h) = [val |-> k, rest |-> e], ReadValue(e) = [val |-> v, rest |-> r]
  PROVE  ReadMessage(d) = [val |-> [kind |-> "PUT", key |-> k, v |-> v], rest |-> r]
<1> QED
  BY DEF ReadMessage, Headed, Sizes

LEMMA GetInTurn ==
  ASSUME NEW kind \in {"GET", "WAITANDGET"}, NEW d, NEW h, NEW r, NEW k, Headed(d, kind, h),
         ReadKey(h) = [val |-> k, rest |-> r]
  PROVE  ReadMessage(d) = [val |-> [kind |-> kind, key |-> k], rest |-> r]
<1> QED
  BY DEF ReadMessage, Headed, Sizes

LEMMA ReplyInTurn ==
  ASSUME NEW d, NEW h, NEW r, NEW v, Headed(d, "REPLY", h), ReadValue(h) = [val |-> v, rest |-> r]
  PROVE  ReadMessage(d) = [val |-> [kind |-> "REPLY", v |-> v], rest |-> r]
<1> QED
  BY DEF ReadMessage, Headed, Sizes

LEMMA RegisterInTurn ==
  ASSUME NEW d, NEW h, NEW e, NEW r, NEW n, NEW a, Headed(d, "REGISTER", h),
         GetSize(h) = [val |-> n, rest |-> e], ReadAddress(e) = [val |-> a, rest |-> r]
  PROVE  ReadMessage(d) = [val |-> [kind |-> "REGISTER", node |-> n, address |-> a], rest |-> r]
<1>1. PICK g, z : Get("msg_type", d) = [val |-> "REGISTER", rest |-> g] /\ Sizes(3, g) = [val |-> z, rest |-> h]
  BY DEF Headed
<1>2. Get("msg_type", d).val = "REGISTER" /\ Get("msg_type", d).rest = g /\ ReadTimes(GetSize, 3, g).rest = h
  BY <1>1, ValRest DEF Sizes
<1>3. GetSize(h).val = n /\ GetSize(h).rest = e /\ ReadAddress(e).val = a /\ ReadAddress(e).rest = r
  BY ValRest
<1> QED
  BY <1>2, <1>3 DEF ReadMessage

LEMMA DirectoryInTurn ==
  ASSUME NEW d, NEW h, NEW r, NEW x, Headed(d, "DIRECTORY", h),
         ManyAddresses(h) = [val |-> x, rest |-> r]
  PROVE  ReadMessage(d) = [val |-> [kind |-> "DIRECTORY", addresses |-> x], rest |-> r]
<1> QED
  BY DEF ReadMessage, Headed, Sizes, ManyAddresses

LEMMA StatusInTurn ==
  ASSUME NEW d, NEW h, NEW r, NEW s, Headed(d, "STATUS", h), ReadString(h) = [val |-> s, rest |-> r]
  PROVE  ReadMessage(d) = [val |-> [kind |-> "STATUS", message |-> s], rest |-> r]
<1> QED
  BY DEF ReadMessage, Headed, Sizes

LEMMA KillInTurn ==
  ASSUME NEW d, NEW h, Headed(d, "KILL", h)
  PROVE  ReadMessage(d) = [val |-> [kind |-> "KILL"], rest |-> <<>>]
<1> QED
  BY DEF ReadMessage, Headed, Sizes

\* body is what follows the header of m, and brings m.
Brings(body, m) ==
  /\ body \in Calls
  /\ Filled(body) <=> Sendable(m)
  /\ GarbageApart /\ Sendable(m) => \A d : Headed(d, m.kind, FlattenSeq(body) \o <<>>) =>
                                             ReadMessage(d) = [val |-> m, rest |-> <<>>]

LEMMA PutBody ==
  ASSUME NEW m \in [kind : {"PUT"}, key : Keys, v : Seq(AnyByte)]
  PROVE  Brings(Key(m.key) \o Value(m.v), m)
<1> DEFINE k == Key(m.key)
           v == Value(m.v)
<1>1. m.key \in Keys /\ m.v \in Seq(AnyByte) /\ m.kind = "PUT" /\ m = [kind |-> "PUT", key |-> m.key, v |-> m.v]
  OBVIOUS
<1>2. /\ k \in Calls /\ Filled(k)
      /\ \A r \in Seq(AnyByte) : GarbageApart => ReadKey(FlattenSeq(k) \o r) = [val |-> m.key, rest |-> r]
  BY <1>1, KeyRead
<1>3. v \in Calls /\ (Filled(v) <=> m.v # <<>>)
  BY <1>1, ValueCalls
<1>4. Sendable(m) <=> m.v # <<>>
  BY <1>1 DEF Sendable
<1>5. <<>> \in Seq(AnyByte)
  OBVIOUS
<1>6. ASSUME GarbageApart, m.v # <<>>
      PROVE  ReadValue(FlattenSeq(v) \o <<>>) = [val |-> m.v, rest |-> <<>>]
  BY <1>1, <1>5, <1>6, ValueRead
<1> HIDE DEF k, v
<1>7. k \o v \in Calls /\ (Filled(k \o v) <=> Filled(v))
  BY <1>2, <1>3, CallsConcat
<1>8. ASSUME GarbageApart, m.v # <<>>, NEW d, Headed(d, "PUT", FlattenSeq(k \o v) \o <<>>)
      PROVE  ReadMessage(d) = [val |-> m, rest |-> <<>>]
  <2> DEFINE e == FlattenSeq(v) \o <<>>
             h == FlattenSeq(k) \o e
  <2>1. FlattenSeq(k \o v) \o <<>> = h /\ e \in Seq(AnyByte)
    BY <1>2, <1>3, <1>5, CallsBefore
  <2>2. ReadValue(e) = [val |-> m.v, rest |-> <<>>]
    BY <1>6, <1>8
  <2>3. ReadKey(h) = [val |-> m.key, rest |-> e]
    <3> HIDE DEF e
    <3> QED
      BY <1>2, <1>8, <2>1
  <2> HIDE DEF e, h
  <2>4. Headed(d, "PUT", h)
    BY <1>8, <2>1
  <2>5. ReadMessage(d) = [val |-> [kind |-> "PUT", key |-> m.key, v |-> m.v], rest |-> <<>>]
    BY <2>2, <2>3, <2>4, PutInTurn
  <2> QED
    BY <1>1, <2>5
<1> QED
  BY <1>1, <1>3, <1>4, <1>7, <1>8 DEF Brings, k, v

LEMMA GetBody ==
  ASSUME NEW m \in [kind : {"GET", "WAITANDGET"}, key : Keys]
  PROVE  Brings(Key(m.key), m)
<1> DEFINE k == Key(m.key)
<1>1. m.key \in Keys /\ m.kind \in {"GET", "WAITANDGET"} /\ m = [kind |-> m.kind, key |-> m.key]
  OBVIOUS
<1>2. /\ k \in Calls /\ Filled(k)
      /\ \A r \in Seq(AnyByte) : GarbageApart => ReadKey(FlattenSeq(k) \o r) = [val |-> m.key, rest |-> r]
  BY <1>1, KeyRead
<1>3. Sendable(m)
  BY <1>1 DEF Sendable
<1> HIDE DEF k
<1>4. ASSUME GarbageApart, NEW d, Headed(d, m.kind, FlattenSeq(k) \o <<>>)
      PROVE  ReadMessage(d) = [val |-> m, rest |-> <<>>]
  <2> DEFINE h == FlattenSeq(k) \o <<>>
  <2>1. ReadKey(h) = [val |-> m.key, rest |-> <<>>]
    <3>1. <<>> \in Seq(AnyByte)
      OBVIOUS
    <3> QED
      BY <1>2, <1>4, <3>1
  <2>2. Headed(d, m.kind, h)
    BY <1>4
  <2> HIDE DEF h
  <2>3. ReadMessage(d) = [val |-> [kind |-> m.kind, key |-> m.key], rest |-> <<>>]
    BY <1>1, <2>1, <2>2, GetInTurn
  <2> QED
    BY <1>1, <2>3
<1> QED
  BY <1>2, <1>3, <1>4 DEF Brings, k

LEMMA ReplyBody ==
  ASSUME NEW m \in [kind : {"REPLY"}, v : Seq(AnyByte)]
  PROVE  Brings(Value(m.v), m)
<1> DEFINE v == Value(m.v)
<1>1. m.v \in Seq(AnyByte) /\ m.kind = "REPLY" /\ m = [kind |-> "REPLY", v |-> m.v]
  OBVIOUS
<1>2. v \in Calls /\ (Filled(v) <=> m.v # <<>>)
  BY <1>1, ValueCalls
<1>3. Sendable(m) <=> m.v # <<>>
  BY <1>1 DEF Sendable
<1>4. ASSUME GarbageApart, m.v # <<>>, NEW d, Headed(d, "REPLY", FlattenSeq(v) \o <<>>)
      PROVE  ReadMessage(d) = [val |-> m, rest |-> <<>>]
  <2>1. <<>> \in Seq(AnyByte)
    OBVIOUS
  <2> DEFINE h == FlattenSeq(v) \o <<>>
  <2>2. ReadValue(h) = [val |-> m.v, rest |-> <<>>]
    BY <1>1, <1>4, <2>1, ValueRead
  <2>3. Headed(d, "REPLY", h)
    BY <1>4
  <2> HIDE DEF h
  <2>4. ReadMessage(d) = [val |-> [kind |-> "REPLY", v |-> m.v], rest |-> <<>>]
    BY <2>2, <2>3, ReplyInTurn
  <2> QED
    BY <1>1, <2>4
<1> HIDE DEF v
<1> QED
  BY <1>1, <1>2, <1>3, <1>4 DEF Brings, v

LEMMA RegisterBody ==
  ASSUME NEW m \in [kind : {"REGISTER"}, node : Nat, address : Addresses]
  PROVE  Brings(<<Encoded("size_t", m.node)>> \o Address(m.address), m)
<1> DEFINE c == Encoded("size_t", m.node)
           u == <<c>>
           a == Address(m.address)
<1>1. /\ m.node \in Nat /\ m.address \in Addresses /\ m.kind = "REGISTER"
      /\ m = [kind |-> "REGISTER", node |-> m.node, address |-> m.address]
  OBVIOUS
<1>2. <<>> \in Seq(AnyByte)
  OBVIOUS
<1>3. c \in Seq(AnyByte) /\ c # <<>> /\ \A r \in Seq(AnyByte) : GetSize(c \o r) = [val |-> m.node, rest |-> r]
  BY <1>1, <1>2, SizeRead
<1>4. u \in Calls /\ FlattenSeq(u) = c /\ Filled(u)
  <2> HIDE DEF c
  <2> QED
    BY <1>3, OneCall
<1>5. /\ a \in Calls /\ Filled(a)
      /\ \A r \in Seq(AnyByte) : ReadAddress(FlattenSeq(a) \o r) = [val |-> m.address, rest |-> r]
  BY <1>1, AddressRead
<1>6. Sendable(m)
  BY <1>1 DEF Sendable
<1> HIDE DEF c, u, a
<1>7. u \o a \in Calls /\ Filled(u \o a)
  BY <1>4, <1>5, CallsConcat
<1>8. ASSUME NEW d, Headed(d, "REGISTER", FlattenSeq(u \o a) \o <<>>)
      PROVE  ReadMessage(d) = [val |-> m, rest |-> <<>>]
  <2> DEFINE e == FlattenSeq(a) \o <<>>
             h == c \o e
  <2>1. FlattenSeq(u \o a) \o <<>> = h /\ e \in Seq(AnyByte)
    BY <1>2, <1>4, <1>5, CallsBefore
  <2>2. ReadAddress(e) = [val |-> m.address, rest |-> <<>>]
    BY <1>2, <1>5
  <2>3. GetSize(h) = [val |-> m.node, rest |-> e]
    <3> HIDE DEF e
    <3> QED
      BY <1>3, <2>1
  <2> HIDE DEF e, h
  <2>4. Headed(d, "REGISTER", h)
    BY <1>8, <2>1
  <2>5. ReadMessage(d) = [val |-> [kind |-> "REGISTER", node |-> m.node, address |-> m.address], rest |-> <<>>]
    BY <2>2, <2>3, <2>4, RegisterInTurn
  <2> QED
    BY <1>1, <2>5
<1> QED
  BY <1>1, <1>6, <1>7, <1>8 DEF Brings, c, u, a

LEMMA DirectoryBody ==
  ASSUME NEW m \in [kind : {"DIRECTORY"}, addresses : Seq(Addresses)],
         NEW c, c = Many([i \in DOMAIN m.addresses |-> Address(m.addresses[i])])
  PROVE  Brings(c, m)
<1>1. /\ m.addresses \in Seq(Addresses) /\ m.kind = "DIRECTORY"
      /\ m = [kind |-> "DIRECTORY", addresses |-> m.addresses]
  OBVIOUS
<1>2. /\ c \in Calls /\ Filled(c)
      /\ \A r \in Seq(AnyByte) : GarbageApart =>
           ManyAddresses(FlattenSeq(c) \o r) = [val |-> m.addresses, rest |-> r]
  BY <1>1, AddressesRead
<1>3. Sendable(m)
  BY <1>1 DEF Sendable
<1>4. ASSUME GarbageApart, NEW d, Headed(d, "DIRECTORY", FlattenSeq(c) \o <<>>)
      PROVE  ReadMessage(d) = [val |-> m, rest |-> <<>>]
  <2>1. <<>> \in Seq(AnyByte)
    OBVIOUS
  <2> DEFINE h == FlattenSeq(c) \o <<>>
  <2>2. ManyAddresses(h) = [val |-> m.addresses, rest |-> <<>>]
    BY <1>2, <1>4, <2>1
  <2>3. Headed(d, "DIRECTORY", h)
    BY <1>4
  <2> HIDE DEF h
  <2>4. ReadMessage(d) = [val |-> [kind |-> "DIRECTORY", addresses |-> m.addresses], rest |-> <<>>]
    BY <2>2, <2>3, DirectoryInTurn
  <2> QED
    BY <1>1, <2>4
<1> QED
  BY <1>1, <1>2, <1>3, <1>4 DEF Brings

LEMMA StatusBody ==
  ASSUME NEW m \in [kind : {"STATUS"}, message : Seq(Data)]
  PROVE  Brings(String(m.message), m)
<1> DEFINE s == String(m.message)
<1>1. m.message \in Seq(Data) /\ m.kind = "STATUS" /\ m = [kind |-> "STATUS", message |-> m.message]
  OBVIOUS
<1>2. s \in Calls /\ (Filled(s) <=> m.message # <<>>)
  BY <1>1, StringCalls
<1>3. Sendable(m) <=> m.message # <<>>
  BY <1>1 DEF Sendable
<1>4. ASSUME GarbageApart, m.message # <<>>, NEW d, Headed(d, "STATUS", FlattenSeq(s) \o <<>>)
      PROVE  ReadMessage(d) = [val |-> m, rest |-> <<>>]
  <2>1. <<>> \in Seq(AnyByte) /\ m.message \in Names
    BY <1>1, <1>4 DEF Names
  <2> DEFINE h == FlattenSeq(s) \o <<>>
  <2>2. ReadString(h) = [val |-> m.message, rest |-> <<>>]
    BY <1>4, <2>1, StringRead
  <2>3. Headed(d, "STATUS", h)
    BY <1>4
  <2> HIDE DEF h
  <2>4. ReadMessage(d) = [val |-> [kind |-> "STATUS", message |-> m.message], rest |-> <<>>]
    BY <2>2, <2>3, StatusInTurn
  <2> QED
    BY <1>1, <2>4
<1> HIDE DEF s
<1> QED
  BY <1>1, <1>2, <1>3, <1>4 DEF Brings, s

LEMMA KillBody ==
  ASSUME NEW m \in [kind : {"KILL"}]
  PROVE  Brings(<<>>, m)
<1>1. m.kind = "KILL" /\ m = [kind |-> "KILL"]
  OBVIOUS
<1>2. <<>> \in Calls /\ Filled(<<>>)
  BY DEF Calls, Filled
<1>3. Sendable(m)
  BY <1>1 DEF Sendable
<1>4. ASSUME NEW d, Headed(d, "KILL", FlattenSeq(<<>>) \o <<>>)
      PROVE  ReadMessage(d) = [val |-> m, rest |-> <<>>]
  BY <1>1, <1>4, KillInTurn
<1> QED
  BY <1>1, <1>2, <1>3, <1>4 DEF Brings

LEMMA MessageRead ==
  ASSUME NEW m \in Messages
  PROVE  /\ Message(m) \in Calls /\ (Filled(Message(m)) <=> Sendable(m))
         /\ GarbageApart /\ Sendable(m) =>
              ReadMessage(FlattenSeq(Message(m)) \o <<>>) = [val |-> m, rest |-> <<>>]
         /\ m.kind \notin {"array", "frame"}
<1> DEFINE h == Header(m.kind)
<1>1. /\ \E body : Brings(body, m) /\ Message(m) = h \o body
      /\ m.kind \in Kinds /\ m.kind \notin {"array", "frame"}
  <2>1. CASE m \in [kind : {"PUT"}, key : Keys, v : Seq(AnyByte)]
    <3> DEFINE body == Key(m.key) \o Value(m.v)
    <3>1. m.kind \in {"PUT"}
      BY <2>1
    <3>2. Brings(body, m)
      BY <2>1, PutBody
    <3>3. Message(m) = h \o body
      BY <3>1 DEF Message
    <3>4. m.kind \in Kinds /\ m.kind \notin {"array", "frame"}
      BY <3>1 DEF Kinds
    <3> HIDE DEF body, h
    <3>5. \E b : Brings(b, m) /\ Message(m) = h \o b
      BY <3>2, <3>3
    <3> QED
      BY <3>4, <3>5
  <2>2. CASE m \in [kind : {"GET", "WAITANDGET"}, key : Keys]
    <3> DEFINE body == Key(m.key)
    <3>1. m.kind \in {"GET", "WAITANDGET"}
      BY <2>2
    <3>2. Brings(body, m)
      BY <2>2, GetBody
    <3>3. Message(m) = h \o body
      BY <3>1 DEF Message
    <3>4. m.kind \in Kinds /\ m.kind \notin {"array", "frame"}
      BY <3>1 DEF Kinds
    <3> HIDE DEF body, h
    <3>5. \E b : Brings(b, m) /\ Message(m) = h \o b
      BY <3>2, <3>3
    <3> QED
      BY <3>4, <3>5
  <2>3. CASE m \in [kind : {"REPLY"}, v : Seq(AnyByte)]
    <3> DEFINE body == Value(m.v)
    <3>1. m.kind \in {"REPLY"}
      BY <2>3
    <3>2. Brings(body, m)
      BY <2>3, ReplyBody
    <3>3. Message(m) = h \o body
      BY <3>1 DEF Message
    <3>4. m.kind \in Kinds /\ m.kind \notin {"array", "frame"}
      BY <3>1 DEF Kinds
    <3> HIDE DEF body, h
    <3>5. \E b : Brings(b, m) /\ Message(m) = h \o b
      BY <3>2, <3>3
    <3> QED
      BY <3>4, <3>5
  <2>4. CASE m \in [kind : {"REGISTER"}, node : Nat, address : Addresses]
    <3> DEFINE body == <<Encoded("size_t", m.node)>> \o Address(m.address)
    <3>1. m.kind \in {"REGISTER"}
      BY <2>4
    <3>2. Brings(body, m)
      BY <2>4, RegisterBody
    <3>3. Message(m) = h \o body
      BY <3>1 DEF Message
    <3>4. m.kind \in Kinds /\ m.kind \notin {"array", "frame"}
      BY <3>1 DEF Kinds
    <3> HIDE DEF body, h
    <3>5. \E b : Brings(b, m) /\ Message(m) = h \o b
      BY <3>2, <3>3
    <3> QED
      BY <3>4, <3>5
  <2>5. CASE m \in [kind : {"DIRECTORY"}, addresses : Seq(Addresses)]
    <3> DEFINE body == Many([i \in DOMAIN m.addresses |-> Address(m.addresses[i])])
    <3>1. m.kind \in {"DIRECTORY"}
      BY <2>5
    <3>2. Brings(body, m)
      BY <2>5, DirectoryBody
    <3>3. Message(m) = h \o body
      BY <3>1 DEF Message
    <3>4. m.kind \in Kinds /\ m.kind \notin {"array", "frame"}
      BY <3>1 DEF Kinds
    <3> HIDE DEF body, h
    <3>5. \E b : Brings(b, m) /\ Message(m) = h \o b
      BY <3>2, <3>3
    <3> QED
      BY <3>4, <3>5
  <2>6. CASE m \in [kind : {"STATUS"}, message : Seq(Data)]
    <3> DEFINE body == String(m.message)
    <3>1. m.kind \in {"STATUS"}
      BY <2>6
    <3>2. Brings(body, m)
      BY <2>6, StatusBody
    <3>3. Message(m) = h \o body
      BY <3>1 DEF Message
    <3>4. m.kind \in Kinds /\ m.kind \notin {"array", "frame"}
      BY <3>1 DEF Kinds
    <3> HIDE DEF body, h
    <3>5. \E b : Brings(b, m) /\ Message(m) = h \o b
      BY <3>2, <3>3
    <3> QED
      BY <3>4, <3>5
  <2>7. CASE m \in [kind : {"KILL"}]
    <3> DEFINE body == <<>>
    <3>1. m.kind \in {"KILL"}
      BY <2>7
    <3>2. Brings(body, m)
      BY <2>7, KillBody
    <3>3. Message(m) = h \o body
      BY <3>1 DEF Message
    <3>4. m.kind \in Kinds /\ m.kind \notin {"array", "frame"}
      BY <3>1 DEF Kinds
    <3> HIDE DEF body, h
    <3>5. \E b : Brings(b, m) /\ Message(m) = h \o b
      BY <3>2, <3>3
    <3> QED
      BY <3>4, <3>5
  <2> QED
    BY <2>1, <2>2, <2>3, <2>4, <2>5, <2>6, <2>7 DEF Messages
<1>2. PICK body : Brings(body, m) /\ Message(m) = h \o body
  BY <1>1
<1>3. m.kind \in Data
  BY <1>1 DEF Data
<1>4. /\ h \in Calls /\ Filled(h)
      /\ \A r \in Seq(AnyByte) : GarbageApart => Headed(FlattenSeq(h) \o r, m.kind, r)
  BY <1>3, HeaderRead
<1> HIDE DEF h
<1>5. body \in Calls /\ (Filled(body) <=> Sendable(m))
  BY <1>2 DEF Brings
<1>6. h \o body \in Calls /\ (Filled(h \o body) <=> Filled(body))
  BY <1>4, <1>5, CallsConcat
<1>7. ASSUME GarbageApart, Sendable(m)
      PROVE  ReadMessage(FlattenSeq(h \o body) \o <<>>) = [val |-> m, rest |-> <<>>]
  <2> DEFINE r == FlattenSeq(body) \o <<>>
  <2>1. <<>> \in Seq(AnyByte)
    OBVIOUS
  <2>2. FlattenSeq(h \o body) \o <<>> = FlattenSeq(h) \o r /\ r \in Seq(AnyByte)
    BY <1>4, <1>5, <2>1, CallsBefore
  <2> HIDE DEF r
  <2>3. Headed(FlattenSeq(h) \o r, m.kind, r)
    BY <1>4, <1>7, <2>2
  <2> QED
    BY <1>2, <1>7, <2>2, <2>3 DEF Brings, r
<1> QED
  BY <1>1, <1>2, <1>5, <1>6, <1>7

-----------------------------------------------------------------------------
(* Whatever is written is read.                                            *)

LEMMA ObjectRead ==
  ASSUME NEW o \in Arrays \cup Frames \cup Messages
  PROVE  /\ Serialize(o) \in Calls /\ (Filled(Serialize(o)) <=> Sendable(o))
         /\ GarbageApart /\ Sendable(o) =>
              Deserialize(o, FlattenSeq(Serialize(o))) = [val |-> o, rest |-> <<>>]
<1>1. ASSUME NEW c \in Calls
      PROVE  FlattenSeq(c) \o <<>> = FlattenSeq(c)
  <2>1. FlattenSeq(c) \in Seq(AnyByte)
    BY FlatType DEF Calls
  <2> QED
    BY <2>1, ConcatEmptySeq
<1>2. <<>> \in Seq(AnyByte)
  OBVIOUS
<1>3. CASE o \in Arrays
  <2>1. o.kind = "array"
    BY <1>3 DEF Arrays
  <2>2. Serialize(o) = Array(o) /\ \A d : Deserialize(o, d) = ReadArray(o.type, d)
    BY <2>1 DEF Serialize, Deserialize
  <2>3. Array(o) \in Calls /\ (Filled(Array(o)) <=> Sendable(o))
    BY <1>3, ArrayRead
  <2>4. ASSUME GarbageApart, Sendable(o)
        PROVE  ReadArray(o.type, FlattenSeq(Array(o)) \o <<>>) = [val |-> o, rest |-> <<>>]
    BY <1>2, <1>3, <2>4, ArrayRead
  <2>5. FlattenSeq(Array(o)) \o <<>> = FlattenSeq(Array(o))
    BY <1>1, <2>3
  <2> QED
    BY <2>2, <2>3, <2>4, <2>5
<1>4. CASE o \in Frames
  <2>1. o.kind = "frame"
    BY <1>4 DEF Frames
  <2>2. Serialize(o) = DataFrame(o) /\ \A d : Deserialize(o, d) = ReadFrame(d)
    BY <2>1 DEF Serialize, Deserialize
  <2>3. DataFrame(o) \in Calls /\ Filled(DataFrame(o)) /\ Sendable(o)
    BY <1>4, FrameRead
  <2>4. ASSUME GarbageApart
        PROVE  ReadFrame(FlattenSeq(DataFrame(o)) \o <<>>) = [val |-> o, rest |-> <<>>]
    BY <1>2, <1>4, <2>4, FrameRead
  <2>5. FlattenSeq(DataFrame(o)) \o <<>> = FlattenSeq(DataFrame(o))
    BY <1>1, <2>3
  <2> QED
    BY <2>2, <2>3, <2>4, <2>5
<1>5. CASE o \in Messages
  <2>1. o.kind \notin {"array", "frame"}
    BY <1>5, MessageRead
  <2>2. Serialize(o) = Message(o) /\ \A d : Deserialize(o, d) = ReadMessage(d)
    BY <2>1 DEF Serialize, Deserialize
  <2>3. Message(o) \in Calls /\ (Filled(Message(o)) <=> Sendable(o))
    BY <1>5, MessageRead
  <2>4. ASSUME GarbageApart, Sendable(o)
        PROVE  ReadMessage(FlattenSeq(Message(o)) \o <<>>) = [val |-> o, rest |-> <<>>]
    BY <1>5, <2>4, MessageRead
  <2>5. FlattenSeq(Message(o)) \o <<>> = FlattenSeq(Message(o))
    BY <1>1, <2>3
  <2> QED
    BY <2>2, <2>3, <2>4, <2>5
<1> QED
  BY <1>3, <1>4, <1>5

\* done are the calls made, toAdd those left; the buffer holds what done added.
Progress(done) ==
  /\ done \in Calls /\ toAdd \in Calls /\ Filled(done)
  /\ done \o toAdd = Serialize(object)
  /\ InValue = FlattenSeq(done)

Storables == Arrays \cup Frames

SerialInv ==
  /\ BufferIInv
  /\ bytes \in Seq(AnyByte \cup {Unset})
  /\ object \in Storables \cup Messages
  /\ place = "writing" => \E done : Progress(done)
  /\ payload # Nothing => /\ payload \in Storables /\ Sendable(payload)
                          /\ object.v = FlattenSeq(Serialize(payload))
  /\ RoundTrip

LEMMA AddsBehind ==
  ASSUME BufferIInv, bytes \in Seq(AnyByte \cup {Unset}), NEW b \in Seq(AnyByte), b # <<>>, Add(b),
         InValue \in Seq(AnyByte)
  PROVE  bytes' \in Seq(AnyByte \cup {Unset}) /\ InValue' = InValue \o b
<1> DEFINE A == AnyByte \cup {Unset}
           n == Len(b)
<1>1. /\ n \in Nat \ {0} /\ size' = size + n /\ capacity' \in Nat /\ size' <= capacity'
      /\ \/ bytes' = Written(bytes, b) /\ capacity' = capacity
         \/ bytes' = Written(Copied(capacity'), b)
  <2>1. b \in Seq(AnyByte) \ {<<>>}
    OBVIOUS
  <2> QED
    BY <2>1, AddGrows
<1>2. size \in Nat /\ capacity \in Nat /\ size <= capacity /\ DOMAIN bytes = 1 .. capacity
  BY DEF BufferIInv, InBounds
<1>3. PICK mem : /\ bytes' = Written(mem, b) /\ mem \in [1 .. capacity' -> A]
                 /\ \A i \in 1 .. size : mem[i] = bytes[i]
  <2>1. CASE bytes' = Written(bytes, b) /\ capacity' = capacity
    <3>1. bytes \in [1 .. capacity' -> A]
      BY <1>2, <2>1
    <3> QED
      BY <2>1, <3>1
  <2>2. CASE bytes' = Written(Copied(capacity'), b)
    <3> DEFINE mem == Copied(capacity')
    <3>1. \A i \in 1 .. capacity' : i <= size => bytes[i] \in A
      BY <1>1, <1>2
    <3>2. mem \in [1 .. capacity' -> A]
      BY <3>1 DEF Copied
    <3>3. \A i \in 1 .. size : mem[i] = bytes[i]
      BY <1>1, <1>2 DEF Copied
    <3> HIDE DEF mem
    <3> QED
      BY <2>2, <3>2, <3>3 DEF mem
  <2> QED
    BY <1>1, <2>1, <2>2
<1>4. \A i \in size + 1 .. size + n : i - size \in 1 .. n /\ b[i - size] \in A
  BY <1>1, <1>2
<1>5. /\ bytes' \in [1 .. capacity' -> A]
      /\ \A i \in 1 .. capacity' : bytes'[i] = IF i \in size + 1 .. size + n THEN b[i - size] ELSE mem[i]
  BY <1>3, <1>4 DEF Written
<1>6. bytes' \in Seq(A) /\ Len(bytes') = capacity'
  BY <1>1, <1>5
<1>7. InValue' = InValue \o b
  <2> DEFINE v == InValue
             w == v \o b
             u == InValue'
  <2>1. Len(v) = size /\ \A i \in 1 .. size : v[i] = bytes[i]
    BY <1>2 DEF InValue
  <2>2. u \in Seq(A) /\ Len(u) = size + n /\ \A i \in 1 .. size + n : u[i] = bytes'[i]
    BY <1>1, <1>2, <1>6 DEF InValue
  <2> HIDE DEF u, v
  <2>3. v \in Seq(AnyByte) /\ v \in Seq(A) /\ b \in Seq(A)
    BY DEF v
  <2>4. w \in Seq(A) /\ Len(w) = size + n
        /\ \A i \in 1 .. size + n : w[i] = IF i <= size THEN v[i] ELSE b[i - size]
    <3> HIDE DEF A
    <3> QED
      BY <1>1, <2>1, <2>3, ConcatProperties
  <2>5. ASSUME NEW i \in 1 .. size + n
        PROVE  u[i] = w[i]
    <3>1. i \in 1 .. capacity'
      BY <1>1, <1>2
    <3>2. u[i] = IF i \in size + 1 .. size + n THEN b[i - size] ELSE mem[i]
      BY <1>5, <2>2, <3>1
    <3>3. CASE i <= size
      <4>1. i \notin size + 1 .. size + n /\ i \in 1 .. size
        BY <1>2, <3>3
      <4> QED
        BY <1>3, <2>1, <2>4, <3>2, <3>3, <4>1
    <3>4. CASE ~(i <= size)
      <4>1. i \in size + 1 .. size + n
        BY <1>1, <1>2, <3>4
      <4> QED
        BY <2>4, <3>2, <3>4, <4>1
    <3> QED
      BY <3>3, <3>4
  <2> HIDE DEF w
  <2>6. u = w
    BY <2>2, <2>4, <2>5, SeqEqual
  <2> QED
    BY <2>6 DEF u, v, w
<1> QED
  BY <1>6, <1>7

\* A buffer anew, for object o, whose calls are all left to make.
LEMMA Begun ==
  ASSUME NEW o \in Storables \cup Messages, NEW mem, NEW n, NEW c, New(mem, n, c)
  PROVE  /\ mem \in Seq(AnyByte \cup {Unset}) /\ SubSeq(mem, 1, n) = FlattenSeq(<<>>)
         /\ <<>> \in Calls /\ Filled(<<>>)
         /\ Serialize(o) \in Calls /\ <<>> \o Serialize(o) = Serialize(o)
<1>1. mem \in [1 .. Initial -> AnyByte \cup {Unset}] /\ n = 0
  BY DEF New
<1>2. mem \in Seq(AnyByte \cup {Unset}) /\ SubSeq(mem, 1, n) = <<>>
  BY <1>1, SerializerAssumption
<1>3. Serialize(o) \in Calls
  BY ObjectRead DEF Storables
<1>4. <<>> \o Serialize(o) = Serialize(o)
  BY <1>3, ConcatEmptySeq DEF Calls
<1>5. <<>> \in Calls /\ Filled(<<>>)
  BY DEF Calls, Filled
<1> QED
  BY <1>2, <1>3, <1>4, <1>5, FlatEmpty

LEMMA StartsWriting ==
  ASSUME Objects \subseteq Storables \cup Messages, SerialInit
  PROVE  SerialInv
<1>1. object \in Storables \cup Messages /\ toAdd = Serialize(object) /\ SInit
  BY DEF SerialInit
<1>2. bytes \in Seq(AnyByte \cup {Unset}) /\ Progress(<<>>)
  BY <1>1, Begun DEF SInit, Progress, InValue
<1>3. BufferIInv
  BY <1>1, BufferInit
<1>4. place = "writing" /\ payload = Nothing
  BY DEF SerialInit
<1> QED
  BY <1>1, <1>2, <1>3, <1>4 DEF SerialInv, RoundTrip

LEMMA AddKeeps ==
  ASSUME SerialInv, AddNext
  PROVE  SerialInv'
<1>1. PICK done : Progress(done)
  BY DEF SerialInv, AddNext
<1>0. PICK b : b = Head(toAdd)
  OBVIOUS
<1> DEFINE V == Seq(AnyByte)
           now == Append(done, b)
<1>2. /\ toAdd # <<>> /\ b # <<>> /\ Add(b) /\ toAdd' = Tail(toAdd)
      /\ place' = place /\ place = "writing" /\ UNCHANGED <<object, payload, received>>
  BY <1>0 DEF AddNext
<1>3. /\ done \in Calls /\ toAdd \in Calls /\ Filled(done) /\ done \o toAdd = Serialize(object)
      /\ InValue = FlattenSeq(done)
  BY <1>1 DEF Progress
<1>4. b \in V /\ Tail(toAdd) \in Seq(V) /\ toAdd = <<b>> \o Tail(toAdd)
  <2> HIDE DEF V
  <2>1. toAdd \in Seq(V)
    BY <1>3 DEF Calls, V
  <2> QED
    BY <1>0, <1>2, <2>1, HeadTailProperties
<1>5. FlattenSeq(done) \in V
  BY <1>3, FlatType DEF Calls
<1>6. now \in Calls /\ Filled(now) /\ FlattenSeq(now) = FlattenSeq(done) \o b
  <2>1. now \in Calls /\ Filled(now)
    <3>1. b \in Seq(AnyByte)
      BY <1>4
    <3> QED
      BY <1>2, <1>3, <3>1, CallBehind
  <2>2. done \in Seq(V)
    BY <1>3 DEF Calls
  <2> QED
    BY <1>4, <2>1, <2>2, FlatAppend
<1>7. now \o Tail(toAdd) = Serialize(object)
  <2> HIDE DEF V
  <2> DEFINE r == Tail(toAdd)
             u == <<b>>
  <2>1. done \in Seq(V) /\ u \in Seq(V) /\ r \in Seq(V)
    BY <1>3, <1>4 DEF Calls, V
  <2>2. now = done \o u
    BY <1>4, <2>1, AppendIsConcat
  <2>3. toAdd = u \o r
    BY <1>4
  <2> HIDE DEF r, u, now
  <2>4. (done \o u) \o r = done \o (u \o r)
    BY <2>1, ConcatAssociative
  <2>5. now \o r = Serialize(object)
    BY <1>3, <2>2, <2>3, <2>4
  <2> QED
    BY <2>5 DEF r
<1>8. BufferIInv'
  <2>1. b \in Seq(AnyByte) \ {<<>>}
    BY <1>2, <1>4
  <2>2. BufferIInv
    BY DEF SerialInv
  <2> QED
    BY <1>2, <2>1, <2>2, BufferNext
<1>9. bytes' \in Seq(AnyByte \cup {Unset}) /\ InValue' = InValue \o b
  <2>1. BufferIInv /\ bytes \in Seq(AnyByte \cup {Unset}) /\ InValue \in Seq(AnyByte)
    BY <1>3, <1>5 DEF SerialInv
  <2> QED
    BY <1>2, <1>4, <2>1, AddsBehind
<1> HIDE DEF now
<1>10. Progress(now)'
  <2>1. toAdd' \in Calls /\ now \o toAdd' = Serialize(object) /\ object' = object
    BY <1>2, <1>4, <1>7 DEF Calls
  <2>2. InValue' = FlattenSeq(now)
    BY <1>3, <1>6, <1>9
  <2> QED
    BY <1>6, <2>1, <2>2 DEF Progress
<1> QED
  BY <1>2, <1>8, <1>9, <1>10 DEF SerialInv, RoundTrip

LEMMA AbortKeeps ==
  ASSUME SerialInv, AddNothing
  PROVE  SerialInv'
<1>1. PICK done : Progress(done)
  BY DEF SerialInv, AddNothing
<1>2. /\ toAdd # <<>> /\ Head(toAdd) = <<>> /\ place' = "aborted"
      /\ UNCHANGED <<bytes, size, capacity, object, payload, toAdd, received>>
  BY DEF AddNothing
<1>3. done \in Calls /\ toAdd \in Calls /\ done \o toAdd = Serialize(object)
  BY <1>1 DEF Progress
<1>4. ~Filled(toAdd)
  <2>1. Len(toAdd) \in Nat /\ Len(toAdd) # 0 /\ toAdd[1] = <<>>
    BY <1>2, <1>3 DEF Calls
  <2> QED
    BY <2>1 DEF Filled
<1>5. ~Filled(Serialize(object))
  <2>1. Filled(done \o toAdd) <=> Filled(done) /\ Filled(toAdd)
    BY <1>3, CallsConcat
  <2> QED
    BY <1>3, <1>4, <2>1
<1>6. ~Sendable(object)
  BY <1>5, ObjectRead DEF SerialInv, Storables
<1> QED
  BY <1>2, <1>6 DEF SerialInv, RoundTrip, BufferIInv, InBounds, TightGrowth

\* All calls are made: the buffer holds the object.
LEMMA AllWritten ==
  ASSUME SerialInv, Serialized
  PROVE  Sendable(object) /\ InValue = FlattenSeq(Serialize(object)) /\ InValue \in Seq(AnyByte)
<1>1. PICK done : Progress(done)
  BY DEF SerialInv, Serialized
<1>2. /\ done \in Calls /\ Filled(done) /\ done \o <<>> = Serialize(object)
      /\ InValue = FlattenSeq(done)
  BY <1>1 DEF Progress, Serialized
<1>3. done = Serialize(object)
  BY <1>2, ConcatEmptySeq DEF Calls
<1>4. Sendable(object)
  BY <1>2, <1>3, ObjectRead DEF SerialInv, Storables
<1>5. FlattenSeq(done) \in Seq(AnyByte)
  BY <1>2, FlatType DEF Calls
<1> QED
  BY <1>2, <1>3, <1>4, <1>5

LEMMA SendKeeps ==
  ASSUME SerialInv, Send
  PROVE  SerialInv'
<1>1. Sendable(object) /\ InValue = FlattenSeq(Serialize(object)) /\ InValue \in Seq(AnyByte)
  BY AllWritten DEF Send
<1>2. object.kind \in {"array", "frame"} /\ payload' = object /\ Renew /\ place' = "writing"
  BY DEF Send, Serialized
<1>3. object \in Storables
  BY <1>2, MessageRead DEF SerialInv
<1> DEFINE key == [k |-> <<"k">>, node |-> 1]
<1>4. key \in Keys
  <2>1. "k" \in Data
    BY DEF Data
  <2>2. <<"k">> \in Seq(Data) /\ <<"k">> # <<>>
    BY <2>1
  <2> QED
    BY <2>2 DEF Keys, Names
<1>5. PICK m \in {[kind |-> "PUT", key |-> key, v |-> InValue], [kind |-> "REPLY", v |-> InValue]} :
        object' = m /\ toAdd' = Serialize(m)
  BY DEF Send
<1> HIDE DEF key
<1>6. m \in Messages /\ m.v = InValue
  <2> DEFINE v == InValue
  <2>1. v \in Seq(AnyByte)
    BY <1>1
  <2> HIDE DEF v
  <2>2. m = [kind |-> "PUT", key |-> key, v |-> v] \/ m = [kind |-> "REPLY", v |-> v]
    BY <1>5 DEF v
  <2>3. m.v = v /\ (m \in [kind : {"PUT"}, key : Keys, v : Seq(AnyByte)] \/ m \in [kind : {"REPLY"}, v : Seq(AnyByte)])
    BY <1>4, <2>1, <2>2
  <2> QED
    BY <2>3 DEF Messages, v
<1>7. object' \in Storables \cup Messages /\ object'.v = FlattenSeq(Serialize(object))
  BY <1>1, <1>5, <1>6
<1>8. BufferIInv'
  BY <1>2, BufferNext DEF SerialInv
<1>9. bytes' \in Seq(AnyByte \cup {Unset}) /\ Progress(<<>>)'
  <2>1. New(bytes', size', capacity')
    BY <1>2 DEF Renew
  <2>2. toAdd' = Serialize(object')
    BY <1>5
  <2> QED
    BY <1>7, <2>1, <2>2, Begun DEF Progress, InValue
<1> QED
  BY <1>1, <1>2, <1>3, <1>7, <1>8, <1>9 DEF SerialInv, RoundTrip

LEMMA ReceiveKeeps ==
  ASSUME GarbageApart, SerialInv, Receive
  PROVE  SerialInv'
<1>1. Sendable(object) /\ InValue = FlattenSeq(Serialize(object))
  BY AllWritten DEF Receive
<1>2. /\ received' = Deserialize(object, InValue) /\ place' = "read"
      /\ UNCHANGED <<bytes, size, capacity, object, payload, toAdd>>
  BY DEF Receive
<1>3. Deserialize(object, FlattenSeq(Serialize(object))) = [val |-> object, rest |-> <<>>]
  BY <1>1, ObjectRead DEF SerialInv, Storables
<1>4. received' = [val |-> object', rest |-> <<>>]
  BY <1>1, <1>2, <1>3
<1> QED
  BY <1>2, <1>4 DEF SerialInv, RoundTrip, BufferIInv, InBounds, TightGrowth

LEMMA UnpackKeeps ==
  ASSUME GarbageApart, SerialInv, Unpack
  PROVE  SerialInv'
<1>1. /\ place = "read" /\ payload # Nothing /\ object' = payload /\ payload' = Nothing
      /\ received' = Deserialize(payload, received.val.v)
      /\ UNCHANGED <<bytes, size, capacity, toAdd, place>>
  BY DEF Unpack
<1>2. received = [val |-> object, rest |-> <<>>]
  BY <1>1 DEF SerialInv, RoundTrip
<1>3. payload \in Storables /\ Sendable(payload) /\ object.v = FlattenSeq(Serialize(payload))
  BY <1>1 DEF SerialInv
<1>4. Deserialize(payload, FlattenSeq(Serialize(payload))) = [val |-> payload, rest |-> <<>>]
  BY <1>3, ObjectRead DEF Storables
<1>5. received.val = object
  BY <1>2, ValRest
<1>6. received' = [val |-> object', rest |-> <<>>]
  BY <1>1, <1>3, <1>4, <1>5
<1> QED
  BY <1>1, <1>3, <1>6 DEF SerialInv, RoundTrip, BufferIInv, InBounds, TightGrowth

LEMMA SerialStep ==
  ASSUME GarbageApart, SerialInv, [SerialNext]_serial_vars
  PROVE  SerialInv'
<1>1. CASE UNCHANGED serial_vars
  BY <1>1 DEF serial_vars, SerialInv, RoundTrip, BufferIInv, InBounds, TightGrowth, Progress, InValue
<1> QED
  BY <1>1, AddKeeps, AbortKeeps, SendKeeps, ReceiveKeeps, UnpackKeeps DEF SerialNext

\* Whatever message, array or frame descriptor is serialized, the constructors
\* read from its bytes the same object and leave none over, directly or from
\* the Value of a Put or Reply that carries it; and add_buffer refuses only
\* what has an empty string or value (message.h, array.h, dataframe.h).
THEOREM RoundTripCorrect ==
  ASSUME GarbageApart, Objects \subseteq Arrays \cup Frames \cup Messages
  PROVE  SerialSpec => []RoundTrip
<1>1. SerialInit => SerialInv
  BY StartsWriting DEF Storables
<1>2. SerialInv /\ [SerialNext]_serial_vars => SerialInv'
  BY SerialStep
<1>3. SerialInv => RoundTrip
  BY DEF SerialInv
<1> QED
  BY <1>1, <1>2, <1>3, PTL DEF SerialSpec

\* Every step of Serial uses the Serializer in one of the ways BufferSpec
\* allows, so what the buffer never does it does not do there.
THEOREM SerialUsesBuffer ==
  ASSUME GarbageApart, Objects \subseteq Arrays \cup Frames \cup Messages
  PROVE  SerialSpec => BufferSpec
<1> DEFINE Use == Renew \/ \E b \in Seq(AnyByte) \ {<<>>} : Add(b)
<1>1. SerialInit => SInit
  BY DEF SerialInit
<1>2. ASSUME SerialInv, [SerialNext]_serial_vars
      PROVE  [Use]_svars
  <2>1. CASE AddNext
    <3>1. PICK done : Progress(done)
      BY <1>2, <2>1 DEF SerialInv, AddNext
    <3>2. toAdd \in Calls /\ toAdd # <<>> /\ Head(toAdd) # <<>> /\ Add(Head(toAdd))
      BY <2>1, <3>1 DEF AddNext, Progress
    <3>3. Head(toAdd) \in Seq(AnyByte)
      BY <3>2 DEF Calls
    <3> QED
      BY <3>2, <3>3
  <2>2. CASE Send
    BY <2>2 DEF Send
  <2>3. CASE AddNothing \/ Receive \/ Unpack \/ UNCHANGED serial_vars
    BY <2>3 DEF AddNothing, Receive, Unpack, serial_vars, svars
  <2> QED
    BY <1>2, <2>1, <2>2, <2>3 DEF SerialNext
<1>3. SerialInit => SerialInv
  BY StartsWriting DEF Storables
<1>4. SerialInv /\ [SerialNext]_serial_vars => SerialInv'
  BY SerialStep
<1> QED
  BY <1>1, <1>2, <1>3, <1>4, PTL DEF SerialSpec, BufferSpec
=============================================================================
