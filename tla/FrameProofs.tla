---------------------------- MODULE FrameProofs ----------------------------
(***************************************************************************)
(* Theorems about Frame.tla, for any number of nodes, columns of any types,*)
(* segments of any capacity and frames of any number of rows: each string  *)
(* has one owner, every Reader gets the rows that the Writer made, and a   *)
(* node's local_map reads its own segments.                                *)
(***************************************************************************)
EXTENDS Frame, FiniteSetTheorems, WellFoundedInduction, TLAPS

Values   == Nat \X Nat
Field(j) == IF IsString(j) THEN Heap ELSE Values
Fields   == Heap \cup Values \cup {Null}
Heaps    == UNION {[D -> Values] : D \in SUBSET Heap}

\* What a field x of column j stands for.
Read(h, j, x) == IF IsString(j) THEN h[x] ELSE x

RowOK(r)   == r \in [Columns -> Fields] /\ \A j \in Columns : r[j] \in Field(j) \cup {Null}
ArrayOK(c) == /\ c \in [Columns -> Seq(Fields)]
              /\ \A j \in Columns : Len(c[j]) <= Capacity
              /\ \A j \in Columns : \A i \in DOMAIN c[j] : c[j][i] \in Field(j)

\* The strings of one node: those at the places of its Row r and its arrays c are
\* those in its heap h, each at one place.
At(r, c, o) == IF o[2] = 0 THEN r[o[1]] ELSE c[o[1]][o[2]]
Owns(r, c, h) ==
  /\ RowOK(r) /\ ArrayOK(c) /\ h \in Heaps
  /\ \A o \in Holders(r, c) : At(r, c, o) \in DOMAIN h
  /\ \A a \in DOMAIN h : \E o \in Holders(r, c) : At(r, c, o) = a
  /\ \A o, p \in Holders(r, c) : At(r, c, o) = At(r, c, p) => o = p

RangeInv ==
  /\ place \in [Nodes -> {"visit", "add", "wait", "frame", "map", "mapped", "aborted", "dropped"}]
  /\ heap \in [Nodes -> Heaps] /\ row \in [Nodes -> [Columns -> Fields]]
  /\ cache \in [Nodes -> [Columns -> Seq(Fields)]]
  /\ cached \in [Nodes -> [Columns -> Nat \cup {Null}]]
  /\ col \in [Nodes -> 1 .. Len(Types) + 1]
  /\ segments \in [Columns -> Seq(Seq(Values))]
  /\ mode \in [Nodes -> {Null, "local", "all"}]
  /\ todo \in [Nodes -> SUBSET Nat]
  /\ written \in Seq([Columns -> Values])
  /\ visited \in [Nodes -> Seq(Nat \X [Columns -> Values])]

\* Where the nodes can be: node 0 alone writes, the others go on when it is done;
\* a Row has strings only while rows are written or read.
PlaceInv(n) ==
  /\ place[n] \in {"visit", "add"} => n = 0
  /\ place[n] = "wait" => n # 0
  /\ place[n] \notin {"visit", "add", "wait"} => Published
  /\ place[n] \in {"visit", "add", "wait", "frame"} =>
       visited[n] = <<>> /\ mode[n] = Null /\ \A j \in Columns : cached[n][j] = Null
  /\ place[n] \in {"map", "mapped", "aborted"} => mode[n] # Null
  /\ place[n] \in {"wait", "frame", "mapped", "dropped"} => row[n] = Each(Null)
  /\ place[n] = "mapped" => todo[n] = {}
  /\ place[n] = "aborted" => mode[n] = "local" /\ written = <<>>

\* The rows that column j of the frame has got.
Count(j) == IF place[0] = "add" /\ j >= col[0] THEN Len(written) - 1 ELSE Len(written)

\* Segment s has the s-th stretch of its column; all but the last are full.
SegmentInv(j) ==
  \A s \in DOMAIN segments[j] :
    /\ Len(segments[j][s]) <= Capacity
    /\ s < Len(segments[j]) \/ ~Published => Len(segments[j][s]) = Capacity
    /\ \A k \in DOMAIN segments[j][s] : segments[j][s][k] = written[(s - 1) * Capacity + k][j]

\* While the frame is written, what is not in a segment is in the array.
ColumnInv(j) ==
  LET array == cache[0][j] full == Len(segments[j]) * Capacity IN
  ~Published =>
    /\ Count(j) = full + Len(array)
    /\ array = <<>> => segments[j] = <<>>
    /\ \A k \in DOMAIN array : Read(heap[0], j, array[k]) = written[full + k][j]

\* What the Writer set is there, until every column has it.
WriterInv ==
  /\ place[0] = "visit" => \A j \in Columns : j < col[0] => row[0][j] # Null
  /\ place[0] = "add" => /\ written # <<>>
                         /\ \A j \in Columns :
                              /\ row[0][j] # Null
                              /\ Read(heap[0], j, row[0][j]) = written[Len(written)][j]

\* A frame in the store has all rows in each column.
Complete(j, count) ==
  LET last == Len(segments[j]) - 1 IN
  /\ segments[j] # <<>>
  /\ count = last * Capacity + Len(segments[j][last + 1])
  /\ segments[j][last + 1] = <<>> => last = 0
FrameInv == Published => \A j \in Columns : Complete(j, Len(written))

\* An array that was read is the segment its number says; the Row has the fields of
\* the row in turn in the columns that are done.
ReaderInv(n) ==
  place[n] = "map" =>
    /\ \A j \in Columns : cached[n][j] # Null =>
         /\ cached[n][j] + 1 \in DOMAIN segments[j]
         /\ Contents(heap[n], j, cache[n][j]) = segments[j][cached[n][j] + 1]
    /\ col[n] > 1 => /\ todo[n] # {} /\ Current(n) < Len(written)
                     /\ \A j \in Columns : j < col[n] =>
                          /\ row[n][j] # Null
                          /\ Read(heap[n], j, row[n][j]) = written[Current(n) + 1][j]

\* What was visited and what is left.
VisitInv(n) ==
  /\ \A k \in DOMAIN visited[n] :
       /\ visited[n][k][1] < Len(written)
       /\ visited[n][k][2] = written[visited[n][k][1] + 1]
  /\ mode[n] = "all" => /\ \A k \in DOMAIN visited[n] : visited[n][k][1] = k - 1
                        /\ todo[n] = Len(visited[n]) .. Len(written) - 1
                        /\ Len(visited[n]) <= Len(written)
  /\ mode[n] = "local" =>
       /\ LocalIndices(n) = todo[n] \cup {visited[n][k][1] : k \in DOMAIN visited[n]}
       /\ \A k \in DOMAIN visited[n] : visited[n][k][1] \notin todo[n]
       /\ \A k, l \in DOMAIN visited[n] : visited[n][k][1] = visited[n][l][1] => k = l
       /\ \A j \in Columns : cached[n][j] # Null => Home(j, cached[n][j]) = n

IInv == /\ RangeInv /\ WriterInv /\ FrameInv
        /\ \A j \in Columns : SegmentInv(j) /\ ColumnInv(j)
        /\ \A n \in Nodes : /\ Owns(row[n], cache[n], heap[n])
                            /\ PlaceInv(n) /\ ReaderInv(n) /\ VisitInv(n)
-----------------------------------------------------------------------------
(***************************************************************************)
(* Strings                                                                 *)
(***************************************************************************)
LEMMA Constants ==
  /\ Len(Types) \in Nat \ {0} /\ Columns = 1 .. Len(Types) /\ Columns \subseteq Nat
  /\ 1 \in Columns /\ 0 \in Nodes /\ Nodes \subseteq Nat
  /\ N \in Nat \ {0} /\ Capacity \in Nat \ {0} /\ Null \notin Heap /\ Null \notin Nat
  /\ Null \notin Values /\ Null \notin {"local", "all"}
BY FrameAssumption DEF Columns, Nodes, Values

LEMMA CapacityFact == Capacity \in Nat \ {0}
BY Constants

LEMMA PlacesFinite ==
  /\ IsFiniteSet(StringPlaces) /\ Cardinality(StringPlaces) \in Nat
  /\ IsFiniteSet(Heap) /\ Cardinality(Heap) \in Nat
  /\ Cardinality(StringPlaces) < Cardinality(Heap)
<1> DEFINE S == {j \in Columns : IsString(j)}
<1>1. IsFiniteSet(Columns) /\ S \in SUBSET Columns
  BY Constants, FS_Interval
<1>2. IsFiniteSet(S)
  BY <1>1, FS_Subset
<1>3. IsFiniteSet(0 .. Capacity)
  BY Constants, FS_Interval
<1>4. IsFiniteSet(StringPlaces)
  BY <1>2, <1>3, FS_Product DEF StringPlaces
<1> QED
  BY <1>4, FS_CardinalityType, FrameAssumption

\* Addresses for m objects; h2 is h and, at the addresses at, new objects for s.
HasRoom(h, m) == \E f \in [1 .. m -> Heap \ DOMAIN h] : IsInjective(f)
Extends(h, s, at, h2) ==
  /\ at \in Seq(Heap) /\ Len(at) = Len(s) /\ IsInjective(at)
  /\ Range(at) \cap DOMAIN h = {}
  /\ h2 \in Heaps /\ DOMAIN h2 = DOMAIN h \cup Range(at)
  /\ \A a \in DOMAIN h : h2[a] = h[a]
  /\ \A k \in DOMAIN s : h2[at[k]] = s[k]

\* As many new objects as there is room for get different addresses.
LEMMA Room ==
  ASSUME NEW h, IsFiniteSet(DOMAIN h), DOMAIN h \subseteq Heap, NEW m \in Nat,
         Cardinality(DOMAIN h) + m <= Cardinality(Heap)
  PROVE  HasRoom(h, m)
<1> DEFINE D == DOMAIN h  F == Heap \ D
<1>1. Heap \cap D = D
  OBVIOUS
<1>2. /\ IsFiniteSet(F) /\ Cardinality(F) = Cardinality(Heap) - Cardinality(D)
      /\ Cardinality(D) \in Nat
  BY <1>1, PlacesFinite, FS_Difference, FS_CardinalityType
<1>3. PICK q \in Nat : q = Cardinality(F) /\ m <= q
  BY <1>2, PlacesFinite
<1>4. ExistsBijection(1 .. q, F)
  BY <1>2, <1>3, FS_CardinalityType
<1>5. PICK g \in Injection(1 .. q, F) : TRUE
  BY <1>4 DEF ExistsBijection, Bijection
<1> HIDE DEF F
<1>6. g \in [1 .. q -> F] /\ \A i, k \in 1 .. q : g[i] = g[k] => i = k
  BY <1>5 DEF Injection, IsInjective
<1>7. 1 .. m \subseteq 1 .. q
  BY <1>3
<1> DEFINE f == [i \in 1 .. m |-> g[i]]
<1>8. f \in [1 .. m -> F]
  BY <1>6, <1>7
<1>9. IsInjective(f)
  BY <1>6, <1>7 DEF IsInjective
<1> QED
  BY <1>8, <1>9 DEF F, HasRoom

LEMMA NewFacts ==
  ASSUME NEW h \in Heaps, NEW s \in Seq(Values), HasRoom(h, Len(s))
  PROVE  Extends(h, s, Addresses(h, s), New(h, s))
<1> DEFINE at == Addresses(h, s)
<1>1. DOMAIN s = 1 .. Len(s) /\ Len(s) \in Nat
  OBVIOUS
<1>2. at \in Injection(DOMAIN s, Heap \ DOMAIN h)
  BY <1>1 DEF Addresses, Injection, HasRoom
<1> HIDE DEF at
<1>3. at \in [1 .. Len(s) -> Heap \ DOMAIN h] /\ IsInjective(at)
  BY <1>1, <1>2 DEF Injection
<1>4. at \in Seq(Heap) /\ Len(at) = Len(s)
  BY <1>1, <1>3
<1>5. New(h, s) = [a \in DOMAIN h \cup Range(at) |->
        IF a \in DOMAIN h THEN h[a] ELSE s[CHOOSE k \in DOMAIN s : at[k] = a]]
  BY DEF New, at
<1>6. ASSUME NEW k \in DOMAIN s
      PROVE  at[k] \in Range(at) /\ at[k] \notin DOMAIN h /\ (CHOOSE i \in DOMAIN s : at[i] = at[k]) = k
  BY <1>1, <1>3 DEF Range, IsInjective
<1>7. h \in [DOMAIN h -> Values] /\ DOMAIN h \subseteq Heap
  BY DEF Heaps
<1>8. Range(at) \subseteq Heap
  BY <1>3 DEF Range
<1>9. ASSUME NEW a \in DOMAIN h \cup Range(at) PROVE New(h, s)[a] \in Values
  <2>1. CASE a \in DOMAIN h
    BY <1>5, <1>7, <2>1
  <2>2. CASE a \notin DOMAIN h
    <3>1. PICK k \in DOMAIN s : a = at[k]
      BY <1>1, <1>3, <2>2 DEF Range
    <3> QED
      BY <1>1, <1>5, <1>6, <2>2, <3>1
  <2> QED
    BY <2>1, <2>2
<1>10. DOMAIN New(h, s) = DOMAIN h \cup Range(at)
  BY <1>5
<1>11. New(h, s) \in [DOMAIN h \cup Range(at) -> Values]
  BY <1>5, <1>9
<1>12. New(h, s) \in Heaps
  BY <1>7, <1>8, <1>11 DEF Heaps
<1>13. \A a \in DOMAIN h : New(h, s)[a] = h[a]
  BY <1>5
<1>14. ASSUME NEW k \in DOMAIN s PROVE New(h, s)[at[k]] = s[k]
  <2>1. PICK a : a = at[k]
    OBVIOUS
  <2>2. a \in DOMAIN h \cup Range(at) /\ a \notin DOMAIN h
    BY <1>6, <2>1
  <2>3. New(h, s)[a] = s[CHOOSE i \in DOMAIN s : at[i] = a]
    BY <1>5, <2>2
  <2>4. (CHOOSE i \in DOMAIN s : at[i] = a) = k
    BY <1>1, <1>3, <2>1 DEF IsInjective
  <2> QED
    BY <2>1, <2>3, <2>4
<1>15. Range(at) \cap DOMAIN h = {}
  BY <1>3 DEF Range
<1> QED
  BY <1>3, <1>4, <1>10, <1>12, <1>13, <1>14, <1>15 DEF Extends, at

\* h2 is h without the objects in D.
Shrinks(h, D, h2) ==
  /\ h2 \in Heaps /\ DOMAIN h2 = DOMAIN h \ D
  /\ \A a \in DOMAIN h \ D : h2[a] = h[a]

LEMMA DeleteFacts ==
  ASSUME NEW h \in Heaps, NEW D
  PROVE  Shrinks(h, D, Delete(h, D))
<1>1. h \in [DOMAIN h -> Values] /\ DOMAIN h \subseteq Heap
  BY DEF Heaps
<1>2. Delete(h, D) = [a \in DOMAIN h \ D |-> h[a]]
  BY DEF Delete, Restrict
<1>3. Delete(h, D) \in [DOMAIN h \ D -> Values] /\ DOMAIN h \ D \in SUBSET Heap
  BY <1>1, <1>2
<1> QED
  BY <1>2, <1>3 DEF Heaps, Shrinks

\* There are no more strings than places that are taken.
LEMMA OwnedCount ==
  ASSUME NEW r, NEW c, NEW h, Owns(r, c, h)
  PROVE  /\ IsFiniteSet(DOMAIN h) /\ DOMAIN h \subseteq Heap
         /\ IsFiniteSet(Holders(r, c)) /\ Holders(r, c) \subseteq StringPlaces
         /\ Cardinality(DOMAIN h) \in Nat /\ Cardinality(Holders(r, c)) \in Nat
         /\ Cardinality(DOMAIN h) <= Cardinality(Holders(r, c))
<1> DEFINE H == Holders(r, c)  f == [o \in H |-> At(r, c, o)]
<1>1. H \subseteq StringPlaces
  BY DEF Holders
<1>2. IsFiniteSet(H)
  BY <1>1, PlacesFinite, FS_Subset
<1>3. \A o \in H : At(r, c, o) \in DOMAIN h
  BY DEF Owns
<1>4. \A a \in DOMAIN h : \E o \in H : At(r, c, o) = a
  BY DEF Owns
<1> HIDE DEF H
<1>5. f \in Surjection(H, DOMAIN h)
  BY <1>3, <1>4 DEF Surjection
<1>6. IsFiniteSet(DOMAIN h) /\ Cardinality(DOMAIN h) <= Cardinality(H)
  BY <1>2, <1>5, FS_Surjection
<1>7. DOMAIN h \subseteq Heap
  BY DEF Owns, Heaps
<1> QED
  BY <1>1, <1>2, <1>6, <1>7, FS_CardinalityType DEF H

\* The places Gone are emptied, then the places Came are filled with fresh strings.
KeptStrings(r, c, h, Gone) ==
  {a \in DOMAIN h : \A o \in Holders(r, c) : o \in Gone => At(r, c, o) # a}
Moves(r, c, h, r2, c2, h2, Gone, Came) ==
  /\ RowOK(r2) /\ ArrayOK(c2) /\ h2 \in Heaps
  /\ \A o : o \in Holders(r2, c2) <=> (o \in Holders(r, c) /\ o \notin Gone) \/ o \in Came
  /\ \A o \in Holders(r, c) : o \notin Gone => o \notin Came /\ At(r2, c2, o) = At(r, c, o)
  /\ \A o \in Came : At(r2, c2, o) \notin KeptStrings(r, c, h, Gone)
  /\ \A o, p \in Came : At(r2, c2, o) = At(r2, c2, p) => o = p
  /\ \A a : a \in DOMAIN h2 <=>
              a \in KeptStrings(r, c, h, Gone) \/ \E o \in Came : At(r2, c2, o) = a

LEMMA Moved ==
  ASSUME NEW r, NEW c, NEW h, Owns(r, c, h), NEW r2, NEW c2, NEW h2, NEW Gone, NEW Came,
         Moves(r, c, h, r2, c2, h2, Gone, Came)
  PROVE  Owns(r2, c2, h2)
<1> DEFINE H == Holders(r, c)  H2 == Holders(r2, c2)
<1>1. /\ \A o \in H : At(r, c, o) \in DOMAIN h
      /\ \A a \in DOMAIN h : \E o \in H : At(r, c, o) = a
      /\ \A o, p \in H : At(r, c, o) = At(r, c, p) => o = p
  BY DEF Owns
<1> DEFINE Kept == H \ Gone  K == KeptStrings(r, c, h, Gone)
<1>2. /\ \A o : o \in H2 <=> o \in Kept \/ o \in Came
      /\ \A o \in Kept : o \notin Came /\ At(r2, c2, o) = At(r, c, o)
      /\ \A o \in Came : At(r2, c2, o) \notin K
      /\ \A o, p \in Came : At(r2, c2, o) = At(r2, c2, p) => o = p
      /\ \A a : a \in DOMAIN h2 <=> a \in K \/ \E o \in Came : At(r2, c2, o) = a
      /\ RowOK(r2) /\ ArrayOK(c2) /\ h2 \in Heaps
  BY DEF Moves
<1>3. \A o \in Kept : At(r2, c2, o) \in K
  BY <1>1, <1>2 DEF KeptStrings
<1>7. \A a \in K : \E o \in Kept : At(r, c, o) = a
  BY <1>1 DEF KeptStrings
<1> HIDE DEF H, H2, Kept, K
<1>4. \A o \in H2 : At(r2, c2, o) \in DOMAIN h2
  BY <1>2, <1>3
<1>5. \A a \in DOMAIN h2 : \E o \in H2 : At(r2, c2, o) = a
  BY <1>2, <1>7
<1>6. ASSUME NEW o \in H2, NEW p \in H2, At(r2, c2, o) = At(r2, c2, p) PROVE o = p
  <2>1. CASE o \in Kept /\ p \in Kept
    BY <1>1, <1>2, <1>6, <2>1 DEF Kept
  <2>2. CASE o \in Came /\ p \in Came
    BY <1>2, <1>6, <2>2
  <2>3. CASE (o \in Kept /\ p \in Came) \/ (o \in Came /\ p \in Kept)
    BY <1>2, <1>3, <1>6, <2>3
  <2> QED
    BY <1>2, <2>1, <2>2, <2>3
<1> QED
  BY <1>2, <1>4, <1>5, <1>6 DEF Owns, H2

\* What is at the places, spelled out.
LEMMA PlaceFacts ==
  ASSUME NEW r, NEW c, ArrayOK(c)
  PROVE  /\ \A j \in Columns : IsString(j) /\ r[j] # Null =>
              <<j, 0>> \in Holders(r, c) /\ At(r, c, <<j, 0>>) = r[j]
         /\ \A j \in Columns : \A i \in DOMAIN c[j] : IsString(j) =>
              i # 0 /\ <<j, i>> \in Holders(r, c) /\ At(r, c, <<j, i>>) = c[j][i]
         /\ \A o \in Holders(r, c) : \E j \in Columns : IsString(j) /\
              \/ o = <<j, 0>> /\ r[j] # Null /\ At(r, c, o) = r[j]
              \/ \E i \in DOMAIN c[j] : o = <<j, i>> /\ i # 0 /\ At(r, c, o) = c[j][i]
<1>1. ASSUME NEW j \in Columns, NEW i \in DOMAIN c[j] PROVE i \in 1 .. Capacity
  <2>1. DOMAIN c[j] = 1 .. Len(c[j]) /\ Len(c[j]) \in Nat /\ Len(c[j]) <= Capacity
    BY DEF ArrayOK
  <2> QED
    BY <2>1, Constants
<1>2. 0 \in 0 .. Capacity /\ 1 .. Capacity \subseteq 0 .. Capacity /\ 0 \notin 1 .. Capacity
  BY Constants
<1>3. ASSUME NEW j \in Columns, NEW i, IsString(j)
      PROVE  <<j, i>> \in Holders(r, c) <=>
               i \in 0 .. Capacity /\ IF i = 0 THEN r[j] # Null ELSE i \in DOMAIN c[j]
  BY <1>3 DEF Holders, StringPlaces
<1>4. \A j, i : At(r, c, <<j, i>>) = IF i = 0 THEN r[j] ELSE c[j][i]
  BY DEF At
<1>5. ASSUME NEW o \in Holders(r, c)
      PROVE  \E j \in Columns : IsString(j) /\ \E i \in 0 .. Capacity : o = <<j, i>>
  BY DEF Holders, StringPlaces
<1>6. ASSUME NEW o \in Holders(r, c)
      PROVE  \E j \in Columns : IsString(j) /\
               \/ o = <<j, 0>> /\ r[j] # Null /\ At(r, c, o) = r[j]
               \/ \E i \in DOMAIN c[j] : o = <<j, i>> /\ i # 0 /\ At(r, c, o) = c[j][i]
  <2>1. PICK j \in Columns, i \in 0 .. Capacity : IsString(j) /\ o = <<j, i>>
    BY <1>5
  <2> QED
    BY <1>3, <1>4, <2>1
<1>7. \A j \in Columns : IsString(j) /\ r[j] # Null =>
        <<j, 0>> \in Holders(r, c) /\ At(r, c, <<j, 0>>) = r[j]
  BY <1>2, <1>3, <1>4
<1>8. \A j \in Columns : \A i \in DOMAIN c[j] : IsString(j) =>
        i # 0 /\ <<j, i>> \in Holders(r, c) /\ At(r, c, <<j, i>>) = c[j][i]
  BY <1>1, <1>2, <1>3, <1>4
<1> QED
  BY <1>6, <1>7, <1>8

\* Strings in fields and in arrays are different ones, and live.
LEMMA OwnedFacts ==
  ASSUME NEW r, NEW c, NEW h, Owns(r, c, h)
  PROVE  /\ \A j \in Columns : IsString(j) /\ r[j] # Null => r[j] \in DOMAIN h
         /\ \A j \in Columns : \A i \in DOMAIN c[j] : IsString(j) => c[j][i] \in DOMAIN h
         /\ \A j, k \in Columns : IsString(j) /\ IsString(k) =>
              /\ r[j] # Null /\ r[j] = r[k] => j = k
              /\ \A i \in DOMAIN c[j] : r[k] # Null => c[j][i] # r[k]
              /\ \A i \in DOMAIN c[j] : \A l \in DOMAIN c[k] : c[j][i] = c[k][l] => j = k /\ i = l
<1>1. /\ ArrayOK(c)
      /\ \A o \in Holders(r, c) : At(r, c, o) \in DOMAIN h
      /\ \A o, p \in Holders(r, c) : At(r, c, o) = At(r, c, p) => o = p
  BY DEF Owns
<1>2. /\ \A j \in Columns : IsString(j) /\ r[j] # Null =>
              <<j, 0>> \in Holders(r, c) /\ At(r, c, <<j, 0>>) = r[j]
      /\ \A j \in Columns : \A i \in DOMAIN c[j] : IsString(j) =>
              i # 0 /\ <<j, i>> \in Holders(r, c) /\ At(r, c, <<j, i>>) = c[j][i]
  BY <1>1, PlaceFacts
<1>3. ASSUME NEW j \in Columns, IsString(j), r[j] # Null PROVE r[j] \in DOMAIN h
  <2>1. PICK o \in Holders(r, c) : At(r, c, o) = r[j]
    BY <1>2, <1>3
  <2> QED
    BY <1>1, <2>1
<1>4. ASSUME NEW j \in Columns, NEW i \in DOMAIN c[j], IsString(j) PROVE c[j][i] \in DOMAIN h
  <2>1. PICK o \in Holders(r, c) : At(r, c, o) = c[j][i]
    BY <1>2, <1>4
  <2> QED
    BY <1>1, <2>1
<1>5. ASSUME NEW j \in Columns, NEW k \in Columns, IsString(j), IsString(k)
      PROVE  /\ r[j] # Null /\ r[j] = r[k] => j = k
             /\ \A i \in DOMAIN c[j] : r[k] # Null => c[j][i] # r[k]
             /\ \A i \in DOMAIN c[j] : \A l \in DOMAIN c[k] : c[j][i] = c[k][l] => j = k /\ i = l
  <2>1. ASSUME r[j] # Null, r[j] = r[k] PROVE j = k
    <3>1. PICK o, p \in Holders(r, c) :
            o = <<j, 0>> /\ At(r, c, o) = r[j] /\ p = <<k, 0>> /\ At(r, c, p) = r[k]
      BY <1>2, <1>5, <2>1
    <3> QED
      BY <1>1, <2>1, <3>1
  <2>2. ASSUME NEW i \in DOMAIN c[j], r[k] # Null, c[j][i] = r[k] PROVE FALSE
    <3>1. PICK o, p \in Holders(r, c) : /\ o = <<j, i>> /\ i # 0 /\ At(r, c, o) = c[j][i]
                                       /\ p = <<k, 0>> /\ At(r, c, p) = r[k]
      BY <1>2, <1>5, <2>2
    <3> QED
      BY <1>1, <2>2, <3>1
  <2>3. ASSUME NEW i \in DOMAIN c[j], NEW l \in DOMAIN c[k], c[j][i] = c[k][l]
        PROVE  j = k /\ i = l
    <3>1. PICK o, p \in Holders(r, c) : /\ o = <<j, i>> /\ At(r, c, o) = c[j][i]
                                       /\ p = <<k, l>> /\ At(r, c, p) = c[k][l]
      BY <1>2, <1>5
    <3> QED
      BY <1>1, <2>3, <3>1
  <2> QED
    BY <2>1, <2>2, <2>3
<1> QED
  BY <1>3, <1>4, <1>5

\* The strings of a heap that stay what they are, seen from their fields.
SameField(r, h, h2, j) == r[j] # Null => Read(h2, j, r[j]) = Read(h, j, r[j])
SameArray(c, h, h2, j) == \A i \in DOMAIN c[j] : Read(h2, j, c[j][i]) = Read(h, j, c[j][i])

\* There is always room for one copy: h2 is h with v at the address a.
Adds(h, v, a, h2) ==
  /\ a \in Heap /\ a \notin DOMAIN h
  /\ h2 \in Heaps /\ DOMAIN h2 = DOMAIN h \cup {a}
  /\ h2[a] = v /\ \A b \in DOMAIN h : h2[b] = h[b]

LEMMA Copied ==
  ASSUME NEW r, NEW c, NEW h, Owns(r, c, h), NEW v \in Values
  PROVE  Adds(h, v, Addresses(h, <<v>>)[1], New(h, <<v>>))
<1>1. /\ IsFiniteSet(DOMAIN h) /\ DOMAIN h \subseteq Heap /\ Cardinality(DOMAIN h) \in Nat
      /\ Cardinality(Holders(r, c)) \in Nat
      /\ Cardinality(DOMAIN h) <= Cardinality(Holders(r, c))
      /\ Holders(r, c) \in SUBSET StringPlaces
  BY OwnedCount
<1>2. Cardinality(Holders(r, c)) <= Cardinality(StringPlaces)
  BY <1>1, PlacesFinite, FS_Subset
<1>3. Cardinality(DOMAIN h) + 1 <= Cardinality(Heap)
  BY <1>1, <1>2, PlacesFinite
<1>4. HasRoom(h, 1)
  BY <1>1, <1>3, Room
<1>5. PICK s : s = <<v>>
  OBVIOUS
<1>6. h \in Heaps /\ s \in Seq(Values) /\ Len(s) = 1 /\ DOMAIN s = {1} /\ s[1] = v
  BY <1>5 DEF Owns
<1>7. PICK at, h2 : at = Addresses(h, s) /\ h2 = New(h, s)
  OBVIOUS
<1>8. Extends(h, s, at, h2)
  BY <1>4, <1>6, <1>7, NewFacts
<1>9. Len(at) = 1 /\ at \in Seq(Heap)
  BY <1>6, <1>8 DEF Extends
<1>10. Range(at) = {at[1]} /\ at[1] \in Heap
  BY <1>9 DEF Range
<1>11. Adds(h, v, at[1], h2)
  BY <1>6, <1>8, <1>9, <1>10 DEF Extends, Adds
<1> QED
  BY <1>5, <1>7, <1>11

LEMMA FieldSet ==
  ASSUME NEW r, NEW c, NEW h, Owns(r, c, h), NEW j \in Columns, NEW v \in Values,
         NEW r2, r2 = SetField(h, r, j, v).row, NEW h2, h2 = SetField(h, r, j, v).heap
  PROVE  /\ Owns(r2, c, h2) /\ r2[j] # Null /\ Read(h2, j, r2[j]) = v
         /\ \A k \in Columns \ {j} : r2[k] = r[k] /\ SameField(r, h, h2, k)
         /\ \A k \in Columns : SameArray(c, h, h2, k)
<1>1. RowOK(r) /\ ArrayOK(c) /\ h \in Heaps /\ r \in [Columns -> Fields]
  BY DEF Owns, RowOK
<1>2. CASE ~IsString(j)
  <2>1. r2 = [r EXCEPT ![j] = v] /\ h2 = Delete(h, {})
    BY <1>2 DEF SetField, Stored
  <2>2. Shrinks(h, {}, h2)
    BY <1>1, <2>1, DeleteFacts
  <2>3. h2 \in Heaps /\ DOMAIN h2 = DOMAIN h /\ \A a \in DOMAIN h : h2[a] = h[a]
    BY <2>2 DEF Shrinks
  <2>4. r2[j] = v /\ \A k \in Columns \ {j} : r2[k] = r[k]
    BY <1>1, <2>1
  <2>5. RowOK(r2)
    BY <1>1, <1>2, <2>1, <2>4 DEF RowOK, Field, Fields
  <2>6. Holders(r2, c) = Holders(r, c) /\ \A o \in Holders(r, c) : At(r2, c, o) = At(r, c, o)
    BY <1>2, <2>4 DEF Holders, StringPlaces, At
  <2>7. Owns(r2, c, h2)
    BY <1>1, <2>3, <2>5, <2>6 DEF Owns
  <2>8. r2[j] # Null /\ Read(h2, j, r2[j]) = v
    BY <1>2, <2>4, Constants DEF Read
  <2>9. \A k \in Columns : SameField(r, h, h2, k) /\ SameArray(c, h, h2, k)
    BY <2>3, OwnedFacts DEF SameField, SameArray, Read
  <2> QED
    BY <2>4, <2>7, <2>8, <2>9
<1>3. CASE IsString(j)
  <2>1. PICK a, g, old : /\ a = Addresses(h, <<v>>)[1] /\ g = New(h, <<v>>)
                         /\ old = IF r[j] # Null THEN {r[j]} ELSE {}
    OBVIOUS
  <2>2. r2 = [r EXCEPT ![j] = a] /\ h2 = Delete(g, old)
    BY <1>3, <2>1 DEF SetField, Stored
  <2>3. /\ a \in Heap /\ a \notin DOMAIN h
        /\ g \in Heaps /\ DOMAIN g = DOMAIN h \cup {a}
        /\ g[a] = v /\ \A b \in DOMAIN h : g[b] = h[b]
    <3>1. Adds(h, v, a, g)
      BY <2>1, Copied
    <3> QED
      BY <3>1 DEF Adds
  <2>4. /\ h2 \in Heaps /\ DOMAIN h2 = DOMAIN g \ old /\ \A b \in DOMAIN g \ old : h2[b] = g[b]
    <3>1. Shrinks(g, old, h2)
      BY <2>2, <2>3, DeleteFacts
    <3> QED
      BY <3>1 DEF Shrinks
  <2>5. r2[j] = a /\ \A k \in Columns \ {j} : r2[k] = r[k]
    BY <1>1, <2>2
  <2>6. RowOK(r2)
    BY <1>1, <1>3, <2>2, <2>3, <2>5 DEF RowOK, Field, Fields
  <2>7. old \subseteq DOMAIN h /\ a \notin old
    BY <1>3, <2>1, <2>3, OwnedFacts
  <2>8. Owns(r2, c, h2)
    <3> DEFINE K == KeptStrings(r, c, h, {<<j, 0>>})
    <3>1. /\ <<j, 0>> \in Holders(r2, c) /\ At(r2, c, <<j, 0>>) = a
      BY <1>3, <1>1, <2>3, <2>5, PlaceFacts, Constants
    <3>2. ASSUME NEW o \in StringPlaces, o # <<j, 0>>
          PROVE  At(r2, c, o) = At(r, c, o) /\ (o \in Holders(r2, c) <=> o \in Holders(r, c))
      <4>1. PICK k \in Columns, i \in 0 .. Capacity : o = <<k, i>>
        BY DEF StringPlaces
      <4>2. i = 0 => k # j
        BY <3>2, <4>1
      <4> QED
        BY <2>5, <4>1, <4>2 DEF At, Holders
    <3>3. Holders(r, c) \subseteq StringPlaces /\ Holders(r2, c) \subseteq StringPlaces
      BY DEF Holders
    <3>4. /\ \A o : o \in Holders(r2, c) <=>
                      (o \in Holders(r, c) /\ o \notin {<<j, 0>>}) \/ o \in {<<j, 0>>}
          /\ \A o \in Holders(r, c) : o \notin {<<j, 0>>} => At(r2, c, o) = At(r, c, o)
      BY <3>1, <3>2, <3>3
    <3>5. K = DOMAIN h \ old
      <4>1. <<j, 0>> \in Holders(r, c) <=> r[j] # Null
        BY <1>1, <1>3, PlaceFacts DEF Holders
      <4>2. At(r, c, <<j, 0>>) = r[j]
        BY DEF At
      <4> QED
        BY <2>1, <4>1, <4>2 DEF KeptStrings
    <3>6. \A b : b \in DOMAIN h2 <=> b \in K \/ \E o \in {<<j, 0>>} : At(r2, c, o) = b
      BY <2>3, <2>4, <2>7, <3>1, <3>5
    <3>7. \A o \in {<<j, 0>>} : At(r2, c, o) \notin K
      BY <2>3, <3>1, <3>5
    <3>8. Moves(r, c, h, r2, c, h2, {<<j, 0>>}, {<<j, 0>>})
      BY <1>1, <2>4, <2>6, <3>4, <3>6, <3>7 DEF Moves
    <3> QED
      BY <3>8, Moved
  <2>9. r2[j] # Null /\ Read(h2, j, r2[j]) = v
    BY <1>3, <2>3, <2>4, <2>5, <2>7, Constants DEF Read
  <2>10. \A b \in DOMAIN h \ old : h2[b] = h[b]
    BY <2>3, <2>4
  <2>11. \A k \in Columns \ {j} : SameField(r, h, h2, k)
    BY <1>3, <2>1, <2>10, OwnedFacts DEF SameField, Read
  <2>12. \A k \in Columns : SameArray(c, h, h2, k)
    BY <1>3, <2>1, <2>10, OwnedFacts DEF SameArray, Read
  <2> QED
    BY <2>5, <2>8, <2>9, <2>11, <2>12
<1> QED
  BY <1>2, <1>3

\* What columns of other types do does not matter to strings.
LEMMA Unowned ==
  ASSUME NEW r, NEW c, NEW h, Owns(r, c, h), NEW r2, NEW c2, RowOK(r2), ArrayOK(c2),
         \A k \in Columns : IsString(k) => r2[k] = r[k] /\ c2[k] = c[k]
  PROVE  Owns(r2, c2, h)
<1>1. ASSUME NEW o \in StringPlaces
      PROVE  At(r2, c2, o) = At(r, c, o) /\ (o \in Holders(r2, c2) <=> o \in Holders(r, c))
  <2>1. PICK k \in Columns, i \in 0 .. Capacity : IsString(k) /\ o = <<k, i>>
    BY DEF StringPlaces
  <2> QED
    BY <2>1 DEF At, Holders
<1>2. Holders(r, c) \subseteq StringPlaces /\ Holders(r2, c2) \subseteq StringPlaces
  BY DEF Holders
<1>3. Holders(r2, c2) = Holders(r, c) /\ \A o \in Holders(r, c) : At(r2, c2, o) = At(r, c, o)
  BY <1>1, <1>2
<1> QED
  BY <1>3 DEF Owns

\* The places of column j's array.
ArrayPlaces(j) == {j} \X (1 .. Capacity)

\* The arrays c once that of column j is a.
Put(c, j, a) == [c EXCEPT ![j] = a]

LEMMA Emptied ==
  ASSUME NEW r, NEW c, NEW h, Owns(r, c, h), NEW j \in Columns,
         NEW c2, c2 = Put(c, j, <<>>), NEW h2, h2 = Delete(h, ArrayStrings(j, c[j]))
  PROVE  /\ Owns(r, c2, h2) /\ c2[j] = <<>>
         /\ \A k \in Columns : SameField(r, h, h2, k)
         /\ \A k \in Columns \ {j} : c2[k] = c[k] /\ SameArray(c, h, h2, k)
<1> USE DEF Put
<1> DEFINE D == ArrayStrings(j, c[j])
<1>1. RowOK(r) /\ ArrayOK(c) /\ h \in Heaps /\ c \in [Columns -> Seq(Fields)]
  BY DEF Owns, ArrayOK
<1>2. Shrinks(h, D, h2)
  BY <1>1, DeleteFacts
<1>3. c2[j] = <<>> /\ \A k \in Columns \ {j} : c2[k] = c[k]
  BY <1>1
<1>4. ArrayOK(c2)
  BY <1>1, <1>3, Constants DEF ArrayOK
<1>5. ASSUME ~IsString(j) PROVE Owns(r, c2, h2)
  <2>1. D = {}
    BY <1>5 DEF ArrayStrings
  <2>2. h2 \in Heaps /\ DOMAIN h2 = DOMAIN h
    BY <1>2, <2>1 DEF Shrinks
  <2>3. Owns(r, c, h2)
    BY <2>2 DEF Owns
  <2> QED
    BY <1>1, <1>3, <1>4, <1>5, <2>3, Unowned
<1>6. ASSUME IsString(j) PROVE Owns(r, c2, h2)
  <2> DEFINE K == KeptStrings(r, c, h, ArrayPlaces(j))
  <2>1. ASSUME NEW o \in StringPlaces
        PROVE  /\ o \in Holders(r, c2) <=> o \in Holders(r, c) /\ o \notin ArrayPlaces(j)
               /\ o \notin ArrayPlaces(j) => At(r, c2, o) = At(r, c, o)
    <3>1. PICK k \in Columns, i \in 0 .. Capacity : o = <<k, i>>
      BY DEF StringPlaces
    <3>2. o \in ArrayPlaces(j) <=> k = j /\ i # 0
      BY <3>1, Constants DEF ArrayPlaces
    <3> QED
      BY <1>3, <3>1, <3>2 DEF At, Holders
  <2>2. Holders(r, c) \subseteq StringPlaces /\ Holders(r, c2) \subseteq StringPlaces
    BY DEF Holders
  <2>3. K = DOMAIN h \ D
    <3>1. ASSUME NEW o \in Holders(r, c), o \in ArrayPlaces(j)
          PROVE  \E i \in DOMAIN c[j] : At(r, c, o) = c[j][i]
      <4>1. PICK i \in 1 .. Capacity : o = <<j, i>>
        BY <3>1 DEF ArrayPlaces
      <4>2. i # 0 /\ i \in DOMAIN c[j]
        BY <4>1, Constants DEF Holders
      <4> QED
        BY <4>1, <4>2 DEF At
    <3>2. ASSUME NEW i \in DOMAIN c[j]
          PROVE  \E o \in Holders(r, c) : o \in ArrayPlaces(j) /\ At(r, c, o) = c[j][i]
      <4>1. <<j, i>> \in Holders(r, c) /\ At(r, c, <<j, i>>) = c[j][i]
        <5>1. IsString(j) /\ ArrayOK(c)
          BY <1>1, <1>6
        <5> QED
          BY <5>1, PlaceFacts
      <4>2. i \in 1 .. Capacity
        BY <1>1, Constants DEF ArrayOK
      <4> QED
        BY <4>1, <4>2 DEF ArrayPlaces
    <3>3. \A a : a \in D <=> \E i \in DOMAIN c[j] : c[j][i] = a
      BY <1>6 DEF ArrayStrings, Range
    <3> QED
      BY <3>1, <3>2, <3>3 DEF KeptStrings
  <2>4. Moves(r, c, h, r, c2, h2, ArrayPlaces(j), {})
    BY <1>1, <1>2, <1>4, <2>1, <2>2, <2>3 DEF Moves, Shrinks
  <2> QED
    BY <2>4, Moved
<1>7. \A a \in DOMAIN h : a \notin D => h2[a] = h[a]
  BY <1>2 DEF Shrinks
<1>8. ASSUME NEW k \in Columns PROVE SameField(r, h, h2, k)
  <2>1. ASSUME IsString(k), r[k] # Null PROVE r[k] \in DOMAIN h /\ r[k] \notin D
    BY <2>1, OwnedFacts DEF ArrayStrings, Range
  <2> QED
    BY <1>7, <2>1 DEF SameField, Read
<1>9. ASSUME NEW k \in Columns \ {j} PROVE SameArray(c, h, h2, k)
  <2>1. ASSUME IsString(k), NEW i \in DOMAIN c[k] PROVE c[k][i] \in DOMAIN h /\ c[k][i] \notin D
    BY <2>1, OwnedFacts DEF ArrayStrings, Range
  <2> QED
    BY <1>7, <2>1 DEF SameArray, Read
<1> QED
  BY <1>3, <1>5, <1>6, <1>8, <1>9

LEMMA Loaded ==
  ASSUME NEW r, NEW c, NEW h, Owns(r, c, h), NEW j \in Columns, c[j] = <<>>,
         NEW s \in Seq(Values), Len(s) <= Capacity,
         NEW array, array = IF IsString(j) THEN Addresses(h, s) ELSE s,
         NEW c2, c2 = Put(c, j, array),
         NEW h2, h2 = IF IsString(j) THEN New(h, s) ELSE h
  PROVE  /\ Owns(r, c2, h2) /\ c2[j] = array /\ Contents(h2, j, array) = s
         /\ \A k \in Columns : SameField(r, h, h2, k)
         /\ \A k \in Columns \ {j} : c2[k] = c[k] /\ SameArray(c, h, h2, k)
<1> USE DEF Put
<1>1. RowOK(r) /\ ArrayOK(c) /\ h \in Heaps /\ c \in [Columns -> Seq(Fields)]
  BY DEF Owns, ArrayOK
<1>2. c2[j] = array /\ \A k \in Columns \ {j} : c2[k] = c[k]
  BY <1>1
<1>3. Len(s) \in Nat /\ DOMAIN s = 1 .. Len(s)
  OBVIOUS
<1>4. CASE ~IsString(j)
  <2>1. array = s /\ h2 = h
    BY <1>4
  <2>2. array \in Seq(Fields) /\ Len(array) <= Capacity /\ \A i \in DOMAIN array : array[i] \in Field(j)
    BY <1>3, <1>4, <2>1 DEF Field, Fields
  <2>3. ArrayOK(c2)
    BY <1>1, <1>2, <2>2 DEF ArrayOK
  <2>4. Owns(r, c2, h2)
    BY <1>1, <1>2, <1>4, <2>1, <2>3, Unowned
  <2>5. Contents(h2, j, array) = s
    BY <1>3, <1>4, <2>1 DEF Contents
  <2> QED
    BY <1>2, <2>1, <2>4, <2>5 DEF SameField, SameArray
<1>5. CASE IsString(j)
  <2>1. array = Addresses(h, s) /\ h2 = New(h, s)
    BY <1>5
  <2>2. HasRoom(h, Len(s))
    <3> DEFINE H == Holders(r, c)  P == {<<j, i>> : i \in 1 .. Len(s)}
    <3>1. /\ IsFiniteSet(DOMAIN h) /\ DOMAIN h \subseteq Heap /\ Cardinality(DOMAIN h) \in Nat
          /\ IsFiniteSet(H) /\ H \subseteq StringPlaces /\ Cardinality(H) \in Nat
          /\ Cardinality(DOMAIN h) <= Cardinality(H)
      BY OwnedCount
    <3>2. IsFiniteSet(P) /\ Cardinality(P) = Len(s)
      <4> DEFINE f == [i \in 1 .. Len(s) |-> <<j, i>>]
      <4>1. IsFiniteSet(1 .. Len(s)) /\ Cardinality(1 .. Len(s)) = Len(s)
        BY <1>3, FS_Interval
      <4>2. f \in Bijection(1 .. Len(s), P)
        BY DEF Bijection, Injection, Surjection, IsInjective
      <4>3. ExistsBijection(1 .. Len(s), P)
        BY <4>2 DEF ExistsBijection
      <4> QED
        BY <4>1, <4>3, FS_Bijection
    <3>3. H \cap P = {}
      <4> SUFFICES ASSUME NEW i \in 1 .. Len(s), <<j, i>> \in H PROVE FALSE
        OBVIOUS
      <4>1. i # 0 /\ i \in DOMAIN c[j]
        BY <1>3 DEF Holders
      <4> QED
        BY <4>1
    <3>4. P \subseteq StringPlaces
      BY <1>3, <1>5, Constants DEF StringPlaces
    <3>6. H \cup P \in SUBSET StringPlaces
      BY <3>1, <3>4
    <3> HIDE DEF H, P
    <3>5. IsFiniteSet(H \cup P) /\ Cardinality(H \cup P) = Cardinality(H) + Cardinality(P)
      <4>1. Cardinality(H \cap P) = 0
        BY <3>3, FS_EmptySet
      <4>2. Cardinality(H \cup P) = Cardinality(H) + Cardinality(P) - Cardinality(H \cap P)
        BY <3>1, <3>2, FS_Union
      <4>3. IsFiniteSet(H \cup P)
        BY <3>1, <3>2, FS_Union
      <4> QED
        BY <1>3, <3>1, <3>2, <4>1, <4>2, <4>3
    <3>7. Cardinality(H \cup P) <= Cardinality(StringPlaces)
      BY <3>6, PlacesFinite, FS_Subset
    <3>8. Cardinality(DOMAIN h) + Len(s) <= Cardinality(Heap)
      BY <1>3, <3>1, <3>2, <3>5, <3>7, PlacesFinite
    <3> QED
      BY <1>3, <3>1, <3>8, Room
  <2>3. Extends(h, s, array, h2)
    BY <1>1, <2>1, <2>2, NewFacts
  <2>4. /\ array \in Seq(Heap) /\ Len(array) = Len(s) /\ DOMAIN array = 1 .. Len(s)
        /\ \A i, l \in DOMAIN array : array[i] = array[l] => i = l
        /\ h2 \in Heaps
        /\ \A a : a \in DOMAIN h2 <=> a \in DOMAIN h \/ \E i \in DOMAIN array : array[i] = a
        /\ \A i \in DOMAIN array : array[i] \notin DOMAIN h
        /\ \A a \in DOMAIN h : h2[a] = h[a]
        /\ \A i \in DOMAIN array : h2[array[i]] = s[i]
    BY <1>3, <2>3 DEF Extends, Range, IsInjective
  <2>5. array \in Seq(Fields) /\ Len(array) <= Capacity /\ \A i \in DOMAIN array : array[i] \in Field(j)
    BY <1>5, <2>4 DEF Field, Fields
  <2>6. ArrayOK(c2)
    BY <1>1, <1>2, <2>5 DEF ArrayOK
  <2> DEFINE P == {j} \X (1 .. Len(s))
  <2>7. ASSUME NEW o \in StringPlaces
        PROVE  /\ o \in Holders(r, c2) <=> o \in Holders(r, c) \/ o \in P
               /\ o \in Holders(r, c) => o \notin P /\ At(r, c2, o) = At(r, c, o)
    <3>1. PICK k \in Columns, i \in 0 .. Capacity : o = <<k, i>>
      BY DEF StringPlaces
    <3>2. o \in P <=> k = j /\ i # 0 /\ i \in DOMAIN array
      BY <1>3, <2>4, <3>1, Constants
    <3> QED
      BY <1>2, <3>1, <3>2 DEF At, Holders
  <2>8. Holders(r, c) \subseteq StringPlaces /\ Holders(r, c2) \subseteq StringPlaces /\ P \subseteq StringPlaces
    BY <1>3, <1>5, Constants DEF Holders, StringPlaces
  <2>9. /\ \A o \in P : \E i \in DOMAIN array : o = <<j, i>> /\ At(r, c2, o) = array[i]
        /\ \A i \in DOMAIN array : \E o \in P : At(r, c2, o) = array[i]
    <3>1. ASSUME NEW i \in DOMAIN array PROVE <<j, i>> \in P /\ At(r, c2, <<j, i>>) = array[i]
      BY <1>2, <2>4 DEF At
    <3>2. ASSUME NEW o \in P PROVE \E i \in DOMAIN array : o = <<j, i>> /\ At(r, c2, o) = array[i]
      <4>1. PICK i \in 1 .. Len(s) : o = <<j, i>>
        OBVIOUS
      <4>2. i \in DOMAIN array
        BY <2>4
      <4> QED
        BY <3>1, <4>1, <4>2
    <3> HIDE DEF P
    <3> QED
      BY <3>1, <3>2
  <2> HIDE DEF P
  <2>10. \A o : o \in Holders(r, c2) <=> (o \in Holders(r, c) /\ o \notin {}) \/ o \in P
    BY <2>7, <2>8
  <2>11. \A o \in Holders(r, c) : o \notin {} => o \notin P /\ At(r, c2, o) = At(r, c, o)
    BY <2>7, <2>8
  <2>12. KeptStrings(r, c, h, {}) = DOMAIN h
    BY DEF KeptStrings
  <2>13. ASSUME NEW o \in P, NEW p \in P, At(r, c2, o) = At(r, c2, p) PROVE o = p
    <3>1. PICK i, l \in DOMAIN array : /\ o = <<j, i>> /\ At(r, c2, o) = array[i]
                                      /\ p = <<j, l>> /\ At(r, c2, p) = array[l]
      BY <2>9
    <3> QED
      BY <2>4, <2>13, <3>1
  <2>14. ASSUME NEW o \in P PROVE At(r, c2, o) \notin DOMAIN h
    <3>1. PICK i \in DOMAIN array : At(r, c2, o) = array[i]
      BY <2>9
    <3> QED
      BY <2>4, <3>1
  <2>15. ASSUME NEW a PROVE a \in DOMAIN h2 <=> a \in DOMAIN h \/ \E o \in P : At(r, c2, o) = a
    <3>1. ASSUME NEW i \in DOMAIN array, array[i] = a PROVE \E o \in P : At(r, c2, o) = a
      BY <2>9, <3>1
    <3>2. ASSUME NEW o \in P, At(r, c2, o) = a PROVE \E i \in DOMAIN array : array[i] = a
      BY <2>9, <3>2
    <3> QED
      BY <2>4, <3>1, <3>2
  <2>16. Moves(r, c, h, r, c2, h2, {}, P)
    BY <1>1, <2>4, <2>6, <2>10, <2>11, <2>12, <2>13, <2>14, <2>15 DEF Moves
  <2>17. Owns(r, c2, h2)
    BY <2>16, Moved
  <2>18. Contents(h2, j, array) = s
    BY <1>3, <1>5, <2>4 DEF Contents
  <2>19. \A k \in Columns : SameField(r, h, h2, k) /\ SameArray(c, h, h2, k)
    <3>1. \A k \in Columns : IsString(k) /\ r[k] # Null => r[k] \in DOMAIN h
      BY OwnedFacts
    <3>2. \A k \in Columns : \A i \in DOMAIN c[k] : IsString(k) => c[k][i] \in DOMAIN h
      BY OwnedFacts
    <3> QED
      BY <2>4, <3>1, <3>2 DEF SameField, SameArray, Read
  <2> QED
    BY <1>2, <2>17, <2>18, <2>19
<1> QED
  BY <1>4, <1>5

LEMMA Pushed ==
  ASSUME NEW r, NEW c, NEW h, Owns(r, c, h), NEW j \in Columns, Len(c[j]) < Capacity,
         NEW v \in Values, NEW x, x = Stored(h, j, v).field, NEW h2, h2 = Stored(h, j, v).heap,
         NEW c2, c2 = Put(c, j, Append(c[j], x))
  PROVE  /\ Owns(r, c2, h2) /\ c2[j] = Append(c[j], x) /\ Read(h2, j, x) = v
         /\ \A k \in Columns : SameField(r, h, h2, k) /\ SameArray(c, h, h2, k)
         /\ \A k \in Columns \ {j} : c2[k] = c[k]
<1> USE DEF Put
<1>1. RowOK(r) /\ ArrayOK(c) /\ h \in Heaps /\ c \in [Columns -> Seq(Fields)]
  BY DEF Owns, ArrayOK
<1>2. c2[j] = Append(c[j], x) /\ \A k \in Columns \ {j} : c2[k] = c[k]
  BY <1>1
<1>3. PICK m \in Nat : m = Len(c[j]) + 1 /\ m \in 1 .. Capacity
  BY <1>1, Constants
<1>4. /\ c[j] \in Seq(Fields) /\ DOMAIN c[j] = 1 .. m - 1
      /\ Len(c2[j]) = m /\ DOMAIN c2[j] = 1 .. m
      /\ c2[j][m] = x /\ \A i \in 1 .. m - 1 : c2[j][i] = c[j][i]
  BY <1>1, <1>2, <1>3
<1>5. ASSUME x \in Field(j), x \in Fields PROVE ArrayOK(c2)
  <2>1. c2[j] \in Seq(Fields)
    BY <1>1, <1>2, <1>5
  <2>2. \A i \in DOMAIN c2[j] : c2[j][i] \in Field(j)
    BY <1>1, <1>3, <1>4, <1>5 DEF ArrayOK
  <2>3. \A k \in Columns \ {j} :
          c2[k] \in Seq(Fields) /\ Len(c2[k]) <= Capacity /\ \A i \in DOMAIN c2[k] : c2[k][i] \in Field(k)
    BY <1>1, <1>2 DEF ArrayOK
  <2>4. c2 \in [Columns -> Seq(Fields)] /\ Len(c2[j]) <= Capacity
    BY <1>1, <1>3, <1>4, <1>5, Constants
  <2> QED
    BY <2>1, <2>2, <2>3, <2>4 DEF ArrayOK
<1>6. CASE ~IsString(j)
  <2>1. h2 = h /\ x = v
    BY <1>6 DEF Stored
  <2>2. ArrayOK(c2)
    BY <1>5, <1>6, <2>1 DEF Field, Fields
  <2>3. Owns(r, c2, h2)
    BY <1>1, <1>2, <1>6, <2>1, <2>2, Unowned
  <2>4. Read(h2, j, x) = v
    BY <1>6, <2>1 DEF Read
  <2> QED
    BY <1>2, <2>1, <2>3, <2>4 DEF SameField, SameArray
<1>7. CASE IsString(j)
  <2>1. x = Addresses(h, <<v>>)[1] /\ h2 = New(h, <<v>>)
    BY <1>7 DEF Stored
  <2>2. /\ x \in Heap /\ x \notin DOMAIN h
        /\ h2 \in Heaps /\ DOMAIN h2 = DOMAIN h \cup {x}
        /\ h2[x] = v /\ \A a \in DOMAIN h : h2[a] = h[a]
    <3>1. Adds(h, v, x, h2)
      BY <2>1, Copied
    <3> QED
      BY <3>1 DEF Adds
  <2>3. ArrayOK(c2)
    BY <1>5, <1>7, <2>2 DEF Field, Fields
  <2>4. ASSUME NEW o \in StringPlaces
        PROVE  /\ o \in Holders(r, c2) <=> o \in Holders(r, c) \/ o = <<j, m>>
               /\ o \in Holders(r, c) => o # <<j, m>> /\ At(r, c2, o) = At(r, c, o)
    <3>1. PICK k \in Columns, i \in 0 .. Capacity : o = <<k, i>>
      BY DEF StringPlaces
    <3>2. m # 0 /\ i \in Int
      BY <1>3
    <3>3. CASE k # j
      BY <1>2, <3>1, <3>3 DEF At, Holders
    <3>4. CASE k = j /\ i = 0
      BY <3>1, <3>2, <3>4 DEF At, Holders
    <3>5. CASE k = j /\ i # 0
      <4>1. /\ o \in Holders(r, c2) <=> i \in 1 .. m
            /\ o \in Holders(r, c) <=> i \in 1 .. m - 1
            /\ At(r, c2, o) = c2[j][i] /\ At(r, c, o) = c[j][i]
        BY <1>4, <3>1, <3>5 DEF At, Holders
      <4>2. i \in 1 .. m <=> i \in 1 .. m - 1 \/ i = m
        BY <1>3, <3>2
      <4> QED
        BY <1>3, <1>4, <3>1, <3>5, <4>1, <4>2
    <3> QED
      BY <3>3, <3>4, <3>5
  <2>5. /\ Holders(r, c) \subseteq StringPlaces /\ Holders(r, c2) \subseteq StringPlaces
        /\ <<j, m>> \in StringPlaces
    BY <1>3, <1>7, Constants DEF Holders, StringPlaces
  <2>6. At(r, c2, <<j, m>>) = x
    BY <1>3, <1>4 DEF At
  <2>7. KeptStrings(r, c, h, {}) = DOMAIN h
    BY DEF KeptStrings
  <2>8. \A o : o \in Holders(r, c2) <=> (o \in Holders(r, c) /\ o \notin {}) \/ o \in {<<j, m>>}
    BY <2>4, <2>5
  <2>9. \A o \in Holders(r, c) : o \notin {} => o \notin {<<j, m>>} /\ At(r, c2, o) = At(r, c, o)
    BY <2>4, <2>5
  <2>10. \A a : a \in DOMAIN h2 <=> a \in DOMAIN h \/ \E o \in {<<j, m>>} : At(r, c2, o) = a
    BY <2>2, <2>6
  <2>11. Moves(r, c, h, r, c2, h2, {}, {<<j, m>>})
    BY <1>1, <2>2, <2>3, <2>6, <2>7, <2>8, <2>9, <2>10 DEF Moves
  <2>12. Owns(r, c2, h2)
    BY <2>11, Moved
  <2>13. \A k \in Columns : SameField(r, h, h2, k) /\ SameArray(c, h, h2, k)
    <3>1. \A k \in Columns : IsString(k) /\ r[k] # Null => r[k] \in DOMAIN h
      BY OwnedFacts
    <3>2. \A k \in Columns : \A i \in DOMAIN c[k] : IsString(k) => c[k][i] \in DOMAIN h
      BY OwnedFacts
    <3> QED
      BY <2>2, <3>1, <3>2 DEF SameField, SameArray, Read
  <2>14. Read(h2, j, x) = v
    BY <1>7, <2>2 DEF Read
  <2> QED
    BY <1>2, <2>12, <2>13, <2>14
<1> QED
  BY <1>6, <1>7

LEMMA RowCleared ==
  ASSUME NEW r, NEW c, NEW h, Owns(r, c, h), NEW h2, h2 = Delete(h, RowStrings(r)),
         NEW r2, r2 = Each(Null)
  PROVE  Owns(r2, c, h2) /\ \A k \in Columns : SameArray(c, h, h2, k)
<1> DEFINE D == RowStrings(r)  P == Columns \X {0}
<1>1. RowOK(r) /\ ArrayOK(c) /\ h \in Heaps
  BY DEF Owns
<1>2. Shrinks(h, D, h2)
  BY <1>1, DeleteFacts
<1>3. r2 \in [Columns -> Fields] /\ \A k \in Columns : r2[k] = Null
  BY DEF Each, Fields
<1>4. RowOK(r2)
  BY <1>3 DEF RowOK
<1>5. ASSUME NEW o \in StringPlaces
      PROVE  /\ o \in Holders(r2, c) <=> o \in Holders(r, c) /\ o \notin P
             /\ o \notin P => At(r2, c, o) = At(r, c, o)
  <2>1. PICK k \in Columns, i \in 0 .. Capacity : o = <<k, i>>
    BY DEF StringPlaces
  <2> QED
    BY <1>3, <2>1 DEF At, Holders
<1>6. Holders(r, c) \subseteq StringPlaces /\ Holders(r2, c) \subseteq StringPlaces
  BY DEF Holders
<1>7. \A a : a \in D <=> \E k \in Columns : IsString(k) /\ r[k] # Null /\ r[k] = a
  BY DEF RowStrings
<1>8. KeptStrings(r, c, h, P) = DOMAIN h \ D
  <2>1. ASSUME NEW o \in Holders(r, c), o \in P
        PROVE  \E k \in Columns : IsString(k) /\ r[k] # Null /\ r[k] = At(r, c, o)
    <3>1. PICK k \in Columns : o = <<k, 0>>
      BY <2>1
    <3>2. IsString(k) /\ r[k] # Null
      BY <3>1 DEF Holders, StringPlaces
    <3> QED
      BY <3>1, <3>2 DEF At
  <2>2. ASSUME NEW k \in Columns, IsString(k), r[k] # Null
        PROVE  \E o \in Holders(r, c) : o \in P /\ At(r, c, o) = r[k]
    <3>1. <<k, 0>> \in Holders(r, c) /\ At(r, c, <<k, 0>>) = r[k]
      BY <1>1, <2>2, PlaceFacts
    <3> QED
      BY <3>1
  <2> QED
    BY <1>7, <2>1, <2>2 DEF KeptStrings
<1> HIDE DEF P, D
<1>9. Moves(r, c, h, r2, c, h2, P, {})
  BY <1>1, <1>2, <1>4, <1>5, <1>6, <1>8 DEF Moves, Shrinks
<1>10. Owns(r2, c, h2)
  BY <1>9, Moved
<1>11. \A a \in DOMAIN h : a \notin D => h2[a] = h[a]
  BY <1>2 DEF Shrinks
<1>12. ASSUME NEW k \in Columns PROVE SameArray(c, h, h2, k)
  <2>1. ASSUME IsString(k), NEW i \in DOMAIN c[k] PROVE c[k][i] \in DOMAIN h /\ c[k][i] \notin D
    BY <1>7, <2>1, OwnedFacts
  <2> QED
    BY <1>11, <2>1 DEF SameArray, Read
<1> QED
  BY <1>10, <1>12

LEMMA Dropped ==
  ASSUME NEW r, NEW c, NEW h, Owns(r, c, h), NEW c2, c2 = Each(<<>>),
         NEW h2, h2 = Delete(h, UNION {ArrayStrings(j, c[j]) : j \in Columns})
  PROVE  Owns(r, c2, h2)
<1> DEFINE D == UNION {ArrayStrings(j, c[j]) : j \in Columns}  P == Columns \X (1 .. Capacity)
<1>1. RowOK(r) /\ ArrayOK(c) /\ h \in Heaps
  BY DEF Owns
<1>2. Shrinks(h, D, h2)
  BY <1>1, DeleteFacts
<1>3. c2 \in [Columns -> Seq(Fields)] /\ \A k \in Columns : c2[k] = <<>>
  BY DEF Each
<1>4. ArrayOK(c2)
  BY <1>3, Constants DEF ArrayOK
<1>5. ASSUME NEW o \in StringPlaces
      PROVE  /\ o \in Holders(r, c2) <=> o \in Holders(r, c) /\ o \notin P
             /\ o \notin P => At(r, c2, o) = At(r, c, o)
  <2>1. PICK k \in Columns, i \in 0 .. Capacity : o = <<k, i>>
    BY DEF StringPlaces
  <2>2. o \in P <=> i # 0
    BY <2>1, Constants
  <2> QED
    BY <1>3, <2>1, <2>2 DEF At, Holders
<1>6. Holders(r, c) \subseteq StringPlaces /\ Holders(r, c2) \subseteq StringPlaces
  BY DEF Holders
<1>7. \A a : a \in D <=> \E k \in Columns : IsString(k) /\ \E i \in DOMAIN c[k] : c[k][i] = a
  BY DEF ArrayStrings, Range
<1>8. KeptStrings(r, c, h, P) = DOMAIN h \ D
  <2>1. ASSUME NEW o \in Holders(r, c), o \in P
        PROVE  \E k \in Columns : IsString(k) /\ \E i \in DOMAIN c[k] : c[k][i] = At(r, c, o)
    <3>1. PICK k \in Columns, i \in 1 .. Capacity : o = <<k, i>>
      BY <2>1
    <3>2. IsString(k) /\ i # 0 /\ i \in DOMAIN c[k]
      BY <3>1, Constants DEF Holders, StringPlaces
    <3> QED
      BY <3>1, <3>2 DEF At
  <2>2. ASSUME NEW k \in Columns, IsString(k), NEW i \in DOMAIN c[k]
        PROVE  \E o \in Holders(r, c) : o \in P /\ At(r, c, o) = c[k][i]
    <3>1. <<k, i>> \in Holders(r, c) /\ At(r, c, <<k, i>>) = c[k][i]
      BY <1>1, <2>2, PlaceFacts
    <3>2. i \in 1 .. Capacity
      BY <1>1, Constants DEF ArrayOK
    <3> QED
      BY <3>1, <3>2
  <2> HIDE DEF P, D
  <2> QED
    BY <1>7, <2>1, <2>2 DEF KeptStrings
<1> HIDE DEF P, D
<1>9. Moves(r, c, h, r, c2, h2, P, {})
  BY <1>1, <1>2, <1>4, <1>5, <1>6, <1>8 DEF Moves, Shrinks
<1> QED
  BY <1>9, Moved
-----------------------------------------------------------------------------
(***************************************************************************)
(* Rows                                                                    *)
(***************************************************************************)
LEMMA Least ==
  ASSUME NEW T, T \subseteq Nat, T # {}
  PROVE  Min(T) \in T /\ \A m \in T : Min(T) <= m
<1> DEFINE R == OpToRel(<, Nat)
<1>1. IsWellFoundedOn(R, Nat)
  BY NatLessThanWellFounded
<1>2. \A x, y \in Nat : x < y => <<x, y>> \in R
  BY DEF OpToRel
<1> HIDE DEF R
<1>3. PICK n \in T : \A m \in T : ~(<<m, n>> \in R)
  BY <1>1, WFMin
<1>4. \A m \in T : m \in Nat /\ ~(m < n)
  BY <1>2, <1>3
<1>5. \A m \in T : n <= m
  BY <1>4
<1> QED
  BY <1>5 DEF Min

LEMMA Divided ==
  ASSUME NEW i \in Nat, NEW c \in Nat \ {0}
  PROVE  /\ i \div c \in Nat /\ i % c \in 0 .. c - 1
         /\ i = (i \div c) * c + (i % c)
OBVIOUS

LEMMA Remainder ==
  ASSUME NEW i \in Nat, NEW c \in Nat \ {0}, NEW q \in Nat, NEW r \in Nat, r < c, i = q * c + r
  PROVE  i \div c = q /\ i % c = r
OBVIOUS

LEMMA Empty ==
  ASSUME NEW T, NEW s \in Seq(T), Len(s) = 0
  PROVE  s = <<>>
OBVIOUS

LEMMA NotEmpty ==
  ASSUME NEW T, NEW s \in Seq(T), s # <<>>
  PROVE  Len(s) - 1 \in Nat /\ DOMAIN s = 1 .. (Len(s) - 1) + 1
OBVIOUS

LEMMA NextStart ==
  ASSUME NEW i \in Nat, NEW j \in Nat, i < j
  PROVE  i * Capacity \in Nat /\ j * Capacity \in Nat /\ i * Capacity + Capacity <= j * Capacity
<1> DEFINE d == j - i - 1
<1>1. d \in Nat /\ j = i + 1 + d
  OBVIOUS
<1>2. d * Capacity \in Nat /\ i * Capacity \in Nat
  BY <1>1, CapacityFact
<1>3. j * Capacity = i * Capacity + Capacity + d * Capacity
  BY <1>1, CapacityFact
<1> QED
  BY <1>2, <1>3, CapacityFact

\* Where a complete column of n values has value r, from 0.
LEMMA InSegment ==
  ASSUME NEW j \in Columns, segments \in [Columns -> Seq(Seq(Values))],
         SegmentInv(j), Published, NEW L \in Nat, Complete(j, L), NEW r \in Nat, r < L,
         NEW i, i = r \div Capacity, NEW k, k = r % Capacity
  PROVE  /\ i \in Nat /\ k \in Nat
         /\ i + 1 \in DOMAIN segments[j] /\ segments[j][i + 1] \in Seq(Values)
         /\ Len(segments[j][i + 1]) <= Capacity /\ k + 1 \in DOMAIN segments[j][i + 1]
         /\ segments[j][i + 1][k + 1] = written[r + 1][j]
<1>1. i \in Nat /\ k \in Nat /\ k < Capacity /\ r = i * Capacity + k
  <2>1. /\ r \div Capacity \in Nat /\ r % Capacity \in 0 .. Capacity - 1
        /\ r = (r \div Capacity) * Capacity + (r % Capacity)
    BY Divided, CapacityFact
  <2> QED
    BY <2>1, CapacityFact
<1>2. PICK s : s = segments[j]
  OBVIOUS
<1>3. s \in Seq(Seq(Values)) /\ s # <<>>
  BY <1>2 DEF Complete
<1>4. PICK last \in Nat : last = Len(s) - 1 /\ DOMAIN s = 1 .. last + 1
  BY <1>3, NotEmpty
<1>5. PICK q \in Nat : q = Len(s[last + 1]) /\ DOMAIN s[last + 1] = 1 .. q
  BY <1>3, <1>4
<1>6. L = last * Capacity + q /\ q <= Capacity
  BY <1>2, <1>4, <1>5 DEF Complete, SegmentInv
<1>7. ~(last < i)
  <2>1. ASSUME last < i PROVE FALSE
    <3>1. last * Capacity \in Nat /\ i * Capacity \in Nat /\ last * Capacity + Capacity <= i * Capacity
      BY <1>1, <2>1, NextStart
    <3> QED
      BY <1>1, <1>6, <3>1, CapacityFact
  <2> QED
    BY <2>1
<1>8. i + 1 \in DOMAIN s /\ s[i + 1] \in Seq(Values)
  BY <1>1, <1>3, <1>4, <1>7
<1>9. Len(s[i + 1]) <= Capacity
  BY <1>2, <1>8 DEF SegmentInv
<1>10. k + 1 \in DOMAIN s[i + 1]
  <2>1. CASE i = last
    <3>1. last * Capacity \in Nat
      BY CapacityFact
    <3>2. k < q
      BY <1>1, <1>6, <2>1, <3>1
    <3> QED
      BY <1>1, <1>5, <2>1, <3>2
  <2>2. CASE i # last
    <3>1. Len(s[i + 1]) = Capacity
      BY <1>1, <1>2, <1>4, <1>7, <1>8, <2>2 DEF SegmentInv
    <3> QED
      BY <1>1, <1>8, <3>1
  <2> QED
    BY <2>1, <2>2
<1>11. s[i + 1][k + 1] = written[((i + 1) - 1) * Capacity + (k + 1)][j]
  BY <1>2, <1>8, <1>10 DEF SegmentInv
<1>12. ((i + 1) - 1) * Capacity + (k + 1) = r + 1
  <2>1. (i + 1) - 1 = i /\ i * Capacity \in Nat
    BY <1>1, CapacityFact
  <2> QED
    BY <1>1, <2>1
<1> QED
  BY <1>1, <1>2, <1>8, <1>9, <1>10, <1>11, <1>12

LEMMA LocalRows ==
  ASSUME NEW n \in Nodes, segments \in [Columns -> Seq(Seq(Values))],
         SegmentInv(1), Published, NEW L \in Nat, L = Len(written), Complete(1, L)
  PROVE  /\ LocalIndices(n) \subseteq Nat
         /\ L # 0 => \A r \in Nat :
              r \in LocalIndices(n) <=> r < L /\ Home(1, r \div Capacity) = n
<1>1. PICK s : s = segments[1]
  OBVIOUS
<1>2. s \in Seq(Seq(Values)) /\ s # <<>>
  BY <1>1, Constants DEF Complete
<1>3. PICK last \in Nat : last = Len(s) - 1 /\ DOMAIN s = 1 .. last + 1
  BY <1>2, NotEmpty
<1>4. PICK q \in Nat : q = Len(s[last + 1])
  BY <1>2, <1>3
<1>5. L = last * Capacity + q /\ q <= Capacity
  BY <1>1, <1>3, <1>4, Constants DEF Complete, SegmentInv
<1>6. q = 0 => last = 0
  <2>1. s[last + 1] \in Seq(Values)
    BY <1>2, <1>3
  <2>2. q = 0 => s[last + 1] = <<>>
    BY <1>4, <2>1, Empty
  <2> QED
    BY <1>1, <1>3, <2>2 DEF Complete
<1> DEFINE partial == L % Capacity
           Count1(i) == IF i < last \/ partial = 0 THEN Capacity ELSE partial
           Of(i) == i * Capacity .. i * Capacity + Count1(i) - 1
<1>7. LocalIndices(n) = UNION {Of(i) : i \in {k \in 0 .. last : Home(1, k) = n}}
  BY <1>1, <1>3 DEF LocalIndices
<1>8. partial \in Nat
  BY CapacityFact
<1> HIDE DEF partial
<1>9. \A r : r \in LocalIndices(n) <=> \E i \in 0 .. last : Home(1, i) = n /\ r \in Of(i)
  BY <1>7
<1>10. ASSUME NEW i \in 0 .. last PROVE i * Capacity \in Nat /\ Count1(i) \in Nat
  BY <1>8, CapacityFact
<1>11. LocalIndices(n) \subseteq Nat
  BY <1>9, <1>10
<1>12. ASSUME L # 0 PROVE Count1(last) = q /\ 0 < q
  <2>1. q # 0
    <3>1. 0 * Capacity = 0
      BY CapacityFact
    <3> QED
      BY <1>5, <1>6, <1>12, <3>1
  <2>2. CASE q < Capacity
    <3>1. partial = q
      BY <1>5, <2>2, Remainder, CapacityFact DEF partial
    <3> QED
      BY <2>1, <3>1
  <2>3. CASE q = Capacity
    <3>1. L = (last + 1) * Capacity + 0
      BY <1>5, <2>3, CapacityFact
    <3>2. partial = 0
      BY <3>1, Remainder, CapacityFact DEF partial
    <3> QED
      BY <2>1, <2>3, <3>2
  <2> QED
    BY <1>5, <2>1, <2>2, <2>3, CapacityFact
<1>13. ASSUME L # 0, NEW r \in Nat, NEW i \in 0 .. last, r \in Of(i) PROVE r < L /\ r \div Capacity = i
  <2>1. i * Capacity \in Nat /\ Count1(i) \in Nat /\ Count1(i) <= Capacity
    BY <1>5, <1>10, <1>12, <1>13, CapacityFact
  <2> HIDE DEF Count1
  <2>2. PICK k \in Nat : k < Count1(i) /\ r = i * Capacity + k
    <3>1. r - i * Capacity \in Nat /\ r - i * Capacity < Count1(i)
      BY <1>13, <2>1
    <3> QED
      BY <2>1, <3>1
  <2>3. r \div Capacity = i
    <3>1. i \in Nat /\ k < Capacity
      BY <2>1, <2>2, CapacityFact
    <3> QED
      BY <2>2, <3>1, Remainder, CapacityFact
  <2>4. CASE i = last
    <3>1. k < q
      BY <1>12, <1>13, <2>2, <2>4
    <3>2. last * Capacity \in Nat /\ r = last * Capacity + k
      BY <2>1, <2>2, <2>4
    <3> QED
      BY <1>5, <2>3, <3>1, <3>2
  <2>5. CASE i < last
    <3>1. i * Capacity + Capacity <= last * Capacity /\ last * Capacity \in Nat
      BY <2>5, NextStart
    <3> QED
      BY <1>5, <2>1, <2>2, <2>3, <3>1, CapacityFact
  <2> QED
    BY <2>3, <2>4, <2>5
<1>14. ASSUME L # 0, NEW r \in Nat, r < L, NEW i, i = r \div Capacity PROVE i \in 0 .. last /\ r \in Of(i)
  <2>1. PICK k \in Nat : i \in Nat /\ k < Capacity /\ r = i * Capacity + k
    <3>1. /\ r \div Capacity \in Nat /\ r % Capacity \in 0 .. Capacity - 1
          /\ r = (r \div Capacity) * Capacity + (r % Capacity)
      BY Divided, CapacityFact
    <3> QED
      BY <1>14, <3>1, CapacityFact
  <2>2. i * Capacity \in Nat
    BY <2>1, CapacityFact
  <2>3. ~(last < i)
    <3>1. ASSUME last < i PROVE FALSE
      <4>1. last * Capacity \in Nat /\ last * Capacity + Capacity <= i * Capacity
        BY <2>1, <3>1, NextStart
      <4> QED
        BY <1>5, <1>14, <2>1, <2>2, <4>1, CapacityFact
    <3> QED
      BY <3>1
  <2>4. i \in 0 .. last
    BY <2>1, <2>3
  <2>5. k < Count1(i)
    <3>1. CASE i = last
      BY <1>5, <1>12, <1>14, <2>1, <2>2, <3>1
    <3>2. CASE i # last
      BY <2>1, <2>3, <3>2
    <3> QED
      BY <3>1, <3>2
  <2> QED
    BY <1>10, <2>1, <2>2, <2>4, <2>5
<1> QED
  BY <1>9, <1>11, <1>13, <1>14
-----------------------------------------------------------------------------
(***************************************************************************)
(* Writing                                                                 *)
(***************************************************************************)
LEMMA ArrayValues ==
  ASSUME NEW r, NEW c, NEW h, Owns(r, c, h), NEW j \in Columns
  PROVE  /\ Contents(h, j, c[j]) \in Seq(Values) /\ Len(Contents(h, j, c[j])) = Len(c[j])
         /\ c[j] \in Seq(Fields) /\ Len(c[j]) <= Capacity
         /\ \A i \in DOMAIN c[j] : Contents(h, j, c[j])[i] = Read(h, j, c[j][i])
<1>1. ArrayOK(c) /\ h \in Heaps
  BY DEF Owns
<1>2. c[j] \in Seq(Fields) /\ Len(c[j]) <= Capacity /\ \A i \in DOMAIN c[j] : c[j][i] \in Field(j)
  BY <1>1 DEF ArrayOK
<1>3. ASSUME NEW i \in DOMAIN c[j] PROVE Read(h, j, c[j][i]) \in Values
  <2>1. CASE IsString(j)
    <3>1. c[j][i] \in DOMAIN h
      BY <2>1, OwnedFacts
    <3> QED
      BY <1>1, <2>1, <3>1 DEF Read, Heaps
  <2>2. CASE ~IsString(j)
    BY <1>2, <2>2 DEF Read, Field
  <2> QED
    BY <2>1, <2>2
<1>4. Contents(h, j, c[j]) = [i \in DOMAIN c[j] |-> Read(h, j, c[j][i])]
  BY DEF Contents, Read
<1>5. PICK m \in Nat : m = Len(c[j]) /\ DOMAIN c[j] = 1 .. m
  BY <1>2
<1>6. Contents(h, j, c[j]) \in [1 .. m -> Values]
  BY <1>3, <1>4, <1>5
<1> QED
  BY <1>2, <1>4, <1>5, <1>6

LEMMA RowValues ==
  ASSUME NEW r, NEW c, NEW h, Owns(r, c, h), NEW j \in Columns
  PROVE  /\ RowContents(h, r)[j] = Read(h, j, r[j])
         /\ r[j] # Null => Read(h, j, r[j]) \in Values
<1>1. RowOK(r) /\ h \in Heaps
  BY DEF Owns
<1>2. RowContents(h, r)[j] = Read(h, j, r[j])
  BY DEF RowContents, Read
<1>3. ASSUME r[j] # Null PROVE Read(h, j, r[j]) \in Values
  <2>1. CASE IsString(j)
    <3>1. r[j] \in DOMAIN h
      BY <1>3, <2>1, OwnedFacts
    <3> QED
      BY <1>1, <2>1, <3>1 DEF Read, Heaps
  <2>2. CASE ~IsString(j)
    BY <1>1, <1>3, <2>2 DEF RowOK, Read, Field
  <2> QED
    BY <2>1, <2>2
<1> QED
  BY <1>2, <1>3

\* The rows in a column's segments are among those it has got.
LEMMA SegmentRows ==
  ASSUME RangeInv, NEW j \in Columns, SegmentInv(j), ColumnInv(j), ~Published,
         Len(cache[0][j]) \in Nat, NEW s \in DOMAIN segments[j], NEW k \in DOMAIN segments[j][s]
  PROVE  (s - 1) * Capacity + k \in 1 .. Count(j)
<1>1. segments[j] \in Seq(Seq(Values))
  BY DEF RangeInv
<1>2. PICK m \in Nat : m = Len(segments[j]) /\ DOMAIN segments[j] = 1 .. m
  BY <1>1
<1>3. segments[j][s] \in Seq(Values)
  BY <1>1
<1>4. Len(segments[j][s]) = Capacity
  BY DEF SegmentInv
<1>5. k \in 1 .. Capacity
  BY <1>3, <1>4
<1>6. PICK p \in Nat : p = s - 1 /\ p < m
  BY <1>2
<1>7. p * Capacity \in Nat /\ m * Capacity \in Nat /\ p * Capacity + Capacity <= m * Capacity
  BY <1>6, NextStart
<1>8. PICK l \in Nat : Count(j) = m * Capacity + l
  BY <1>2 DEF ColumnInv
<1>9. PICK x \in Nat : x = p * Capacity /\ x + Capacity <= m * Capacity
  BY <1>7
<1>10. x + k \in 1 .. Count(j)
  BY <1>5, <1>7, <1>8, <1>9, CapacityFact
<1> QED
  BY <1>6, <1>9, <1>10

LEMMA SegmentSame ==
  ASSUME RangeInv, NEW j \in Columns, SegmentInv(j), ColumnInv(j), ~Published, ~Published',
         Len(cache[0][j]) \in Nat, segments'[j] = segments[j],
         \A i \in 1 .. Count(j) : written'[i] = written[i]
  PROVE  SegmentInv(j)'
<1>1. ASSUME NEW s \in DOMAIN segments[j], NEW k \in DOMAIN segments[j][s]
      PROVE  written'[(s - 1) * Capacity + k] = written[(s - 1) * Capacity + k]
  BY SegmentRows
<1> QED
  BY <1>1 DEF SegmentInv

\* What is in the array becomes the next segment.
LEMMA SegmentPut ==
  ASSUME RangeInv, NEW j \in Columns, SegmentInv(j), ColumnInv(j), ~Published,
         Owns(row[0], cache[0], heap[0]), written' = written,
         segments'[j] = Append(segments[j], Contents(heap[0], j, cache[0][j])),
         Len(cache[0][j]) = Capacity \/ Published'
  PROVE  /\ SegmentInv(j)' /\ segments'[j] \in Seq(Seq(Values))
         /\ Len(segments'[j]) = Len(segments[j]) + 1
         /\ segments'[j][Len(segments[j]) + 1] \in Seq(Values)
         /\ Len(segments'[j][Len(segments[j]) + 1]) = Len(cache[0][j])
<1>1. PICK new : new = Contents(heap[0], j, cache[0][j])
  OBVIOUS
<1>2. /\ new \in Seq(Values) /\ Len(new) = Len(cache[0][j]) /\ Len(new) <= Capacity
      /\ cache[0][j] \in Seq(Fields)
      /\ \A i \in DOMAIN cache[0][j] : new[i] = Read(heap[0], j, cache[0][j][i])
  BY <1>1, ArrayValues
<1>3. segments[j] \in Seq(Seq(Values))
  BY DEF RangeInv
<1>4. PICK m \in Nat : m = Len(segments[j]) /\ DOMAIN segments[j] = 1 .. m
  BY <1>3
<1>5. /\ segments'[j] \in Seq(Seq(Values)) /\ Len(segments'[j]) = m + 1
      /\ DOMAIN segments'[j] = 1 .. m + 1 /\ segments'[j][m + 1] = new
      /\ \A s \in 1 .. m : segments'[j][s] = segments[j][s]
  BY <1>1, <1>2, <1>3, <1>4
<1>6. DOMAIN new = DOMAIN cache[0][j]
  BY <1>2
<1>7. \A k \in DOMAIN new : new[k] = written[m * Capacity + k][j]
  BY <1>2, <1>4, <1>6 DEF ColumnInv
<1>8. ASSUME NEW s \in 1 .. m + 1
      PROVE  /\ Len(segments'[j][s]) <= Capacity
             /\ s < m + 1 \/ ~Published' => Len(segments'[j][s]) = Capacity
             /\ \A k \in DOMAIN segments'[j][s] :
                  segments'[j][s][k] = written[(s - 1) * Capacity + k][j]
  <2>1. CASE s = m + 1
    <3>1. s - 1 = m
      BY <2>1
    <3> QED
      BY <1>2, <1>5, <1>7, <2>1, <3>1
  <2>2. CASE s # m + 1
    <3>1. s \in DOMAIN segments[j] /\ segments'[j][s] = segments[j][s]
      BY <1>4, <1>5, <2>2
    <3> QED
      BY <3>1, CapacityFact DEF SegmentInv
  <2> QED
    BY <2>1, <2>2
<1>9. SegmentInv(j)'
  BY <1>5, <1>8 DEF SegmentInv
<1> QED
  BY <1>2, <1>4, <1>5, <1>9

\* The other nodes wait meanwhile.
LEMMA WhileWriting ==
  ASSUME IInv, ~Published,
         \A m \in Nodes \ {0} : /\ place'[m] = place[m] /\ heap'[m] = heap[m]
                                /\ row'[m] = row[m] /\ cache'[m] = cache[m],
         UNCHANGED <<cached, mode, todo, visited>>,
         place'[0] \in {"visit", "add", "frame"}, place'[0] = "frame" => row'[0] = Each(Null),
         RangeInv', WriterInv', FrameInv', \A j \in Columns : SegmentInv(j)' /\ ColumnInv(j)',
         Owns(row'[0], cache'[0], heap'[0])
  PROVE  IInv'
<1>1. place[0] \in {"visit", "add"}
  BY DEF Published
<1>2. ASSUME NEW n \in Nodes
      PROVE  /\ place[n] \in {"visit", "add", "wait"} /\ visited[n] = <<>> /\ mode[n] = Null
             /\ \A j \in Columns : cached[n][j] = Null
  <2>1. PlaceInv(n) /\ place[n] \in {"visit", "add", "wait", "frame", "map", "mapped", "aborted", "dropped"}
    BY DEF IInv, RangeInv
  <2> QED
    BY <1>1, <2>1 DEF PlaceInv
<1>3. ASSUME NEW n \in Nodes PROVE PlaceInv(n)'
  <2>1. PlaceInv(n)
    BY DEF IInv
  <2>2. CASE n = 0
    BY <1>2, <2>2 DEF PlaceInv, Published
  <2>3. CASE n # 0
    <3>1. place'[n] = "wait" /\ row'[n] = Each(Null)
      BY <1>2, <2>1, <2>3 DEF PlaceInv
    <3> QED
      BY <1>2, <2>3, <3>1 DEF PlaceInv
  <2> QED
    BY <2>2, <2>3
<1>4. ASSUME NEW n \in Nodes PROVE ReaderInv(n)'
  <2>1. place'[n] # "map"
    BY <1>2
  <2> QED
    BY <2>1 DEF ReaderInv
<1>5. ASSUME NEW n \in Nodes PROVE VisitInv(n)'
  <2>1. mode'[n] = Null /\ visited'[n] = <<>>
    BY <1>2
  <2> QED
    BY <2>1, Constants DEF VisitInv
<1>6. ASSUME NEW n \in Nodes PROVE Owns(row[n], cache[n], heap[n])'
  BY DEF IInv
<1> QED
  BY <1>3, <1>4, <1>5, <1>6 DEF IInv

\* What the actions of the Writer start from.
LEMMA WriterFacts ==
  ASSUME IInv, place[0] \in {"visit", "add"}
  PROVE  /\ ~Published /\ RangeInv /\ WriterInv /\ Owns(row[0], cache[0], heap[0])
         /\ \A j \in Columns : /\ SegmentInv(j) /\ ColumnInv(j)
                               /\ cache[0][j] \in Seq(Fields) /\ Len(cache[0][j]) \in Nat
                               /\ Len(cache[0][j]) <= Capacity
         /\ DOMAIN place = Nodes /\ DOMAIN heap = Nodes /\ DOMAIN row = Nodes
         /\ DOMAIN cache = Nodes /\ DOMAIN col = Nodes /\ 0 \in Nodes
         /\ Len(written) \in Nat /\ col[0] \in 1 .. Len(Types) + 1
<1>1. Owns(row[0], cache[0], heap[0]) /\ 0 \in Nodes /\ RangeInv /\ WriterInv /\ ~Published
  BY Constants DEF IInv, Published
<1>2. ASSUME NEW j \in Columns
      PROVE  cache[0][j] \in Seq(Fields) /\ Len(cache[0][j]) \in Nat /\ Len(cache[0][j]) <= Capacity
  BY <1>1, ArrayValues
<1> QED
  BY <1>1, <1>2 DEF IInv, RangeInv

\* A node's strings keep the types of the variables they are in.
LEMMA OwnsRange ==
  ASSUME NEW r, NEW c, NEW h, Owns(r, c, h)
  PROVE  r \in [Columns -> Fields] /\ c \in [Columns -> Seq(Fields)] /\ h \in Heaps
BY DEF Owns, RowOK, ArrayOK

LEMMA VisitStep ==
  ASSUME IInv, Visit
  PROVE  IInv'
<1>1. PICK j \in Columns : j = col[0] /\ j \in Nat
  BY Constants DEF Visit
<1>2. place[0] = "visit" /\ place' = place /\ col' = [col EXCEPT ![0] = j + 1]
  BY <1>1 DEF Visit
<1>3. UNCHANGED <<cache, cached, segments, mode, todo, written, visited>>
  BY DEF Visit
<1>4. /\ ~Published /\ RangeInv /\ WriterInv /\ Owns(row[0], cache[0], heap[0])
      /\ \A k \in Columns : SegmentInv(k) /\ ColumnInv(k) /\ Len(cache[0][k]) \in Nat
      /\ DOMAIN heap = Nodes /\ DOMAIN row = Nodes /\ DOMAIN col = Nodes /\ 0 \in Nodes
      /\ Len(written) \in Nat /\ Columns = 1 .. Len(Types) /\ Len(Types) \in Nat
  BY <1>2, WriterFacts, Constants
<1>5. PICK r2, h2 : /\ row' = [row EXCEPT ![0] = r2] /\ heap' = [heap EXCEPT ![0] = h2]
                    /\ Owns(r2, cache[0], h2) /\ r2[j] # Null
                    /\ \A k \in Columns \ {j} : r2[k] = row[0][k]
                    /\ \A k \in Columns : SameArray(cache[0], heap[0], h2, k)
  <2>1. CASE row[0][j] # Null /\ UNCHANGED <<heap, row>>
    <3>1. row' = [row EXCEPT ![0] = row[0]] /\ heap' = [heap EXCEPT ![0] = heap[0]]
      BY <1>4, <2>1 DEF RangeInv
    <3> QED
      BY <1>4, <2>1, <3>1 DEF SameArray
  <2>2. CASE ~(row[0][j] # Null /\ UNCHANGED <<heap, row>>)
    <3>1. PICK v : v = <<Len(written), j>>
      OBVIOUS
    <3>2. PICK r2, h2 : r2 = SetField(heap[0], row[0], j, v).row /\ h2 = SetField(heap[0], row[0], j, v).heap
      OBVIOUS
    <3>3. row' = [row EXCEPT ![0] = r2] /\ heap' = [heap EXCEPT ![0] = h2]
      BY <1>1, <2>2, <3>1, <3>2 DEF Visit
    <3>4. v \in Values
      BY <1>1, <1>4, <3>1 DEF Values
    <3>5. /\ Owns(r2, cache[0], h2) /\ r2[j] # Null
          /\ \A k \in Columns \ {j} : r2[k] = row[0][k] /\ SameField(row[0], heap[0], h2, k)
          /\ \A k \in Columns : SameArray(cache[0], heap[0], h2, k)
      BY <1>4, <3>2, <3>4, FieldSet
    <3> QED
      BY <3>3, <3>5
  <2> QED
    BY <2>1, <2>2
<1>6. RangeInv'
  <2>1. r2 \in [Columns -> Fields] /\ h2 \in Heaps
    BY <1>5, OwnsRange
  <2>2. j + 1 \in 1 .. Len(Types) + 1
    BY <1>4
  <2> QED
    BY <1>2, <1>3, <1>4, <1>5, <2>1, <2>2 DEF RangeInv
<1>7. WriterInv'
  <2>1. ASSUME NEW k \in Columns, k < j + 1 PROVE r2[k] # Null
    <3>1. k = j \/ k < j
      BY <1>1, <1>4, <2>1
    <3> QED
      BY <1>1, <1>2, <1>4, <1>5, <3>1 DEF WriterInv
  <2> QED
    BY <1>2, <1>4, <1>5, <2>1 DEF WriterInv
<1>8. ~Published'
  BY <1>2 DEF Published
<1>9. ASSUME NEW k \in Columns PROVE SegmentInv(k)' /\ ColumnInv(k)'
  <2>1. SegmentInv(k)'
    BY <1>3, <1>4, <1>8, SegmentSame
  <2>2. Count(k)' = Count(k)
    BY <1>2, <1>3 DEF Count
  <2>3. \A i \in DOMAIN cache[0][k] : Read(heap'[0], k, cache[0][k][i]) = Read(heap[0], k, cache[0][k][i])
    BY <1>4, <1>5 DEF SameArray
  <2>4. ColumnInv(k)
    BY <1>4
  <2> QED
    BY <1>3, <1>4, <2>1, <2>2, <2>3, <2>4 DEF ColumnInv
<1>10. FrameInv'
  BY <1>8 DEF FrameInv
<1>11. Owns(row'[0], cache'[0], heap'[0])
  BY <1>3, <1>4, <1>5
<1> QED
  BY <1>2, <1>3, <1>4, <1>5, <1>6, <1>7, <1>9, <1>10, <1>11, WhileWriting

LEMMA VisitedStep ==
  ASSUME IInv, Visited
  PROVE  IInv'
<1>1. /\ place[0] = "visit" /\ place' = [place EXCEPT ![0] = "add"]
      /\ col[0] \notin Columns /\ col' = [col EXCEPT ![0] = 1]
      /\ written' = Append(written, RowContents(heap[0], row[0]))
      /\ UNCHANGED <<heap, row, cache, cached, segments, mode, todo, visited>>
  BY DEF Visited
<1>2. /\ ~Published /\ RangeInv /\ WriterInv /\ Owns(row[0], cache[0], heap[0])
      /\ \A k \in Columns : SegmentInv(k) /\ ColumnInv(k) /\ Len(cache[0][k]) \in Nat
      /\ DOMAIN place = Nodes /\ DOMAIN col = Nodes /\ 0 \in Nodes
      /\ col[0] \in 1 .. Len(Types) + 1
      /\ Columns = 1 .. Len(Types) /\ Len(Types) \in Nat /\ 1 \in Columns
  BY <1>1, WriterFacts, Constants
<1>3. PICK x : x = RowContents(heap[0], row[0])
  OBVIOUS
<1>4. col[0] = Len(Types) + 1
  BY <1>1, <1>2
<1>5. ASSUME NEW j \in Columns
      PROVE  row[0][j] # Null /\ x[j] = Read(heap[0], j, row[0][j]) /\ x[j] \in Values
  <2>1. j < col[0]
    BY <1>2, <1>4
  <2>2. row[0][j] # Null
    BY <1>1, <1>2, <2>1 DEF WriterInv
  <2> QED
    BY <1>2, <1>3, <2>2, RowValues
<1>6. x \in [Columns -> Values]
  BY <1>3, <1>5 DEF RowContents
<1>7. written \in Seq([Columns -> Values])
  BY <1>2 DEF RangeInv
<1>8. PICK L \in Nat : L = Len(written)
  BY <1>7
<1>9. /\ written' \in Seq([Columns -> Values]) /\ Len(written') = L + 1
      /\ written'[L + 1] = x /\ \A i \in 1 .. L : written'[i] = written[i]
  BY <1>1, <1>3, <1>6, <1>7, <1>8
<1>10. RangeInv'
  BY <1>1, <1>2, <1>9 DEF RangeInv
<1>11. WriterInv'
  <2>1. place'[0] = "add"
    BY <1>1, <1>2
  <2>2. written' # <<>>
    BY <1>8, <1>9
  <2> QED
    BY <1>1, <1>5, <1>9, <2>1, <2>2 DEF WriterInv
<1>12. ~Published' /\ place'[0] = "add" /\ col'[0] = 1
  BY <1>1, <1>2 DEF Published
<1>13. ASSUME NEW k \in Columns PROVE SegmentInv(k)' /\ ColumnInv(k)'
  <2>1. Count(k) = L
    BY <1>1, <1>8 DEF Count
  <2>2. SegmentInv(k)'
    BY <1>1, <1>2, <1>9, <1>12, <2>1, SegmentSame
  <2>3. Count(k)' = L
    BY <1>2, <1>8, <1>9, <1>12 DEF Count
  <2>4. /\ L = Len(segments[k]) * Capacity + Len(cache[0][k])
        /\ cache[0][k] = <<>> => segments[k] = <<>>
        /\ \A i \in DOMAIN cache[0][k] :
             Read(heap[0], k, cache[0][k][i]) = written[Len(segments[k]) * Capacity + i][k]
    BY <1>2, <2>1 DEF ColumnInv
  <2>5. ASSUME NEW i \in DOMAIN cache[0][k] PROVE Len(segments[k]) * Capacity + i \in 1 .. L
    <3>1. PICK m \in Nat : m = Len(segments[k])
      BY <1>2 DEF RangeInv
    <3>2. PICK x1 \in Nat : x1 = m * Capacity
      BY CapacityFact
    <3>3. PICK l \in Nat : l = Len(cache[0][k]) /\ i \in 1 .. l
      BY <1>1, <1>2, WriterFacts
    <3>4. L = x1 + l
      BY <2>4, <3>1, <3>2, <3>3
    <3> QED
      BY <3>1, <3>2, <3>3, <3>4
  <2> QED
    BY <1>1, <1>9, <2>2, <2>3, <2>4, <2>5 DEF ColumnInv
<1>14. FrameInv'
  BY <1>12 DEF FrameInv
<1> QED
  BY <1>1, <1>2, <1>10, <1>11, <1>12, <1>13, <1>14, WhileWriting

LEMMA AddToColumnStep ==
  ASSUME IInv, AddToColumn
  PROVE  IInv'
<1>1. PICK j \in Columns : j = col[0] /\ j \in Nat
  BY Constants DEF AddToColumn
<1>2. place[0] = "add" /\ place' = place /\ col' = [col EXCEPT ![0] = j + 1]
  BY <1>1 DEF AddToColumn
<1>3. UNCHANGED <<row, cached, mode, todo, written, visited>>
  BY DEF AddToColumn
<1>4. /\ ~Published /\ RangeInv /\ WriterInv /\ Owns(row[0], cache[0], heap[0])
      /\ \A k \in Columns : /\ SegmentInv(k) /\ ColumnInv(k)
                            /\ cache[0][k] \in Seq(Fields) /\ Len(cache[0][k]) \in Nat
                            /\ Len(cache[0][k]) <= Capacity
      /\ DOMAIN heap = Nodes /\ DOMAIN cache = Nodes /\ DOMAIN col = Nodes /\ 0 \in Nodes
      /\ Columns = 1 .. Len(Types) /\ Len(Types) \in Nat
  BY <1>2, WriterFacts, Constants
<1>5. ~Published'
  BY <1>2 DEF Published
<1>6. PICK L \in Nat : L = Len(written) /\ L # 0
  <2>1. written \in Seq([Columns -> Values]) /\ written # <<>>
    BY <1>2, <1>4 DEF RangeInv, WriterInv
  <2> QED
    BY <2>1
<1>7. PICK v \in Values : v = written[L][j] /\ v = RowContents(heap[0], row[0])[j]
  <2>1. row[0][j] # Null /\ Read(heap[0], j, row[0][j]) = written[L][j]
    BY <1>2, <1>4, <1>6 DEF WriterInv
  <2> QED
    BY <1>4, <2>1, RowValues
<1> DEFINE full == Len(cache[0][j]) = Capacity
<1>8. PICK c1, h1 :
        /\ Owns(row[0], c1, h1) /\ Len(c1[j]) < Capacity
        /\ c1 = IF full THEN Put(cache[0], j, <<>>) ELSE cache[0]
        /\ h1 = IF full THEN Delete(heap[0], ArrayStrings(j, cache[0][j])) ELSE heap[0]
        /\ c1[j] = IF full THEN <<>> ELSE cache[0][j]
        /\ \A k \in Columns : SameField(row[0], heap[0], h1, k)
        /\ \A k \in Columns \ {j} : c1[k] = cache[0][k] /\ SameArray(cache[0], heap[0], h1, k)
        /\ full \/ SameArray(cache[0], heap[0], h1, j)
  <2>1. CASE full
    <3>1. PICK c1, h1 : /\ c1 = Put(cache[0], j, <<>>)
                        /\ h1 = Delete(heap[0], ArrayStrings(j, cache[0][j]))
      OBVIOUS
    <3>2. Owns(row[0], cache[0], heap[0])
      BY <1>4
    <3>3. /\ Owns(row[0], c1, h1) /\ c1[j] = <<>>
          /\ \A k \in Columns : SameField(row[0], heap[0], h1, k)
          /\ \A k \in Columns \ {j} : c1[k] = cache[0][k] /\ SameArray(cache[0], heap[0], h1, k)
      BY <3>1, <3>2, Emptied
    <3>4. Len(c1[j]) < Capacity
      BY <3>3, CapacityFact
    <3> QED
      BY <2>1, <3>1, <3>3, <3>4
  <2>2. CASE ~full
    <3>1. Len(cache[0][j]) < Capacity
      BY <1>4, <2>2, CapacityFact
    <3> QED
      BY <1>4, <2>2, <3>1 DEF SameField, SameArray
  <2> QED
    BY <2>1, <2>2
<1>9. PICK x, h2, c2 :
        /\ x = Stored(h1, j, v).field /\ h2 = Stored(h1, j, v).heap
        /\ c2 = Put(c1, j, Append(c1[j], x))
  OBVIOUS
<1>10. /\ Owns(row[0], c2, h2) /\ c2[j] = Append(c1[j], x) /\ Read(h2, j, x) = v
       /\ \A k \in Columns : SameField(row[0], h1, h2, k) /\ SameArray(c1, h1, h2, k)
       /\ \A k \in Columns \ {j} : c2[k] = c1[k]
  <2>1. Owns(row[0], c1, h1) /\ Len(c1[j]) < Capacity
    BY <1>8
  <2> QED
    BY <1>9, <2>1, Pushed
<1>11. DOMAIN cache[0] = Columns /\ c2 \in [Columns -> Seq(Fields)] /\ h2 \in Heaps
  BY <1>4, <1>10, OwnsRange DEF RangeInv
<1>12. heap' = [heap EXCEPT ![0] = h2]
  BY <1>1, <1>7, <1>8, <1>9 DEF AddToColumn
<1>13. cache' = [cache EXCEPT ![0] = c2]
  <2>1. cache' = [cache EXCEPT ![0][j] = IF full THEN <<x>> ELSE Append(@, x)]
    BY <1>1, <1>7, <1>8, <1>9 DEF AddToColumn
  <2>2. c2 = [cache[0] EXCEPT ![j] = IF full THEN <<x>> ELSE Append(@, x)]
    <3>1. CASE full
      <4>1. c1 = [cache[0] EXCEPT ![j] = <<>>] /\ c1[j] = <<>>
        BY <1>8, <3>1 DEF Put
      <4>2. c2 = [c1 EXCEPT ![j] = <<x>>]
        BY <1>9, <4>1 DEF Put
      <4> QED
        BY <3>1, <4>1, <4>2
    <3>2. CASE ~full
      BY <1>8, <1>9, <3>2 DEF Put
    <3> QED
      BY <3>1, <3>2
  <2> QED
    BY <2>1, <2>2
<1>14. segments' = IF full
                   THEN [segments EXCEPT ![j] = Append(@, Contents(heap[0], j, cache[0][j]))]
                   ELSE segments
  BY <1>1 DEF AddToColumn
<1> HIDE DEF full
<1>15. /\ DOMAIN segments = Columns /\ segments \in [Columns -> Seq(Seq(Values))]
       /\ heap'[0] = h2 /\ cache'[0] = c2 /\ col'[0] = j + 1
  BY <1>2, <1>4, <1>12, <1>13 DEF RangeInv
<1>16. \A k \in Columns \ {j} : segments'[k] = segments[k]
  BY <1>14, <1>15
<1>17. ASSUME full
       PROVE  /\ SegmentInv(j)' /\ segments'[j] \in Seq(Seq(Values))
              /\ Len(segments'[j]) = Len(segments[j]) + 1
  <2>1. segments'[j] = Append(segments[j], Contents(heap[0], j, cache[0][j]))
    BY <1>14, <1>15, <1>17
  <2> QED
    BY <1>3, <1>4, <1>17, <2>1, SegmentPut DEF full
<1>18. segments' \in [Columns -> Seq(Seq(Values))]
  <2>1. CASE full
    BY <1>14, <1>15, <1>16, <1>17, <2>1
  <2>2. CASE ~full
    BY <1>14, <1>15, <2>2
  <2> QED
    BY <2>1, <2>2
<1>19. RangeInv'
  <2>1. j + 1 \in 1 .. Len(Types) + 1
    BY <1>4
  <2> QED
    BY <1>2, <1>3, <1>4, <1>11, <1>12, <1>13, <1>18, <2>1 DEF RangeInv
<1>20. WriterInv'
  BY <1>2, <1>3, <1>4, <1>8, <1>10, <1>15 DEF WriterInv, SameField
<1>21. FrameInv'
  BY <1>5 DEF FrameInv
<1>22. ASSUME NEW k \in Columns, k # j PROVE SegmentInv(k)' /\ ColumnInv(k)'
  <2>1. SegmentInv(k)'
    BY <1>3, <1>4, <1>5, <1>16, <1>22, SegmentSame
  <2>2. Count(k)' = Count(k)
    <3>1. k >= j <=> k >= j + 1
      BY <1>1, <1>4, <1>22
    <3> QED
      BY <1>1, <1>2, <1>3, <1>15, <3>1 DEF Count
  <2>3. cache'[0][k] = cache[0][k] /\ SameArray(cache[0], heap[0], heap'[0], k)
    <3>1. c1[k] = cache[0][k] /\ c2[k] = c1[k]
      BY <1>8, <1>10, <1>22
    <3>2. SameArray(cache[0], heap[0], h1, k) /\ SameArray(c1, h1, h2, k)
      BY <1>8, <1>10, <1>22
    <3> QED
      BY <1>15, <3>1, <3>2 DEF SameArray
  <2>4. ColumnInv(k)
    BY <1>4
  <2> QED
    BY <1>3, <1>4, <1>16, <1>22, <2>1, <2>2, <2>3, <2>4 DEF ColumnInv, SameArray
<1>23. SegmentInv(j)'
  BY <1>3, <1>4, <1>5, <1>14, <1>17, SegmentSame
<1>24. ColumnInv(j)'
  <2>1. PICK m \in Nat, l \in Nat : m = Len(segments[j]) /\ l = Len(cache[0][j])
    BY <1>4 DEF RangeInv
  <2>2. Count(j) = L - 1 /\ Count(j)' = L
    BY <1>1, <1>2, <1>3, <1>6, <1>15 DEF Count
  <2>3. PICK p \in Nat : p = m * Capacity /\ L = p + l + 1
    <3>1. Count(j) = m * Capacity + l
      BY <1>4, <2>1 DEF ColumnInv
    <3> QED
      <4>1. PICK p \in Nat : p = m * Capacity
        BY CapacityFact
      <4>2. L - 1 = p + l
        BY <2>2, <3>1, <4>1
      <4>3. L = p + l + 1
        BY <4>2
      <4> QED
        BY <4>1, <4>3
  <2>4. \A i \in DOMAIN cache[0][j] : Read(heap[0], j, cache[0][j][i]) = written[p + i][j]
    BY <1>4, <2>1, <2>3 DEF ColumnInv
  <2>5. CASE full
    <3>1. c2[j] = <<x>> /\ Read(h2, j, x) = v
      BY <1>8, <1>10, <2>5
    <3>2. Len(segments'[j]) * Capacity = p + l
      <4>1. Len(segments'[j]) = m + 1 /\ l = Capacity
        BY <1>17, <2>1, <2>5 DEF full
      <4>2. (m + 1) * Capacity = m * Capacity + Capacity
        BY <2>1, CapacityFact
      <4> QED
        BY <2>3, <4>1, <4>2
    <3>3. (p + l) + 1 = L
      BY <2>3
    <3>4. L = Len(segments'[j]) * Capacity + 1
      BY <3>2, <3>3
    <3>5. written[Len(segments'[j]) * Capacity + 1][j] = v
      BY <1>7, <3>4
    <3> QED
      BY <1>3, <1>15, <2>2, <3>1, <3>4, <3>5 DEF ColumnInv
  <2>6. CASE ~full
    <3>1. c2[j] = Append(cache[0][j], x) /\ Read(h2, j, x) = v
      BY <1>8, <1>10, <2>6
    <3>2. segments'[j] = segments[j]
      BY <1>14, <2>6
    <3>3. /\ Len(c2[j]) = l + 1 /\ DOMAIN c2[j] = 1 .. l + 1 /\ c2[j][l + 1] = x
          /\ DOMAIN cache[0][j] = 1 .. l /\ \A i \in 1 .. l : c2[j][i] = cache[0][j][i]
      <4>1. PICK y : y = cache[0][j]
        OBVIOUS
      <4>2. y \in Seq(Fields) /\ Len(y) = l /\ c2[j] = Append(y, x)
        BY <1>4, <2>1, <3>1, <4>1
      <4>3. c2[j] \in Seq(Fields)
        BY <1>11
      <4>4. x \in Fields
        BY <1>10, <4>2, <4>3
      <4> QED
        BY <2>1, <4>1, <4>2, <4>4
    <3>4. ASSUME NEW i \in DOMAIN c2[j] PROVE Read(h2, j, c2[j][i]) = written[p + i][j]
      <4>1. CASE i = l + 1
        <5>1. p + i = L
          BY <2>1, <2>3, <4>1
        <5> QED
          BY <1>7, <3>1, <3>3, <4>1, <5>1
      <4>2. CASE i # l + 1
        <5>1. i \in 1 .. l
          BY <2>1, <3>3, <4>2
        <5>2. SameArray(cache[0], heap[0], h2, j)
          BY <1>8, <1>10, <2>6 DEF SameArray
        <5> QED
          BY <2>4, <3>3, <5>1, <5>2 DEF SameArray
      <4> QED
        BY <4>1, <4>2
    <3>5. c2[j] # <<>>
      BY <2>1, <3>3
    <3>6. L = p + Len(c2[j])
      <4>1. p + l + 1 = p + (l + 1)
        OBVIOUS
      <4> QED
        BY <2>3, <3>3, <4>1
    <3> QED
      BY <1>3, <1>15, <2>1, <2>2, <2>3, <3>2, <3>4, <3>5, <3>6 DEF ColumnInv
  <2> QED
    BY <2>5, <2>6
<1>25. Owns(row'[0], cache'[0], heap'[0])
  BY <1>3, <1>10, <1>15
<1> QED
  BY <1>2, <1>3, <1>4, <1>12, <1>13, <1>19, <1>20, <1>21, <1>22, <1>23, <1>24, <1>25, WhileWriting

LEMMA AddedStep ==
  ASSUME IInv, Added
  PROVE  IInv'
<1>1. /\ place[0] = "add" /\ place' = [place EXCEPT ![0] = "visit"]
      /\ col[0] \notin Columns /\ col' = [col EXCEPT ![0] = 1]
      /\ UNCHANGED <<heap, row, cache, cached, segments, mode, todo, written, visited>>
  BY DEF Added
<1>2. /\ ~Published /\ RangeInv /\ WriterInv /\ Owns(row[0], cache[0], heap[0])
      /\ \A k \in Columns : SegmentInv(k) /\ ColumnInv(k) /\ Len(cache[0][k]) \in Nat
      /\ DOMAIN place = Nodes /\ DOMAIN col = Nodes /\ 0 \in Nodes
      /\ col[0] \in 1 .. Len(Types) + 1
      /\ Columns = 1 .. Len(Types) /\ Len(Types) \in Nat \ {0} /\ 1 \in Columns
  BY <1>1, WriterFacts, Constants
<1>3. place'[0] = "visit" /\ col'[0] = 1 /\ ~Published'
  BY <1>1, <1>2 DEF Published
<1>4. RangeInv'
  BY <1>1, <1>2 DEF RangeInv
<1>5. WriterInv'
  BY <1>2, <1>3 DEF WriterInv
<1>6. ASSUME NEW k \in Columns PROVE SegmentInv(k)' /\ ColumnInv(k)'
  <2>1. Count(k)' = Count(k)
    <3>1. ~(k >= col[0])
      BY <1>1, <1>2
    <3> QED
      BY <1>1, <1>3, <3>1 DEF Count
  <2>2. SegmentInv(k)'
    BY <1>1, <1>2, <1>3, SegmentSame
  <2>3. ColumnInv(k)
    BY <1>2
  <2> QED
    BY <1>1, <1>2, <2>1, <2>2, <2>3 DEF ColumnInv
<1>7. FrameInv'
  BY <1>3 DEF FrameInv
<1> QED
  BY <1>1, <1>2, <1>3, <1>4, <1>5, <1>6, <1>7, WhileWriting

LEMMA PublishStep ==
  ASSUME IInv, Publish
  PROVE  IInv'
<1>1. PICK r2, h2 : r2 = Each(Null) /\ h2 = Delete(heap[0], RowStrings(row[0]))
  OBVIOUS
<1>2. /\ place[0] = "visit" /\ place' = [place EXCEPT ![0] = "frame"] /\ col[0] = 1
      /\ row' = [row EXCEPT ![0] = r2] /\ heap' = [heap EXCEPT ![0] = h2]
      /\ segments' = [j \in Columns |-> Append(segments[j], Contents(heap[0], j, cache[0][j]))]
      /\ UNCHANGED <<cache, cached, col, mode, todo, written, visited>>
  BY <1>1 DEF Publish
<1>3. /\ ~Published /\ RangeInv /\ WriterInv /\ Owns(row[0], cache[0], heap[0])
      /\ \A k \in Columns : /\ SegmentInv(k) /\ ColumnInv(k) /\ Len(cache[0][k]) \in Nat
                            /\ cache[0][k] \in Seq(Fields)
      /\ DOMAIN place = Nodes /\ DOMAIN heap = Nodes /\ DOMAIN row = Nodes /\ 0 \in Nodes
  BY <1>2, WriterFacts
<1>4. Owns(r2, cache[0], h2)
  <2>1. Owns(row[0], cache[0], heap[0])
    BY <1>3
  <2> QED
    BY <1>1, <2>1, RowCleared
<1>5. place'[0] = "frame" /\ row'[0] = r2 /\ heap'[0] = h2 /\ Published'
  BY <1>2, <1>3 DEF Published
<1>6. ASSUME NEW j \in Columns
      PROVE  /\ SegmentInv(j)' /\ segments'[j] \in Seq(Seq(Values)) /\ segments[j] \in Seq(Seq(Values))
             /\ Len(segments'[j]) = Len(segments[j]) + 1
             /\ segments'[j][Len(segments[j]) + 1] \in Seq(Values)
             /\ Len(segments'[j][Len(segments[j]) + 1]) = Len(cache[0][j])
  BY <1>2, <1>3, <1>5, SegmentPut DEF RangeInv
<1>7. RangeInv'
  <2>1. r2 \in [Columns -> Fields] /\ h2 \in Heaps
    BY <1>4, OwnsRange
  <2>2. segments' \in [Columns -> Seq(Seq(Values))]
    BY <1>2, <1>6
  <2> QED
    BY <1>2, <1>3, <2>1, <2>2 DEF RangeInv
<1>8. WriterInv'
  BY <1>5 DEF WriterInv
<1>9. ASSUME NEW j \in Columns PROVE Complete(j, Len(written))'
  <2>1. PICK m \in Nat : m = Len(segments[j])
    BY <1>6
  <2>2. Len(segments'[j]) = m + 1 /\ Len(segments'[j][m + 1]) = Len(cache[0][j])
    BY <1>6, <2>1
  <2>3. segments'[j] # <<>>
    BY <2>1, <2>2
  <2>4. Count(j) = m * Capacity + Len(cache[0][j]) /\ (cache[0][j] = <<>> => segments[j] = <<>>)
    BY <1>3, <2>1 DEF ColumnInv
  <2>5. Count(j) = Len(written)
    BY <1>2 DEF Count
  <2>6. ASSUME segments'[j][m + 1] = <<>> PROVE m = 0
    <3>1. Len(cache[0][j]) = 0
      BY <2>2, <2>6
    <3>2. cache[0][j] = <<>>
      BY <1>3, <3>1, Empty
    <3> QED
      BY <2>1, <2>4, <3>2
  <2>7. Len(segments'[j]) - 1 = m
    BY <2>1, <2>2
  <2>8. written' = written
    BY <1>2
  <2> QED
    BY <2>2, <2>3, <2>4, <2>5, <2>6, <2>7, <2>8 DEF Complete
<1>10. FrameInv'
  BY <1>9 DEF FrameInv
<1>11. ASSUME NEW j \in Columns PROVE SegmentInv(j)' /\ ColumnInv(j)'
  BY <1>5, <1>6 DEF ColumnInv
<1>12. Owns(row'[0], cache'[0], heap'[0])
  BY <1>2, <1>4, <1>5
<1> QED
  BY <1>1, <1>2, <1>3, <1>5, <1>7, <1>8, <1>10, <1>11, <1>12, WhileWriting
-----------------------------------------------------------------------------
(***************************************************************************)
(* Reading                                                                 *)
(***************************************************************************)
\* What a node visited, and has left, is seen in these variables only.
LEMMA VisitSame ==
  ASSUME NEW n \in Nodes, VisitInv(n), UNCHANGED <<segments, written>>,
         mode'[n] = mode[n], todo'[n] = todo[n], visited'[n] = visited[n],
         cached'[n] = cached[n]
  PROVE  VisitInv(n)'
<1>1. LocalIndices(n)' = LocalIndices(n)
  BY DEF LocalIndices, Home
<1> QED
  BY <1>1 DEF VisitInv, Home

\* Once the frame is in the store, a node's step is nobody else's business.
LEMMA AfterPublished ==
  ASSUME IInv, Published, NEW n \in Nodes, UNCHANGED <<segments, written>>,
         \A m \in Nodes \ {n} :
           /\ place'[m] = place[m] /\ heap'[m] = heap[m] /\ row'[m] = row[m]
           /\ cache'[m] = cache[m] /\ cached'[m] = cached[m] /\ col'[m] = col[m]
           /\ mode'[m] = mode[m] /\ todo'[m] = todo[m] /\ visited'[m] = visited[m],
         place'[n] \notin {"visit", "add"}, RangeInv', Owns(row'[n], cache'[n], heap'[n]),
         PlaceInv(n)', ReaderInv(n)', VisitInv(n)'
  PROVE  IInv'
<1>1. Published'
  BY Constants DEF Published
<1>2. WriterInv' /\ FrameInv'
  <2>1. \A j \in Columns : Complete(j, Len(written))
    BY DEF IInv, FrameInv
  <2> QED
    BY <1>1, <2>1 DEF WriterInv, FrameInv, Complete, Published
<1>3. ASSUME NEW j \in Columns PROVE SegmentInv(j)' /\ ColumnInv(j)'
  <2>1. SegmentInv(j)
    BY DEF IInv
  <2> QED
    BY <1>1, <2>1 DEF SegmentInv, ColumnInv
<1>4. ASSUME NEW m \in Nodes, m # n
      PROVE  Owns(row[m], cache[m], heap[m])' /\ PlaceInv(m)' /\ ReaderInv(m)' /\ VisitInv(m)'
  <2>1. Owns(row[m], cache[m], heap[m]) /\ PlaceInv(m) /\ ReaderInv(m) /\ VisitInv(m)
    BY DEF IInv
  <2>2. /\ place'[m] = place[m] /\ heap'[m] = heap[m] /\ row'[m] = row[m]
        /\ cache'[m] = cache[m] /\ cached'[m] = cached[m] /\ col'[m] = col[m]
        /\ mode'[m] = mode[m] /\ todo'[m] = todo[m] /\ visited'[m] = visited[m]
        /\ segments' = segments /\ written' = written
    BY <1>4
  <2>3. Owns(row[m], cache[m], heap[m])'
    BY <2>1, <2>2
  <2>4. PlaceInv(m)'
    BY <1>1, <2>1, <2>2 DEF PlaceInv
  <2>5. ReaderInv(m)'
    BY <2>1, <2>2 DEF ReaderInv, Current
  <2>6. VisitInv(m)'
    BY <2>1, <2>2, VisitSame
  <2> QED
    BY <2>3, <2>4, <2>5, <2>6
<1> QED
  BY <1>2, <1>3, <1>4 DEF IInv

\* What the actions of a Reader start from.
LEMMA ReaderFacts ==
  ASSUME IInv, NEW n \in Nodes, place[n] \notin {"visit", "add"}
  PROVE  /\ Published \/ place[n] = "wait"
         /\ RangeInv /\ Owns(row[n], cache[n], heap[n])
         /\ PlaceInv(n) /\ ReaderInv(n) /\ VisitInv(n)
         /\ DOMAIN place = Nodes /\ DOMAIN heap = Nodes /\ DOMAIN row = Nodes
         /\ DOMAIN cache = Nodes /\ DOMAIN cached = Nodes /\ DOMAIN col = Nodes
         /\ DOMAIN mode = Nodes /\ DOMAIN todo = Nodes /\ DOMAIN visited = Nodes
         /\ Len(written) \in Nat /\ todo[n] \subseteq Nat
         /\ \A j \in Columns : /\ Published => Complete(j, Len(written))
                               /\ SegmentInv(j)
<1>1. /\ RangeInv /\ Owns(row[n], cache[n], heap[n])
      /\ PlaceInv(n) /\ ReaderInv(n) /\ VisitInv(n)
      /\ \A j \in Columns : SegmentInv(j) /\ (Published => Complete(j, Len(written)))
  BY DEF IInv, FrameInv
<1>2. Published \/ place[n] = "wait"
  BY <1>1 DEF PlaceInv
<1> QED
  BY <1>1, <1>2 DEF RangeInv

LEMMA ReceiveStep ==
  ASSUME IInv, NEW n \in Nodes, Receive(n)
  PROVE  IInv'
<1>1. /\ place[n] = "wait" /\ place' = [place EXCEPT ![n] = "frame"] /\ Published
      /\ UNCHANGED <<heap, row, cache, cached, col, segments, mode, todo, written, visited>>
  BY DEF Receive
<1>2. /\ RangeInv /\ Owns(row[n], cache[n], heap[n]) /\ DOMAIN place = Nodes
      /\ PlaceInv(n) /\ VisitInv(n)
  BY <1>1, ReaderFacts
<1>3. place'[n] = "frame" /\ n # 0 /\ Published'
  BY <1>1, <1>2 DEF PlaceInv, Published
<1>4. RangeInv'
  BY <1>1, <1>2 DEF RangeInv
<1>5. PlaceInv(n)'
  BY <1>1, <1>2, <1>3 DEF PlaceInv
<1>6. ReaderInv(n)'
  BY <1>3 DEF ReaderInv
<1>7. VisitInv(n)'
  BY <1>1, <1>2, VisitSame
<1> QED
  BY <1>1, <1>2, <1>3, <1>4, <1>5, <1>6, <1>7, AfterPublished

\* A row that a node has left to visit is one of the frame's, if it has any, and
\* with local_map one of a segment of its own.
LEMMA RowLeft ==
  ASSUME IInv, NEW n \in Nodes, place[n] = "map", NEW r \in todo[n]
  PROVE  /\ r \in Nat
         /\ mode[n] = "all" \/ Len(written) # 0 => r < Len(written)
         /\ mode[n] = "local" /\ Len(written) # 0 => Home(1, r \div Capacity) = n
<1>1. /\ Published /\ RangeInv /\ VisitInv(n) /\ PlaceInv(n) /\ SegmentInv(1)
      /\ Complete(1, Len(written)) /\ Len(written) \in Nat /\ todo[n] \subseteq Nat
  BY ReaderFacts, Constants
<1>2. mode[n] \in {"local", "all"}
  BY <1>1 DEF RangeInv, PlaceInv
<1>3. CASE mode[n] = "all"
  <2>1. visited[n] \in Seq(Nat \X [Columns -> Values])
    BY <1>1 DEF RangeInv
  <2>2. todo[n] = Len(visited[n]) .. Len(written) - 1
    BY <1>1, <1>3 DEF VisitInv
  <2> QED
    BY <1>1, <1>3, <2>1, <2>2
<1>4. CASE mode[n] = "local"
  <2>1. r \in LocalIndices(n)
    BY <1>1, <1>4 DEF VisitInv
  <2>2. segments \in [Columns -> Seq(Seq(Values))]
    BY <1>1 DEF RangeInv
  <2>3. Len(written) # 0 => r < Len(written) /\ Home(1, r \div Capacity) = n
    BY <1>1, <2>1, <2>2, LocalRows
  <2> QED
    BY <1>1, <1>4, <2>3
<1> QED
  BY <1>2, <1>3, <1>4

LEMMA StartMapStep ==
  ASSUME IInv, NEW n \in Nodes, StartMap(n)
  PROVE  IInv'
<1>1. /\ place[n] = "frame" /\ place' = [place EXCEPT ![n] = "map"]
      /\ col' = [col EXCEPT ![n] = 1]
      /\ UNCHANGED <<heap, row, cache, cached, segments, written, visited>>
  BY DEF StartMap
<1>2. PICK m, T : /\ mode' = [mode EXCEPT ![n] = m] /\ todo' = [todo EXCEPT ![n] = T]
                  /\ \/ m = "local" /\ T = LocalIndices(n)
                     \/ m = "all" /\ T = 0 .. Len(written) - 1
  BY DEF StartMap
<1>3. /\ Published /\ RangeInv /\ Owns(row[n], cache[n], heap[n]) /\ PlaceInv(n)
      /\ Complete(1, Len(written)) /\ SegmentInv(1) /\ Len(written) \in Nat
      /\ DOMAIN place = Nodes /\ DOMAIN col = Nodes /\ DOMAIN mode = Nodes /\ DOMAIN todo = Nodes
      /\ Null \notin {"local", "all"} /\ Len(Types) \in Nat \ {0}
  BY <1>1, ReaderFacts, Constants
<1>4. place'[n] = "map" /\ col'[n] = 1 /\ mode'[n] = m /\ todo'[n] = T
  BY <1>1, <1>2, <1>3
<1>5. T \subseteq Nat
  <2>1. segments \in [Columns -> Seq(Seq(Values))]
    BY <1>3 DEF RangeInv
  <2>2. LocalIndices(n) \subseteq Nat
    BY <1>3, <2>1, LocalRows
  <2> QED
    BY <1>2, <1>3, <2>2
<1>6. RangeInv'
  BY <1>1, <1>2, <1>3, <1>5 DEF RangeInv
<1>7. visited'[n] = <<>> /\ \A j \in Columns : cached'[n][j] = Null
  BY <1>1, <1>3 DEF PlaceInv
<1>8. PlaceInv(n)'
  <2>1. Published'
    BY <1>1, <1>3, <1>4 DEF Published
  <2> QED
    BY <1>2, <1>3, <1>4, <2>1 DEF PlaceInv
<1>9. ReaderInv(n)'
  BY <1>4, <1>7 DEF ReaderInv
<1>10. VisitInv(n)'
  <2>1. LocalIndices(n)' = LocalIndices(n)
    BY <1>1 DEF LocalIndices, Home
  <2>2. written' = written
    BY <1>1
  <2> QED
    BY <1>2, <1>3, <1>4, <1>7, <2>1, <2>2 DEF VisitInv
<1>11. Owns(row'[n], cache'[n], heap'[n])
  BY <1>1, <1>3
<1> QED
  BY <1>1, <1>2, <1>3, <1>4, <1>6, <1>8, <1>9, <1>10, <1>11, AfterPublished

LEMMA NoSuchRowStep ==
  ASSUME IInv, NEW n \in Nodes, NoSuchRow(n)
  PROVE  IInv'
<1>1. /\ place[n] = "map" /\ place' = [place EXCEPT ![n] = "aborted"]
      /\ todo[n] # {} /\ Current(n) >= Len(written)
      /\ UNCHANGED <<heap, row, cache, cached, col, segments, mode, todo, written, visited>>
  BY DEF NoSuchRow
<1>2. /\ Published /\ RangeInv /\ Owns(row[n], cache[n], heap[n]) /\ PlaceInv(n) /\ VisitInv(n)
      /\ DOMAIN place = Nodes /\ Len(written) \in Nat /\ todo[n] \subseteq Nat
  BY <1>1, ReaderFacts
<1>3. Current(n) \in todo[n]
  BY <1>1, <1>2, Least DEF Current
<1>4. ~(Current(n) < Len(written))
  BY <1>1, <1>2, <1>3
<1>5. mode[n] = "local" /\ Len(written) = 0
  <2>1. mode[n] \in {"local", "all"}
    BY <1>1, <1>2 DEF RangeInv, PlaceInv
  <2> QED
    BY <1>1, <1>3, <1>4, <2>1, RowLeft
<1>6. written = <<>>
  BY <1>2, <1>5, Empty DEF RangeInv
<1>7. place'[n] = "aborted" /\ Published'
  BY <1>1, <1>2 DEF Published
<1>8. RangeInv'
  BY <1>1, <1>2 DEF RangeInv
<1>9. PlaceInv(n)'
  BY <1>1, <1>2, <1>5, <1>6, <1>7, Constants DEF PlaceInv
<1>10. ReaderInv(n)'
  BY <1>7 DEF ReaderInv
<1>11. VisitInv(n)'
  BY <1>1, <1>2, VisitSame
<1> QED
  BY <1>1, <1>2, <1>7, <1>8, <1>9, <1>10, <1>11, AfterPublished

LEMMA EndMapStep ==
  ASSUME IInv, NEW n \in Nodes, EndMap(n)
  PROVE  IInv'
<1>1. PICK r2, h2 : r2 = Each(Null) /\ h2 = Delete(heap[n], RowStrings(row[n]))
  OBVIOUS
<1>2. /\ place[n] = "map" /\ place' = [place EXCEPT ![n] = "mapped"] /\ todo[n] = {}
      /\ heap' = [heap EXCEPT ![n] = h2] /\ row' = [row EXCEPT ![n] = r2]
      /\ UNCHANGED <<cache, cached, col, segments, mode, todo, written, visited>>
  BY <1>1 DEF EndMap
<1>3. /\ Published /\ RangeInv /\ Owns(row[n], cache[n], heap[n]) /\ PlaceInv(n) /\ VisitInv(n)
      /\ DOMAIN place = Nodes /\ DOMAIN heap = Nodes /\ DOMAIN row = Nodes
  BY <1>2, ReaderFacts
<1>4. Owns(r2, cache[n], h2)
  <2>1. Owns(row[n], cache[n], heap[n])
    BY <1>3
  <2> QED
    BY <1>1, <2>1, RowCleared
<1>5. place'[n] = "mapped" /\ heap'[n] = h2 /\ row'[n] = r2 /\ Published'
  BY <1>2, <1>3 DEF Published
<1>6. RangeInv'
  <2>1. r2 \in [Columns -> Fields] /\ h2 \in Heaps
    BY <1>4, OwnsRange
  <2> QED
    BY <1>2, <1>3, <2>1 DEF RangeInv
<1>7. PlaceInv(n)'
  BY <1>1, <1>2, <1>3, <1>5 DEF PlaceInv
<1>8. ReaderInv(n)'
  BY <1>5 DEF ReaderInv
<1>9. VisitInv(n)'
  BY <1>2, <1>3, VisitSame
<1>10. Owns(row'[n], cache'[n], heap'[n])
  BY <1>2, <1>4, <1>5
<1> QED
  BY <1>2, <1>3, <1>5, <1>6, <1>7, <1>8, <1>9, <1>10, AfterPublished

LEMMA DropStep ==
  ASSUME IInv, NEW n \in Nodes, Drop(n)
  PROVE  IInv'
<1>1. PICK c2, h2 : /\ c2 = Each(<<>>)
                    /\ h2 = Delete(heap[n], UNION {ArrayStrings(j, cache[n][j]) : j \in Columns})
  OBVIOUS
<1>2. /\ place[n] \in {"frame", "mapped"} /\ place' = [place EXCEPT ![n] = "dropped"]
      /\ heap' = [heap EXCEPT ![n] = h2] /\ cache' = [cache EXCEPT ![n] = c2]
      /\ UNCHANGED <<row, cached, col, segments, mode, todo, written, visited>>
  BY <1>1 DEF Drop
<1>3. /\ Published /\ RangeInv /\ Owns(row[n], cache[n], heap[n]) /\ PlaceInv(n) /\ VisitInv(n)
      /\ DOMAIN place = Nodes /\ DOMAIN heap = Nodes /\ DOMAIN cache = Nodes
  BY <1>2, ReaderFacts
<1>4. Owns(row[n], c2, h2)
  <2>1. Owns(row[n], cache[n], heap[n])
    BY <1>3
  <2> QED
    BY <1>1, <2>1, Dropped
<1>5. place'[n] = "dropped" /\ heap'[n] = h2 /\ cache'[n] = c2 /\ Published'
  BY <1>2, <1>3 DEF Published
<1>6. RangeInv'
  <2>1. c2 \in [Columns -> Seq(Fields)] /\ h2 \in Heaps
    BY <1>4, OwnsRange
  <2> QED
    BY <1>2, <1>3, <2>1 DEF RangeInv
<1>7. PlaceInv(n)'
  BY <1>2, <1>3, <1>5 DEF PlaceInv
<1>8. ReaderInv(n)'
  BY <1>5 DEF ReaderInv
<1>9. VisitInv(n)'
  BY <1>2, <1>3, VisitSame
<1>10. Owns(row'[n], cache'[n], heap'[n])
  BY <1>2, <1>4, <1>5
<1> QED
  BY <1>2, <1>3, <1>5, <1>6, <1>7, <1>8, <1>9, <1>10, AfterPublished

\* A Row in turn is complete once its last column is done.
LEMMA VisitRowStep ==
  ASSUME IInv, NEW n \in Nodes, VisitRow(n)
  PROVE  IInv'
<1>1. PICK r, x : r = Current(n) /\ x = RowContents(heap[n], row[n])
  OBVIOUS
<1>2. /\ place[n] = "map" /\ todo[n] # {} /\ col[n] \notin Columns
      /\ visited' = [visited EXCEPT ![n] = Append(@, <<r, x>>)]
      /\ todo' = [todo EXCEPT ![n] = @ \ {r}] /\ col' = [col EXCEPT ![n] = 1]
      /\ UNCHANGED <<place, heap, row, cache, cached, segments, mode, written>>
  BY <1>1 DEF VisitRow
<1>3. /\ Published /\ RangeInv /\ Owns(row[n], cache[n], heap[n])
      /\ PlaceInv(n) /\ ReaderInv(n) /\ VisitInv(n)
      /\ DOMAIN visited = Nodes /\ DOMAIN todo = Nodes /\ DOMAIN col = Nodes
      /\ Len(written) \in Nat /\ todo[n] \subseteq Nat
      /\ Columns = 1 .. Len(Types) /\ Len(Types) \in Nat \ {0}
  BY <1>2, ReaderFacts, Constants
<1>4. r \in todo[n] /\ r \in Nat /\ \A q \in todo[n] : r <= q
  BY <1>1, <1>2, <1>3, Least DEF Current
<1>5. col[n] = Len(Types) + 1
  <2>1. col[n] \in 1 .. Len(Types) + 1
    BY <1>3 DEF RangeInv
  <2> QED
    BY <1>2, <1>3, <2>1
<1>6. /\ r < Len(written)
      /\ \A j \in Columns : row[n][j] # Null /\ Read(heap[n], j, row[n][j]) = written[r + 1][j]
  <2>1. col[n] > 1 /\ \A j \in Columns : j < col[n]
    BY <1>3, <1>5
  <2> QED
    BY <1>1, <1>2, <1>3, <2>1 DEF ReaderInv
<1>7. x = written[r + 1] /\ x \in [Columns -> Values]
  <2>1. written[r + 1] \in [Columns -> Values]
    BY <1>3, <1>4, <1>6 DEF RangeInv
  <2>2. \A j \in Columns : x[j] = written[r + 1][j]
    BY <1>1, <1>3, <1>6, RowValues
  <2>3. x = [j \in Columns |-> x[j]]
    BY <1>1 DEF RowContents
  <2> QED
    BY <2>1, <2>2, <2>3
<1>8. PICK m \in Nat : m = Len(visited[n]) /\ DOMAIN visited[n] = 1 .. m
  BY <1>3 DEF RangeInv
<1>9. /\ visited'[n] \in Seq(Nat \X [Columns -> Values])
      /\ Len(visited'[n]) = m + 1 /\ DOMAIN visited'[n] = 1 .. m + 1
      /\ visited'[n][m + 1][1] = r /\ visited'[n][m + 1][2] = x
      /\ \A k \in 1 .. m : visited'[n][k] = visited[n][k]
  <2>1. PICK y : y = <<r, x>>
    OBVIOUS
  <2>2. y \in Nat \X [Columns -> Values] /\ y[1] = r /\ y[2] = x
    BY <1>4, <1>7, <2>1
  <2>3. visited[n] \in Seq(Nat \X [Columns -> Values])
    BY <1>3 DEF RangeInv
  <2>4. visited'[n] = Append(visited[n], y)
    BY <1>2, <1>3, <2>1
  <2> QED
    BY <1>8, <2>2, <2>3, <2>4
<1>10. todo'[n] = todo[n] \ {r} /\ col'[n] = 1
  BY <1>2, <1>3
<1>11. RangeInv'
  <2>1. visited' \in [Nodes -> Seq(Nat \X [Columns -> Values])]
    BY <1>2, <1>3, <1>9 DEF RangeInv
  <2>2. todo' \in [Nodes -> SUBSET Nat]
    BY <1>2, <1>3 DEF RangeInv
  <2>3. col' \in [Nodes -> 1 .. Len(Types) + 1]
    BY <1>2, <1>3 DEF RangeInv
  <2>4. RangeInv /\ UNCHANGED <<place, heap, row, cache, cached, segments, mode, written>>
    BY <1>2, <1>3
  <2> QED
    BY <2>1, <2>2, <2>3, <2>4 DEF RangeInv
<1>12. PlaceInv(n)'
  <2>1. Published' = Published
    BY <1>2 DEF Published
  <2> QED
    BY <1>2, <1>3, <2>1 DEF PlaceInv
<1>13. ReaderInv(n)'
  BY <1>2, <1>3, <1>10 DEF ReaderInv
<1>14. VisitInv(n)'
  <2>1. ASSUME NEW k \in 1 .. m + 1
        PROVE  /\ visited'[n][k][1] < Len(written)
               /\ visited'[n][k][2] = written[visited'[n][k][1] + 1]
    <3>1. CASE k = m + 1
      BY <1>6, <1>7, <1>9, <3>1
    <3>2. CASE k # m + 1
      <4>1. k \in 1 .. m
        BY <1>8, <3>2
      <4>2. k \in DOMAIN visited[n] /\ visited'[n][k] = visited[n][k]
        BY <1>8, <1>9, <4>1
      <4> QED
        BY <1>3, <4>2 DEF VisitInv
    <3> QED
      BY <3>1, <3>2
  <2>2. ASSUME mode[n] = "all"
        PROVE  /\ \A k \in 1 .. m + 1 : visited'[n][k][1] = k - 1
               /\ todo'[n] = (m + 1) .. Len(written) - 1
               /\ m + 1 <= Len(written)
    <3>1. todo[n] = m .. Len(written) - 1 /\ \A k \in 1 .. m : visited[n][k][1] = k - 1
      BY <1>3, <1>8, <2>2 DEF VisitInv
    <3>2. r = m
      BY <1>3, <1>4, <1>8, <3>1
    <3>3. PICK L \in Nat : L = Len(written) /\ m < L
      BY <1>3, <1>6, <3>2
    <3>4. todo'[n] = (m .. L - 1) \ {m}
      BY <1>10, <3>1, <3>2, <3>3
    <3>5. todo'[n] = (m + 1) .. L - 1
      BY <1>8, <3>3, <3>4
    <3>6. ASSUME NEW k \in 1 .. m + 1 PROVE visited'[n][k][1] = k - 1
      <4>1. CASE k = m + 1
        BY <1>8, <1>9, <3>2, <4>1
      <4>2. CASE k # m + 1
        <5>1. k \in 1 .. m
          BY <1>8, <4>2
        <5> QED
          BY <1>9, <3>1, <5>1
      <4> QED
        BY <4>1, <4>2
    <3> QED
      BY <1>8, <3>3, <3>5, <3>6
  <2>3. ASSUME mode[n] = "local"
        PROVE  /\ LocalIndices(n) = todo'[n] \cup {visited'[n][k][1] : k \in 1 .. m + 1}
               /\ \A k \in 1 .. m + 1 : visited'[n][k][1] \notin todo'[n]
               /\ \A k, l \in 1 .. m + 1 : visited'[n][k][1] = visited'[n][l][1] => k = l
    <3>1. /\ LocalIndices(n) = todo[n] \cup {visited[n][k][1] : k \in 1 .. m}
          /\ \A k \in 1 .. m : visited[n][k][1] \notin todo[n]
          /\ \A k, l \in 1 .. m : visited[n][k][1] = visited[n][l][1] => k = l
      BY <1>3, <1>8, <2>3 DEF VisitInv
    <3>2. \A k \in 1 .. m + 1 : k = m + 1 \/ k \in 1 .. m
      BY <1>8
    <3>3. 1 .. m \subseteq 1 .. m + 1 /\ m + 1 \in 1 .. m + 1
      BY <1>8
    <3>4. \A k \in 1 .. m : visited'[n][k][1] = visited[n][k][1]
      BY <1>9
    <3>5. {visited'[n][k][1] : k \in 1 .. m + 1} = {visited[n][k][1] : k \in 1 .. m} \cup {r}
      <4>1. visited'[n][m + 1][1] = r
        BY <1>9
      <4> QED
        BY <3>2, <3>3, <3>4, <4>1
    <3>6. LocalIndices(n) = todo'[n] \cup {visited'[n][k][1] : k \in 1 .. m + 1}
      BY <1>4, <1>10, <3>1, <3>5
    <3>7. \A k \in 1 .. m + 1 : visited'[n][k][1] \notin todo'[n]
      BY <1>9, <1>10, <3>1, <3>2, <3>4
    <3>8. \A k \in 1 .. m : visited'[n][k][1] # visited'[n][m + 1][1]
      BY <1>4, <1>9, <3>1, <3>4
    <3>9. ASSUME NEW k \in 1 .. m + 1, NEW l \in 1 .. m + 1, visited'[n][k][1] = visited'[n][l][1]
          PROVE  k = l
      <4>1. CASE k \in 1 .. m /\ l \in 1 .. m
        BY <3>1, <3>4, <3>9, <4>1
      <4> QED
        BY <3>2, <3>8, <3>9, <4>1
    <3> QED
      BY <3>6, <3>7, <3>9
  <2>4. LocalIndices(n)' = LocalIndices(n)
    BY <1>2 DEF LocalIndices, Home
  <2>5. mode[n] = "local" => \A j \in Columns : cached[n][j] # Null => Home(j, cached[n][j]) = n
    BY <1>3 DEF VisitInv
  <2> QED
    BY <1>2, <1>9, <2>1, <2>2, <2>3, <2>4, <2>5 DEF VisitInv, Home
<1>15. Owns(row'[n], cache'[n], heap'[n])
  BY <1>2, <1>3
<1> QED
  BY <1>2, <1>3, <1>11, <1>12, <1>13, <1>14, <1>15, AfterPublished

\* An array stands for the same values when its strings are what they were.
LEMMA SameContents ==
  ASSUME NEW c, NEW h, NEW h2, NEW j, SameArray(c, h, h2, j)
  PROVE  Contents(h2, j, c[j]) = Contents(h, j, c[j])
BY DEF SameArray, Contents, Read

\* The array of column j, read again if it is not segment i.
LEMMA Got ==
  ASSUME NEW r, NEW c, NEW h, Owns(r, c, h), NEW j \in Columns, NEW hit \in BOOLEAN,
         NEW s \in Seq(Values), Len(s) <= Capacity, hit => Contents(h, j, c[j]) = s,
         NEW h0, h0 = Delete(h, ArrayStrings(j, c[j])),
         NEW h1, h1 = IF hit THEN h ELSE IF IsString(j) THEN New(h0, s) ELSE h0,
         NEW a, a = IF hit THEN c[j] ELSE IF IsString(j) THEN Addresses(h0, s) ELSE s,
         NEW c1, c1 = Put(c, j, a)
  PROVE  /\ Owns(r, c1, h1) /\ c1[j] = a /\ Contents(h1, j, a) = s
         /\ \A k \in Columns : SameField(r, h, h1, k)
         /\ \A k \in Columns \ {j} : c1[k] = c[k] /\ SameArray(c, h, h1, k)
<1>1. c \in [Columns -> Seq(Fields)]
  BY OwnsRange
<1>2. CASE hit
  <2>1. h1 = h /\ a = c[j] /\ c1 = c
    BY <1>1, <1>2 DEF Put
  <2> QED
    BY <1>2, <2>1 DEF SameField, SameArray
<1>3. CASE ~hit
  <2>1. PICK c0 : c0 = Put(c, j, <<>>)
    OBVIOUS
  <2>2. /\ Owns(r, c0, h0) /\ c0[j] = <<>>
        /\ \A k \in Columns : SameField(r, h, h0, k)
        /\ \A k \in Columns \ {j} : c0[k] = c[k] /\ SameArray(c, h, h0, k)
    BY <2>1, Emptied
  <2>3. /\ a = IF IsString(j) THEN Addresses(h0, s) ELSE s
        /\ h1 = IF IsString(j) THEN New(h0, s) ELSE h0
    BY <1>3
  <2>4. c1 = Put(c0, j, a)
    BY <1>1, <2>1 DEF Put
  <2>5. /\ Owns(r, c1, h1) /\ c1[j] = a /\ Contents(h1, j, a) = s
        /\ \A k \in Columns : SameField(r, h0, h1, k)
        /\ \A k \in Columns \ {j} : c1[k] = c0[k] /\ SameArray(c0, h0, h1, k)
    BY <2>2, <2>3, <2>4, Loaded
  <2>6. ASSUME NEW k \in Columns PROVE SameField(r, h, h1, k)
    BY <2>2, <2>5 DEF SameField
  <2>7. ASSUME NEW k \in Columns, k # j PROVE c1[k] = c[k] /\ SameArray(c, h, h1, k)
    BY <2>2, <2>5, <2>7 DEF SameArray
  <2> QED
    BY <2>5, <2>6, <2>7
<1> QED
  BY <1>2, <1>3

LEMMA FillFieldStep ==
  ASSUME IInv, NEW n \in Nodes, FillField(n)
  PROVE  IInv'
<1>1. PICK j, r, i, s, hit, h0, h1, a :
        /\ j = col[n] /\ r = Current(n) /\ i = r \div Capacity /\ s = segments[j][i + 1]
        /\ hit = Hit(n, j, i) /\ h0 = Delete(heap[n], ArrayStrings(j, cache[n][j]))
        /\ h1 = IF hit THEN heap[n] ELSE IF IsString(j) THEN New(h0, s) ELSE h0
        /\ a = IF hit THEN cache[n][j] ELSE IF IsString(j) THEN Addresses(h0, s) ELSE s
  OBVIOUS
<1>2. PICK v : v = Contents(h1, j, a)[(r % Capacity) + 1]
  OBVIOUS
<1>3. PICK r2, h2, c1 : /\ r2 = SetField(h1, row[n], j, v).row /\ h2 = SetField(h1, row[n], j, v).heap
                        /\ c1 = Put(cache[n], j, a)
  OBVIOUS
<1>4. /\ place[n] = "map" /\ todo[n] # {} /\ r < Len(written) /\ j \in Columns
      /\ cache' = [cache EXCEPT ![n][j] = a]
      /\ cached' = [cached EXCEPT ![n][j] = IF hit THEN @ ELSE i]
      /\ heap' = [heap EXCEPT ![n] = h2] /\ row' = [row EXCEPT ![n] = r2]
      /\ col' = [col EXCEPT ![n] = j + 1]
      /\ UNCHANGED <<place, segments, mode, todo, written, visited>>
  BY <1>1, <1>2, <1>3 DEF FillField
<1>5. /\ Published /\ RangeInv /\ Owns(row[n], cache[n], heap[n])
      /\ PlaceInv(n) /\ ReaderInv(n) /\ VisitInv(n)
      /\ DOMAIN heap = Nodes /\ DOMAIN row = Nodes /\ DOMAIN cache = Nodes
      /\ DOMAIN cached = Nodes /\ DOMAIN col = Nodes
      /\ Len(written) \in Nat /\ todo[n] \subseteq Nat /\ Columns = 1 .. Len(Types)
      /\ Len(Types) \in Nat \ {0} /\ Null \notin Nat
      /\ SegmentInv(j) /\ Complete(j, Len(written))
  BY <1>4, ReaderFacts, Constants
<1>6. r \in todo[n] /\ r \in Nat
  BY <1>1, <1>4, <1>5, Least DEF Current
<1>7. PICK k : k = r % Capacity
  OBVIOUS
<1>8. /\ i \in Nat /\ k \in Nat /\ i + 1 \in DOMAIN segments[j]
      /\ s \in Seq(Values) /\ Len(s) <= Capacity /\ k + 1 \in DOMAIN s
      /\ s[k + 1] = written[r + 1][j]
  <2>1. segments \in [Columns -> Seq(Seq(Values))]
    BY <1>5 DEF RangeInv
  <2>2. PICK L \in Nat : L = Len(written) /\ r < L /\ Complete(j, L)
    BY <1>4, <1>5
  <2>3. j \in Columns /\ SegmentInv(j) /\ Published /\ i = r \div Capacity
    BY <1>1, <1>4, <1>5
  <2>4. /\ i \in Nat /\ k \in Nat /\ i + 1 \in DOMAIN segments[j]
        /\ segments[j][i + 1] \in Seq(Values) /\ Len(segments[j][i + 1]) <= Capacity
        /\ k + 1 \in DOMAIN segments[j][i + 1]
        /\ segments[j][i + 1][k + 1] = written[r + 1][j]
    <3>1. r \in Nat /\ r < L /\ Complete(j, L)
      BY <1>6, <2>2
    <3> QED
      BY <1>7, <2>1, <2>3, <3>1, InSegment
  <2> QED
    BY <1>1, <2>4
<1>9. hit \in BOOLEAN /\ (hit => cached[n][j] = i /\ Contents(heap[n], j, cache[n][j]) = s)
  <2>1. hit <=> cached[n][j] = i
    BY <1>1 DEF Hit
  <2>2. ASSUME cached[n][j] = i PROVE Contents(heap[n], j, cache[n][j]) = s
    BY <1>1, <1>4, <1>5, <1>8, <2>2 DEF ReaderInv
  <2> QED
    BY <1>1, <2>1, <2>2 DEF Hit
<1>10. /\ Owns(row[n], c1, h1) /\ c1[j] = a /\ Contents(h1, j, a) = s
       /\ \A l \in Columns : SameField(row[n], heap[n], h1, l)
       /\ \A l \in Columns \ {j} : c1[l] = cache[n][l] /\ SameArray(cache[n], heap[n], h1, l)
  <2>1. Owns(row[n], cache[n], heap[n]) /\ j \in Columns
    BY <1>4, <1>5
  <2>2. s \in Seq(Values) /\ Len(s) <= Capacity
    BY <1>8
  <2>3. c1 = Put(cache[n], j, a)
    BY <1>3
  <2>4. /\ h0 = Delete(heap[n], ArrayStrings(j, cache[n][j]))
        /\ h1 = IF hit THEN heap[n] ELSE IF IsString(j) THEN New(h0, s) ELSE h0
        /\ a = IF hit THEN cache[n][j] ELSE IF IsString(j) THEN Addresses(h0, s) ELSE s
    BY <1>1
  <2>5. hit \in BOOLEAN /\ (hit => Contents(heap[n], j, cache[n][j]) = s)
    BY <1>9
  <2> QED
    BY <2>1, <2>2, <2>3, <2>4, <2>5, Got
<1>11. v = written[r + 1][j] /\ v \in Values
  BY <1>2, <1>7, <1>8, <1>10
<1>12. /\ Owns(r2, c1, h2) /\ r2[j] # Null /\ Read(h2, j, r2[j]) = v
       /\ \A l \in Columns \ {j} : r2[l] = row[n][l] /\ SameField(row[n], h1, h2, l)
       /\ \A l \in Columns : SameArray(c1, h1, h2, l)
  <2>1. Owns(row[n], c1, h1) /\ j \in Columns
    BY <1>4, <1>10
  <2> QED
    BY <1>3, <1>11, <2>1, FieldSet
<1>13. cache' = [cache EXCEPT ![n] = c1] /\ cache'[n] = c1 /\ heap'[n] = h2 /\ row'[n] = r2
  BY <1>3, <1>4, <1>5 DEF Put
<1>14. /\ cached'[n][j] = i /\ \A l \in Columns \ {j} : cached'[n][l] = cached[n][l]
       /\ cached' \in [Nodes -> [Columns -> Nat \cup {Null}]]
       /\ \A m \in Nodes \ {n} : cached'[m] = cached[m]
  <2>1. cached \in [Nodes -> [Columns -> Nat \cup {Null}]]
    BY <1>5 DEF RangeInv
  <2>2. (IF hit THEN cached[n][j] ELSE i) = i
    BY <1>9
  <2>3. cached' = [cached EXCEPT ![n] = [cached[n] EXCEPT ![j] = i]]
    BY <1>4, <2>1, <2>2
  <2> QED
    BY <1>4, <1>8, <2>1, <2>3
<1>15. col'[n] = j + 1 /\ j + 1 \in 1 .. Len(Types) + 1 /\ j \in Nat
  BY <1>4, <1>5
<1>16. RangeInv'
  <2>1. r2 \in [Columns -> Fields] /\ c1 \in [Columns -> Seq(Fields)] /\ h2 \in Heaps
    BY <1>12, OwnsRange
  <2> QED
    BY <1>4, <1>5, <1>13, <1>14, <1>15, <2>1 DEF RangeInv
<1>17. PlaceInv(n)'
  <2>1. Published' = Published
    BY <1>4 DEF Published
  <2> QED
    BY <1>4, <1>5, <2>1 DEF PlaceInv
<1>18. ASSUME NEW l \in Columns, cached'[n][l] # Null
       PROVE  /\ cached'[n][l] + 1 \in DOMAIN segments[l]
              /\ Contents(h2, l, c1[l]) = segments[l][cached'[n][l] + 1]
  <2>1. Contents(h2, l, c1[l]) = Contents(h1, l, c1[l])
    BY <1>12, SameContents
  <2>2. CASE l = j
    BY <1>1, <1>8, <1>10, <1>14, <2>1, <2>2
  <2>3. CASE l # j
    <3>1. cached'[n][l] = cached[n][l] /\ c1[l] = cache[n][l] /\ SameArray(cache[n], heap[n], h1, l)
      BY <1>10, <1>14, <2>3
    <3>2. Contents(h1, l, cache[n][l]) = Contents(heap[n], l, cache[n][l])
      BY <3>1, SameContents
    <3>3. /\ cached[n][l] + 1 \in DOMAIN segments[l]
          /\ Contents(heap[n], l, cache[n][l]) = segments[l][cached[n][l] + 1]
      BY <1>4, <1>5, <1>18, <3>1 DEF ReaderInv
    <3> QED
      BY <2>1, <3>1, <3>2, <3>3
  <2> QED
    BY <2>2, <2>3
<1>19. ASSUME NEW l \in Columns, l < j + 1
       PROVE  r2[l] # Null /\ Read(h2, l, r2[l]) = written[r + 1][l]
  <2>1. CASE l = j
    BY <1>11, <1>12, <2>1
  <2>2. CASE l # j
    <3>1. l < j /\ col[n] > 1
      BY <1>1, <1>5, <1>15, <1>19, <2>2
    <3>2. row[n][l] # Null /\ Read(heap[n], l, row[n][l]) = written[r + 1][l]
      BY <1>1, <1>4, <1>5, <3>1 DEF ReaderInv
    <3>3. r2[l] = row[n][l] /\ SameField(row[n], h1, h2, l) /\ SameField(row[n], heap[n], h1, l)
      BY <1>10, <1>12, <2>2
    <3> QED
      BY <3>2, <3>3 DEF SameField
  <2> QED
    BY <2>1, <2>2
<1>20. ReaderInv(n)'
  <2>1. Current(n)' = r
    BY <1>1, <1>4 DEF Current
  <2> QED
    BY <1>4, <1>13, <1>15, <1>18, <1>19, <2>1 DEF ReaderInv
<1>21. ASSUME mode[n] = "local", NEW l \in Columns, cached'[n][l] # Null
       PROVE  Home(l, cached'[n][l]) = n
  <2>1. CASE l = j
    <3>1. Home(1, i) = n
      BY <1>1, <1>4, <1>5, <1>6, <1>21, RowLeft
    <3> QED
      BY <1>14, <2>1, <3>1 DEF Home
  <2>2. CASE l # j
    BY <1>5, <1>14, <1>21, <2>2 DEF VisitInv
  <2> QED
    BY <2>1, <2>2
<1>22. VisitInv(n)'
  <2>1. LocalIndices(n)' = LocalIndices(n)
    BY <1>4 DEF LocalIndices, Home
  <2> QED
    BY <1>4, <1>5, <1>21, <2>1 DEF VisitInv, Home
<1>23. Owns(row'[n], cache'[n], heap'[n])
  BY <1>12, <1>13
<1>24. \A m \in Nodes \ {n} : heap'[m] = heap[m] /\ row'[m] = row[m] /\ cache'[m] = cache[m] /\ col'[m] = col[m]
  BY <1>4, <1>5, <1>13
<1> QED
  BY <1>4, <1>5, <1>14, <1>16, <1>17, <1>20, <1>22, <1>23, <1>24, AfterPublished
-----------------------------------------------------------------------------
(***************************************************************************)
(* The invariant and what follows from it                                  *)
(***************************************************************************)
\* At the start no node has a string, a segment or a row.
LEMMA Initially == Init => IInv
<1> SUFFICES ASSUME Init PROVE IInv
  OBVIOUS
<1> USE DEF Init
<1>1. PICK e : /\ e = <<>> /\ e \in Seq(Fields) /\ e \in Seq(Seq(Values))
               /\ e \in Seq([Columns -> Values]) /\ e \in Seq(Nat \X [Columns -> Values])
               /\ Len(e) = 0 /\ DOMAIN e = {}
  <2>1. \A T : <<>> \in Seq(T) /\ Len(<<>>) = 0 /\ DOMAIN <<>> = {}
    OBVIOUS
  <2> QED
    BY <2>1, Zenon
<1>2. e \in Heaps
  <2>1. e \in [{} -> Values] /\ {} \in SUBSET Heap
    BY <1>1
  <2> QED
    BY <2>1 DEF Heaps
<1>3. Each(Null) \in [Columns -> Fields] /\ \A j \in Columns : Each(Null)[j] = Null
  BY DEF Each, Fields
<1>4. Each(e) \in [Columns -> Seq(Fields)] /\ \A j \in Columns : Each(e)[j] = e
  BY <1>1 DEF Each
<1>5. segments = Each(e) /\ segments \in [Columns -> Seq(Seq(Values))] /\ \A j \in Columns : segments[j] = e
  BY <1>1 DEF Each
<1>6. Len(Types) \in Nat \ {0} /\ 0 \in Nodes /\ 1 \in 1 .. Len(Types) + 1
  BY Constants
<1>7. RangeInv
  <2>1. cached \in [Nodes -> [Columns -> Nat \cup {Null}]]
    BY DEF Each
  <2> QED
    BY <1>1, <1>2, <1>3, <1>4, <1>5, <1>6, <2>1 DEF RangeInv
<1>8. place[0] = "visit" /\ ~Published /\ col[0] = 1 /\ written = e
  BY <1>1, <1>6 DEF Published
<1>9. WriterInv /\ FrameInv
  BY <1>8, Constants DEF WriterInv, FrameInv
<1>10. ASSUME NEW j \in Columns PROVE SegmentInv(j) /\ ColumnInv(j)
  <2>1. cache[0][j] = e
    BY <1>1, <1>4, <1>6
  <2>2. Count(j) = 0
    BY <1>1, <1>8 DEF Count
  <2>3. 0 * Capacity + 0 = 0
    BY CapacityFact
  <2> QED
    BY <1>1, <1>5, <2>1, <2>2, <2>3 DEF SegmentInv, ColumnInv
<1>11. ASSUME NEW n \in Nodes
       PROVE  Owns(row[n], cache[n], heap[n]) /\ PlaceInv(n) /\ ReaderInv(n) /\ VisitInv(n)
  <2>1. row[n] = Each(Null) /\ cache[n] = Each(e) /\ heap[n] = e
    BY <1>1
  <2>2. RowOK(Each(Null)) /\ ArrayOK(Each(e))
    BY <1>1, <1>3, <1>4, CapacityFact DEF RowOK, ArrayOK
  <2>3. Holders(Each(Null), Each(e)) = {}
    <3>1. \A o \in StringPlaces : o[1] \in Columns
      BY DEF StringPlaces
    <3> QED
      BY <1>1, <1>3, <1>4, <3>1 DEF Holders
  <2>4. Owns(row[n], cache[n], heap[n])
    BY <1>1, <1>2, <2>1, <2>2, <2>3 DEF Owns
  <2>5. place[n] \in {"visit", "wait"} /\ (place[n] = "visit" <=> n = 0)
    OBVIOUS
  <2>6. visited[n] = e /\ mode[n] = Null /\ \A j \in Columns : cached[n][j] = Null
    BY <1>1, <1>3
  <2>7. PlaceInv(n)
    BY <1>1, <2>1, <2>5, <2>6 DEF PlaceInv
  <2>8. ReaderInv(n)
    BY <2>5 DEF ReaderInv
  <2>9. VisitInv(n)
    BY <1>1, <2>6, Constants DEF VisitInv
  <2> QED
    BY <2>4, <2>7, <2>8, <2>9
<1> QED
  BY <1>7, <1>9, <1>10, <1>11 DEF IInv

LEMMA Inductive == IInv /\ [Next]_vars => IInv'
<1> SUFFICES ASSUME IInv, [Next]_vars PROVE IInv'
  OBVIOUS
<1>1. CASE Visit
  BY <1>1, VisitStep
<1>2. CASE Visited
  BY <1>2, VisitedStep
<1>3. CASE AddToColumn
  BY <1>3, AddToColumnStep
<1>4. CASE Added
  BY <1>4, AddedStep
<1>5. CASE Publish
  BY <1>5, PublishStep
<1>6. ASSUME NEW n \in Nodes, Receive(n) PROVE IInv'
  BY <1>6, ReceiveStep
<1>7. ASSUME NEW n \in Nodes, StartMap(n) PROVE IInv'
  BY <1>7, StartMapStep
<1>8. ASSUME NEW n \in Nodes, NoSuchRow(n) PROVE IInv'
  BY <1>8, NoSuchRowStep
<1>9. ASSUME NEW n \in Nodes, FillField(n) PROVE IInv'
  BY <1>9, FillFieldStep
<1>10. ASSUME NEW n \in Nodes, VisitRow(n) PROVE IInv'
  BY <1>10, VisitRowStep
<1>11. ASSUME NEW n \in Nodes, EndMap(n) PROVE IInv'
  BY <1>11, EndMapStep
<1>12. ASSUME NEW n \in Nodes, Drop(n) PROVE IInv'
  BY <1>12, DropStep
<1>13. CASE UNCHANGED vars
  <2>1. /\ place' = place /\ heap' = heap /\ row' = row /\ cache' = cache /\ cached' = cached
        /\ col' = col /\ segments' = segments /\ mode' = mode /\ todo' = todo
        /\ written' = written /\ visited' = visited /\ Published' = Published
    BY <1>13 DEF vars, Published
  <2>2. RangeInv'
    BY <2>1 DEF IInv, RangeInv
  <2>3. WriterInv' /\ FrameInv'
    BY <2>1 DEF IInv, WriterInv, FrameInv, Complete
  <2>4. ASSUME NEW j \in Columns PROVE SegmentInv(j)' /\ ColumnInv(j)'
    BY <2>1 DEF IInv, SegmentInv, ColumnInv, Count
  <2>5. ASSUME NEW n \in Nodes
        PROVE  Owns(row[n], cache[n], heap[n])' /\ PlaceInv(n)' /\ ReaderInv(n)' /\ VisitInv(n)'
    <3>1. Owns(row[n], cache[n], heap[n]) /\ PlaceInv(n) /\ ReaderInv(n) /\ VisitInv(n)
      BY DEF IInv
    <3>2. Owns(row[n], cache[n], heap[n])' /\ PlaceInv(n)'
      BY <2>1, <3>1 DEF PlaceInv
    <3>3. ReaderInv(n)'
      BY <2>1, <3>1 DEF ReaderInv, Current
    <3>4. VisitInv(n)'
      BY <2>1, <3>1, VisitSame
    <3> QED
      BY <3>2, <3>3, <3>4
  <2> QED
    BY <2>2, <2>3, <2>4, <2>5 DEF IInv
<1> QED
  BY <1>1, <1>2, <1>3, <1>4, <1>5, <1>6, <1>7, <1>8, <1>9, <1>10, <1>11, <1>12, <1>13 DEF Next

LEMMA Invariant == Spec => []IInv
BY Initially, Inductive, PTL DEF Spec

LEMMA StringsHaveOwners == IInv => OneOwner
<1> SUFFICES ASSUME IInv, NEW n \in Nodes
             PROVE  /\ Range(Held(row[n], cache[n])) = DOMAIN heap[n]
                    /\ IsInjective(Held(row[n], cache[n]))
  BY DEF OneOwner
<1>1. PICK r, c, h : r = row[n] /\ c = cache[n] /\ h = heap[n] /\ Owns(r, c, h)
  BY DEF IInv
<1>2. Held(r, c) = [o \in Holders(r, c) |-> At(r, c, o)]
  BY DEF Held, At
<1>3. Range(Held(r, c)) = DOMAIN h
  BY <1>1, <1>2 DEF Range, Owns
<1>4. IsInjective(Held(r, c))
  BY <1>1, <1>2 DEF IsInjective, Owns
<1> QED
  BY <1>1, <1>3, <1>4

\* Row r of a frame with rows is for one node's local_map, that of its segment.
LEMMA OneNode ==
  ASSUME IInv, Published, Len(written) # 0, NEW r \in Nat, r < Len(written)
  PROVE  \E n \in Nodes : \A m \in Nodes : r \in LocalIndices(m) <=> m = n
<1>1. /\ segments \in [Columns -> Seq(Seq(Values))] /\ Len(written) \in Nat
      /\ SegmentInv(1) /\ Complete(1, Len(written))
  BY Constants DEF IInv, RangeInv, FrameInv
<1>2. \A m \in Nodes : r \in LocalIndices(m) <=> Home(1, r \div Capacity) = m
  BY <1>1, LocalRows
<1>3. Home(1, r \div Capacity) \in Nodes
  <2>1. r \div Capacity \in Nat
    BY Divided, CapacityFact
  <2>2. (r \div Capacity) % N \in 0 .. N - 1
    BY <2>1, Divided, Constants
  <2> QED
    BY <2>2 DEF Home, Nodes
<1> QED
  BY <1>2, <1>3

LEMMA RowsVisitedOnce == IInv => RowsOnce
<1> SUFFICES ASSUME IInv PROVE RowsOnce
  OBVIOUS
<1>1. \A n \in Nodes : PlaceInv(n) /\ VisitInv(n)
  BY DEF IInv
<1>2. written \in Seq([Columns -> Values]) /\ visited \in [Nodes -> Seq(Nat \X [Columns -> Values])]
  BY DEF IInv, RangeInv
<1>3. PICK L \in Nat : L = Len(written)
  BY <1>2
<1>4. ASSUME NEW n \in Nodes, NEW k \in DOMAIN visited[n]
      PROVE  visited[n][k][2] = written[visited[n][k][1] + 1]
  BY <1>1 DEF VisitInv
<1>5. ASSUME NEW n \in Nodes, Ended(n), mode[n] = "all"
      PROVE  [k \in DOMAIN visited[n] |-> visited[n][k][1]] = [i \in 1 .. L |-> i - 1]
  <2>1. PICK m \in Nat : m = Len(visited[n]) /\ DOMAIN visited[n] = 1 .. m
    BY <1>2
  <2>2. todo[n] = {} /\ todo[n] = m .. L - 1 /\ m <= L /\ \A k \in 1 .. m : visited[n][k][1] = k - 1
    BY <1>1, <1>3, <1>5, <2>1 DEF Ended, PlaceInv, VisitInv
  <2>3. m = L
    <3>1. m \notin m .. L - 1
      BY <2>2, Zenon
    <3>2. m <= L
      BY <2>2
    <3> QED
      BY <2>1, <3>1, <3>2
  <2> QED
    BY <2>1, <2>2, <2>3
<1>6. ASSUME \A n \in Nodes : Ended(n) /\ mode[n] = "local", NEW r \in 0 .. L - 1
      PROVE  \E n \in Nodes : \E k \in DOMAIN visited[n] :
               /\ visited[n][k][1] = r
               /\ \A m \in Nodes : \A l \in DOMAIN visited[m] :
                    visited[m][l][1] = r => m = n /\ l = k
  <2>1. Published
    BY <1>1, <1>6, Constants DEF Ended, PlaceInv
  <2>2. PICK n \in Nodes : \A m \in Nodes : r \in LocalIndices(m) <=> m = n
    BY <1>3, <2>1, OneNode
  <2>3. ASSUME NEW m \in Nodes
        PROVE  /\ LocalIndices(m) = {visited[m][k][1] : k \in DOMAIN visited[m]}
               /\ \A k, l \in DOMAIN visited[m] : visited[m][k][1] = visited[m][l][1] => k = l
    BY <1>1, <1>6 DEF Ended, PlaceInv, VisitInv
  <2>4. PICK k \in DOMAIN visited[n] : visited[n][k][1] = r
    BY <2>2, <2>3
  <2>5. ASSUME NEW m \in Nodes, NEW l \in DOMAIN visited[m], visited[m][l][1] = r
        PROVE  m = n /\ l = k
    <3>1. r \in LocalIndices(m)
      BY <2>3, <2>5
    <3>2. m = n
      BY <2>2, <3>1
    <3> QED
      BY <2>3, <2>4, <2>5, <3>2
  <2> QED
    BY <2>4, <2>5
<1>7. \A n \in Nodes : place[n] = "aborted" => mode[n] = "local" /\ written = <<>>
  BY <1>1 DEF PlaceInv
<1> QED
  BY <1>3, <1>4, <1>5, <1>6, <1>7 DEF RowsOnce

LEMMA ReadsAreLocal == IInv => LocalReads
BY DEF IInv, VisitInv, LocalReads

\* Every string a node has is owned by one field of its Row or one place in an
\* array, and no owner has a string that was deleted, whichever rows are written
\* or read (row.h:100, column.h).
THEOREM OneOwnerCorrect == Spec => []OneOwner
BY Invariant, StringsHaveOwners, PTL

\* A Reader gets the rows that the Writer made: each once, over all nodes, with
\* local_map, and all of them in order with map (dataframe.h:173, 188).
THEOREM RowsOnceCorrect == Spec => []RowsOnce
BY Invariant, RowsVisitedOnce, PTL

\* local_map reads segments of its own node only, of every column (dataframe.h:179).
THEOREM LocalReadsCorrect == Spec => []LocalReads
BY Invariant, ReadsAreLocal, PTL
=============================================================================
