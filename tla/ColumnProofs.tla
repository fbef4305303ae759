---------------------------- MODULE ColumnProofs ----------------------------
(***************************************************************************)
(* Theorems about Column.tla, for every number of nodes, every capacity    *)
(* and columns of any size up to Limit segments: what the writer stores,   *)
(* which node has which row and, when readers assume the writer's          *)
(* capacity, what is read.                                                 *)
(***************************************************************************)
EXTENDS Column, TLAPS

\* No column has more segments than names tell apart (MCColumn_names.cfg has one).
NamesApart == \A n \in Sizes : n <= Limit * Capacity

\* Readers split an index as the writer did (MCColumn_capacity.cfg: they do not).
SameCapacity == Default = Capacity

K == Len(segments)

\* Index of the first value of the j-th segment; the first e values from there.
Start(j) == (j - 1) * Capacity
Slice(j, e) == [x \in 1 .. e |-> Start(j) + x - 1]

\* How the writer's column is divided into segments.
ShapeInv ==
  /\ size \in Nat /\ finalized \in BOOLEAN /\ curr_node \in 0 .. N - 1
  /\ segments \in Seq(Keys) /\ K \in 1 .. Limit
  /\ \A j \in 1 .. K : segments[j].name = j - 1
  /\ Start(K) <= size /\ size <= Start(K) + Capacity
  /\ K > 1 => Start(K) < size

\* All segments but the last are stored, full; the last one is in the writer's
\* cache until finalize stores it.
StoreInv ==
  /\ DOMAIN cache = Objects
  /\ DOMAIN store = {segments[j] : j \in 1 .. IF finalized THEN K ELSE K - 1}
  /\ \A j \in 1 .. K - 1 : store[segments[j]] = Slice(j, Capacity)
  /\ finalized => store[segments[K]] = Slice(K, size - Start(K))
  /\ ~finalized => cache["writer"] = Slice(K, size - Start(K))

\* What is true of the writer whoever reads.
WInv == ShapeInv /\ StoreInv

\* Nothing is read before the column is final.  A cache that has a key holds that
\* key's segment; the writer's has none while it still is what was stored last.
CacheInv ==
  /\ cache = [o \in Objects |-> cache[o]]
  /\ cache_key = [o \in Objects |-> cache_key[o]]
  /\ ~finalized => got = None /\ \A o \in Objects : cache_key[o] = None
  /\ cache_key["writer"] = None => cache["writer"] = Slice(K, size - Start(K))
  /\ cache_key["reader"] = None => cache["reader"] = <<>>
  /\ \A o \in Objects : cache_key[o] # None =>
       \E j \in 1 .. K : cache_key[o] = segments[j].name /\ cache[o] = store[segments[j]]
  /\ got # None => got.object \in Objects /\ got.index \in Values

-----------------------------------------------------------------------------

LEMMA NameShort ==
  ASSUME NEW i \in Nat, i < Limit
  PROVE  Name(i) = i
BY DEF Name

\* Products by Capacity, which the solvers are to see as few times as possible.
LEMMA StartNext ==
  ASSUME NEW j \in Nat
  PROVE  /\ Start(j) \in Int
         /\ Start(j + 1) = Start(j) + Capacity
         /\ Start(j + 1) = j * Capacity
         /\ j > 0 => Start(j) \in Nat
BY ColumnAssumption DEF Start

LEMMA StartMonotone ==
  ASSUME NEW i \in Nat, NEW j \in Nat, i < j
  PROVE  Start(i) + Capacity <= Start(j)
<1>1. PICK d \in Nat : j = i + 1 + d
  <2>1. j - i - 1 \in Nat /\ j = i + 1 + (j - i - 1)
    OBVIOUS
  <2>2. QED
    BY <2>1
<1>2. Start(j) = Start(i) + Capacity + d * Capacity
  BY <1>1, ColumnAssumption DEF Start
<1>3. d * Capacity \in Nat /\ Start(i) \in Int
  BY ColumnAssumption DEF Start
<1>4. QED
  BY <1>2, <1>3, ColumnAssumption

\* An index is in the segment that its quotient names, at its remainder.
LEMMA Divided ==
  ASSUME NEW i \in Nat, NEW c \in Nat \ {0}
  PROVE  /\ i \div c \in Nat /\ i % c \in 0 .. c - 1
         /\ i = (i \div c) * c + (i % c)
OBVIOUS

LEMMA Remainder ==
  ASSUME NEW i \in Nat, NEW c \in Nat \ {0}, NEW q \in Nat, NEW r \in Nat, r < c, i = q * c + r
  PROVE  i \div c = q /\ i % c = r
OBVIOUS

LEMMA Located ==
  ASSUME NEW i \in Nat
  PROVE  /\ i \div Capacity \in Nat /\ i % Capacity \in 0 .. Capacity - 1
         /\ i = Start(i \div Capacity + 1) + (i % Capacity)
<1>1. i \div Capacity \in Nat /\ i % Capacity \in 0 .. Capacity - 1
  BY Divided, ColumnAssumption
<1>2. i = (i \div Capacity) * Capacity + (i % Capacity)
  BY Divided, ColumnAssumption
<1>3. QED
  BY <1>1, <1>2, StartNext

\* A segment has room for no index but its own.
LEMMA OneSegment ==
  ASSUME NEW i \in Nat, NEW j \in Nat, NEW v \in Nat,
         Start(i) <= v, v < Start(i) + Capacity,
         Start(j) <= v, v < Start(j) + Capacity
  PROVE  i = j
<1>1. Start(i) \in Int /\ Start(j) \in Int /\ Capacity \in Nat
  BY StartNext, ColumnAssumption
<1>2. i < j => Start(i) + Capacity <= Start(j)
  BY StartMonotone
<1>3. j < i => Start(j) + Capacity <= Start(i)
  BY StartMonotone
<1>4. QED
  BY <1>1, <1>2, <1>3

LEMMA SliceIsSeq ==
  ASSUME NEW j \in Nat \ {0}, NEW e \in Nat
  PROVE  /\ Slice(j, e) \in Seq(Nat) /\ Len(Slice(j, e)) = e
         /\ \A x \in 1 .. e : Slice(j, e)[x] = Start(j) + x - 1
<1>1. Start(j) \in Nat
  BY StartNext
<1>2. \A x \in 1 .. e : Start(j) + x - 1 \in Nat
  BY <1>1
<1>3. QED
  BY <1>2 DEF Slice

\* One more value.
LEMMA SliceAppend ==
  ASSUME NEW j \in Nat \ {0}, NEW e \in Nat
  PROVE  Append(Slice(j, e), Start(j) + e) = Slice(j, e + 1)
<1>1. Start(j) \in Nat
  BY StartNext
<1>2. Slice(j, e) \in Seq(Nat) /\ Len(Slice(j, e)) = e
  BY SliceIsSeq
<1>3. Slice(j, e + 1) \in Seq(Nat) /\ Len(Slice(j, e + 1)) = e + 1
  BY SliceIsSeq
<1>4. ASSUME NEW x \in 1 .. e + 1
      PROVE  Append(Slice(j, e), Start(j) + e)[x] = Slice(j, e + 1)[x]
  BY <1>1, <1>2 DEF Slice
<1>5. Append(Slice(j, e), Start(j) + e) \in Seq(Nat)
      /\ Len(Append(Slice(j, e), Start(j) + e)) = e + 1
  BY <1>1, <1>2
<1>6. QED
  BY <1>3, <1>4, <1>5

\* The names of two segments of a column differ.
LEMMA SegmentsDiffer ==
  ASSUME ShapeInv, NEW i \in 1 .. K, NEW j \in 1 .. K, segments[i].name = segments[j].name
  PROVE  i = j
BY DEF ShapeInv, K

-----------------------------------------------------------------------------

LEMMA ShapeTypes ==
  ASSUME ShapeInv
  PROVE  size \in Nat /\ K \in Nat \ {0} /\ Start(K) \in Nat
<1>1. size \in Nat /\ K \in Nat \ {0}
  BY DEF ShapeInv
<1>2. Start(K) \in Nat
  BY <1>1, StartNext
<1>3. QED
  BY <1>1, <1>2

\* A column that can still grow has a segment left to name.
LEMMA NextNamed ==
  ASSUME NamesApart, ShapeInv, size = K * Capacity, \E n \in Sizes : size < n
  PROVE  K < Limit
<1>1. PICK n \in Sizes : K * Capacity < n
  OBVIOUS
<1>2. n <= Limit * Capacity
  BY DEF NamesApart
<1>3. K * Capacity < Limit * Capacity
  BY <1>1, <1>2, ColumnAssumption DEF ShapeInv
<1>4. K \in Nat /\ Limit \in Nat
  BY ColumnAssumption DEF ShapeInv
<1>5. K >= Limit => K * Capacity >= Limit * Capacity
  <2>1. ASSUME K >= Limit
        PROVE  K * Capacity >= Limit * Capacity
    <3>1. (K - Limit) * Capacity \in Nat
      BY <2>1, <1>4, ColumnAssumption
    <3>2. K * Capacity = Limit * Capacity + (K - Limit) * Capacity
      BY <1>4, ColumnAssumption
    <3>3. QED
      BY <3>1, <3>2, <1>4, ColumnAssumption
  <2>2. QED
    BY <2>1
<1>6. QED
  BY <1>3, <1>4, <1>5, ColumnAssumption

LEMMA WInvInit == Init => WInv
<1>1. ASSUME Init
      PROVE  WInv
  <2>1. Key(0, 0) = [name |-> 0, node |-> 0]
    BY NameShort, ColumnAssumption DEF Key
  <2>2. K = 1 /\ segments[1] = Key(0, 0) /\ segments \in Seq(Keys)
    BY <1>1, <2>1, ColumnAssumption DEF Init, K, Keys
  <2>3. Start(1) = 0
    BY ColumnAssumption DEF Start
  <2>4. 1 % N \in 0 .. N - 1
    BY Divided, ColumnAssumption
  <2>5. ShapeInv
    <3>1. \A j \in 1 .. K : segments[j].name = j - 1
      BY <2>1, <2>2
    <3>2. size = 0 /\ finalized = FALSE /\ curr_node = 1 % N
      BY <1>1 DEF Init
    <3>3. K \in 1 .. Limit /\ Start(K) = 0
      BY <2>2, <2>3, ColumnAssumption
    <3>4. curr_node \in 0 .. N - 1
      BY <2>4, <3>2
    <3>5. Start(K) <= size /\ size <= Start(K) + Capacity /\ (K > 1 => Start(K) < size)
      BY <2>2, <3>2, <3>3, ColumnAssumption
    <3>6. QED
      BY <2>2, <3>1, <3>2, <3>3, <3>4, <3>5 DEF ShapeInv
  <2>6. Slice(K, size - Start(K)) = <<>>
    BY <1>1, <2>2, <2>3 DEF Init, Slice
  <2>7. StoreInv
    BY <1>1, <2>2, <2>6 DEF Init, StoreInv, Objects
  <2>8. QED
    BY <2>5, <2>7 DEF WInv
<1>2. QED
  BY <1>1

\* While the last segment has room, a push adds to it.
LEMMA PushKeeps ==
  ASSUME WInv, Push
  PROVE  WInv'
<1>1. size \in Nat /\ K \in Nat \ {0} /\ Start(K) \in Nat /\ Start(K) <= size
  BY ShapeTypes DEF WInv, ShapeInv
<1>2. segments' = segments /\ K' = K /\ size' = size + 1 /\ finalized' = finalized
      /\ curr_node' = curr_node /\ store' = store /\ ~finalized
  BY DEF Push, K
<1>3. Start(K)' = Start(K)
  BY <1>2 DEF Start
<1>4. size < Start(K) + Capacity
  <2>1. Start(K) + Capacity = K * Capacity
    BY <1>1, StartNext
  <2>2. size <= Start(K) + Capacity /\ size # K * Capacity
    BY DEF WInv, ShapeInv, Push, K
  <2>3. QED
    BY <1>1, <2>1, <2>2, ColumnAssumption
<1>5. ShapeInv'
  <2>1. Start(K)' <= size' /\ size' <= Start(K)' + Capacity /\ Start(K)' < size'
    BY <1>1, <1>2, <1>3, <1>4, ColumnAssumption
  <2>2. size' \in Nat
    BY <1>1, <1>2
  <2>3. QED
    BY <1>2, <2>1, <2>2 DEF WInv, ShapeInv
<1>6. cache'["writer"] = Slice(K, size' - Start(K))
  <2>1. cache["writer"] = Slice(K, size - Start(K))
    BY <1>2 DEF WInv, StoreInv
  <2>2. cache'["writer"] = Append(cache["writer"], size)
    BY DEF Push, WInv, StoreInv, Objects
  <2> DEFINE e == size - Start(K)
  <2>3. e \in Nat /\ size = Start(K) + e /\ size' - Start(K) = e + 1
    BY <1>1, <1>2
  <2> HIDE DEF e
  <2>4. Append(Slice(K, e), Start(K) + e) = Slice(K, e + 1)
    BY <1>1, <2>3, SliceAppend
  <2>5. cache["writer"] = Slice(K, e)
    BY <2>1 DEF e
  <2>6. QED
    BY <2>2, <2>3, <2>4, <2>5
<1>7. DOMAIN cache' = Objects
  BY DEF Push, WInv, StoreInv
<1>8. Slice(K, size - Start(K))' = Slice(K, size' - Start(K))
  BY <1>2 DEF Slice, Start
<1>9. StoreInv'
  BY <1>2, <1>6, <1>7, <1>8 DEF WInv, StoreInv, Slice, Start
<1>10. QED
  BY <1>5, <1>9 DEF WInv

\* A full segment is stored under its own key, which nothing has been stored
\* under, and the pushed value starts the next.
LEMMA PushExpandKeeps ==
  ASSUME NamesApart, WInv, PushExpand
  PROVE  WInv'
<1>1. size \in Nat /\ K \in Nat \ {0} /\ Start(K) \in Nat
  BY ShapeTypes DEF WInv
<1>2. ~finalized /\ finalized' = finalized /\ size = K * Capacity /\ size' = size + 1
      /\ segments' = Append(segments, Key(K, curr_node))
      /\ store' = Stored(store, segments[K], cache["writer"])
  BY DEF PushExpand, K, Last
<1>3. K < Limit
  BY <1>2, NextNamed DEF WInv, PushExpand, K
<1>4. size = Start(K) + Capacity /\ Start(K + 1) = size
  BY <1>1, <1>2, StartNext
<1>5. Key(K, curr_node) \in Keys /\ Key(K, curr_node).name = K
  BY <1>1, <1>3, NameShort DEF Key, Keys, WInv, ShapeInv
<1>6. /\ segments' \in Seq(Keys) /\ K' = K + 1
      /\ \A j \in 1 .. K : segments'[j] = segments[j]
      /\ segments'[K + 1] = Key(K, curr_node)
  BY <1>2, <1>5 DEF WInv, ShapeInv, K
<1>7. ShapeInv'
  <2>1. ASSUME NEW j \in 1 .. K + 1
        PROVE  segments'[j].name = j - 1
    <3>1. CASE j \in 1 .. K
      BY <1>6, <3>1 DEF WInv, ShapeInv
    <3>2. CASE j = K + 1
      BY <1>1, <1>5, <1>6, <3>2
    <3>3. QED
      BY <1>1, <3>1, <3>2
  <2>2. Start(K') = size
    BY <1>4, <1>6
  <2>3. size' \in Nat /\ K' \in 1 .. Limit /\ curr_node' \in 0 .. N - 1
    <3>1. curr_node' = (curr_node + 1) % N /\ curr_node + 1 \in Nat
      BY DEF PushExpand, WInv, ShapeInv
    <3>2. curr_node' \in 0 .. N - 1
      BY <3>1, Divided, ColumnAssumption
    <3>3. QED
      BY <1>1, <1>2, <1>3, <1>6, <3>2, ColumnAssumption
  <2>4. Start(K') <= size' /\ size' <= Start(K') + Capacity /\ Start(K') < size'
    BY <1>1, <1>2, <2>2, ColumnAssumption
  <2>5. Start(K)' = Start(K')
    BY DEF Start
  <2>6. QED
    BY <1>2, <1>6, <2>1, <2>3, <2>4, <2>5 DEF WInv, ShapeInv
<1>8. cache["writer"] = Slice(K, Capacity)
  <2>1. size - Start(K) = Capacity
    BY <1>1, <1>4, ColumnAssumption
  <2>2. QED
    BY <1>2, <2>1 DEF WInv, StoreInv
<1>9. DOMAIN store = {segments[j] : j \in 1 .. K - 1}
      /\ \A j \in 1 .. K - 1 : store[segments[j]] = Slice(j, Capacity)
  BY <1>2 DEF WInv, StoreInv
<1>10. \A j \in 1 .. K - 1 : segments[j] # segments[K]
  BY <1>1, SegmentsDiffer DEF WInv
<1>11. DOMAIN store' = {segments'[j] : j \in 1 .. K}
  <2>1. DOMAIN store' = (DOMAIN store) \cup {segments[K]}
    BY <1>2 DEF Stored
  <2>2. QED
    BY <1>1, <1>6, <1>9, <2>1
<1>12. \A j \in 1 .. K : store'[segments'[j]] = Slice(j, Capacity)
  <2>1. store'[segments[K]] = Slice(K, Capacity)
    BY <1>2, <1>8 DEF Stored
  <2>2. \A j \in 1 .. K - 1 : store'[segments[j]] = Slice(j, Capacity)
    BY <1>2, <1>9, <1>10 DEF Stored
  <2>3. QED
    BY <1>1, <1>6, <2>1, <2>2
<1>13. cache'["writer"] = Slice(K + 1, 1) /\ DOMAIN cache' = Objects
  <2>1. cache'["writer"] = <<size>> /\ DOMAIN cache' = Objects
    BY DEF PushExpand, WInv, StoreInv, Objects
  <2>2. Slice(K + 1, 1) = <<size>>
    <3>1. Append(Slice(K + 1, 0), size) = Slice(K + 1, 1)
      <4>1. K + 1 \in Nat \ {0} /\ 0 \in Nat
        BY <1>1
      <4>2. Append(Slice(K + 1, 0), Start(K + 1) + 0) = Slice(K + 1, 0 + 1)
        BY <4>1, SliceAppend
      <4>3. Start(K + 1) + 0 = size /\ 0 + 1 = 1
        BY <1>1, <1>4
      <4>4. QED
        BY <4>2, <4>3
    <3>2. Slice(K + 1, 0) = <<>>
      BY DEF Slice
    <3>3. Append(<<>>, size) = <<size>>
      BY <1>1
    <3>4. QED
      BY <3>1, <3>2, <3>3
  <2>3. QED
    BY <2>1, <2>2
<1>14. StoreInv'
  <2>1. K' - 1 = K /\ size' - Start(K') = 1
    BY <1>1, <1>2, <1>4, <1>6
  <2>2. finalized' = FALSE
    BY <1>2 DEF WInv, ShapeInv
  <2>3. Slice(K, size - Start(K))' = Slice(K', size' - Start(K'))
    BY DEF Slice, Start
  <2>4. \A j \in 1 .. K : Slice(j, Capacity)' = Slice(j, Capacity)
    BY DEF Slice, Start
  <2>5. DOMAIN store' = {segments'[j] : j \in 1 .. IF finalized' THEN K' ELSE K' - 1}
    BY <1>11, <2>1, <2>2
  <2>6. \A j \in 1 .. K' - 1 : store'[segments'[j]] = Slice(j, Capacity)
    BY <1>12, <2>1
  <2>7. cache'["writer"] = Slice(K', size' - Start(K'))
    BY <1>6, <1>13, <2>1
  <2>8. QED
    BY <1>13, <2>2, <2>3, <2>4, <2>5, <2>6, <2>7 DEF StoreInv, Slice, Start
<1>15. QED
  BY <1>7, <1>14 DEF WInv

LEMMA FinalizeKeeps ==
  ASSUME WInv, Finalize
  PROVE  WInv'
<1>1. size \in Nat /\ K \in Nat \ {0} /\ Start(K) \in Nat
  BY ShapeTypes DEF WInv
<1>2. ~finalized /\ finalized' /\ segments' = segments /\ size' = size
      /\ store' = Stored(store, segments[K], cache["writer"])
      /\ cache' = cache /\ curr_node' = curr_node
  BY DEF Finalize, K, Last
<1>3. ShapeInv'
  BY <1>2 DEF WInv, ShapeInv, K, Start, Finalize
<1>4. DOMAIN store = {segments[j] : j \in 1 .. K - 1}
      /\ (\A j \in 1 .. K - 1 : store[segments[j]] = Slice(j, Capacity))
      /\ cache["writer"] = Slice(K, size - Start(K))
  BY <1>2 DEF WInv, StoreInv
<1>5. \A j \in 1 .. K - 1 : segments[j] # segments[K]
  BY <1>1, SegmentsDiffer DEF WInv
<1>6. DOMAIN store' = {segments[j] : j \in 1 .. K}
  <2>1. DOMAIN store' = (DOMAIN store) \cup {segments[K]}
    BY <1>2 DEF Stored
  <2>2. QED
    BY <1>1, <1>4, <2>1
<1>7. store'[segments[K]] = Slice(K, size - Start(K))
  BY <1>2, <1>4 DEF Stored
<1>8. \A j \in 1 .. K - 1 : store'[segments[j]] = Slice(j, Capacity)
  BY <1>2, <1>4, <1>5 DEF Stored
<1>9. StoreInv'
  BY <1>2, <1>6, <1>7, <1>8 DEF WInv, StoreInv, Slice, Start, K
<1>10. QED
  BY <1>3, <1>9 DEF WInv

\* What reading disturbs is no part of WInv.
LEMMA GetKeeps ==
  ASSUME WInv, NEW o \in Objects, NEW i \in 0 .. size - 1, Get(o, i)
  PROVE  WInv'
<1>1. finalized /\ finalized' = finalized /\ segments' = segments /\ size' = size
      /\ store' = store /\ curr_node' = curr_node
      /\ DOMAIN cache' = DOMAIN cache
  BY DEF Get
<1>2. ShapeInv'
  BY <1>1 DEF WInv, ShapeInv, K, Start
<1>3. StoreInv'
  BY <1>1 DEF WInv, StoreInv, Slice, Start, K
<1>4. QED
  BY <1>2, <1>3 DEF WInv

LEMMA WInvNext ==
  ASSUME NamesApart, WInv, [Next]_vars
  PROVE  WInv'
<1>1. CASE Push
  BY <1>1, PushKeeps
<1>2. CASE PushExpand
  BY <1>2, PushExpandKeeps
<1>3. CASE Finalize
  BY <1>3, FinalizeKeeps
<1>4. ASSUME NEW o \in Objects, NEW i \in 0 .. size - 1, Get(o, i)
      PROVE  WInv'
  BY <1>4, GetKeeps
<1>5. CASE UNCHANGED vars
  BY <1>5 DEF vars, WInv, ShapeInv, StoreInv, Slice, Start, K
<1>6. QED
  BY <1>1, <1>2, <1>3, <1>4, <1>5 DEF Next

LEMMA WInvCorrect == NamesApart => (Spec => []WInv)
<1> SUFFICES ASSUME NamesApart PROVE Spec => []WInv
  OBVIOUS
<1>1. WInv /\ [Next]_vars => WInv'
  BY WInvNext
<1>2. QED
  BY <1>1, WInvInit, PTL DEF Spec

-----------------------------------------------------------------------------

\* Once stored, a segment stays as it is: push_back and finalize put under the
\* last key only, and expand_ never takes a key again (column.h:167-173,
\* 205-210, 243-251).
THEOREM OnceCorrect == NamesApart => (Spec => SegmentsPutOnce)
<1> SUFFICES ASSUME NamesApart PROVE Spec => SegmentsPutOnce
  OBVIOUS
<1> DEFINE Once == \A k \in DOMAIN store : k \in DOMAIN store' /\ store'[k] = store[k]
<1>1. ASSUME NEW array, WInv, ~finalized, store' = Stored(store, segments[K], array)
      PROVE  Once
  <2>1. DOMAIN store = {segments[j] : j \in 1 .. K - 1} /\ K \in Nat \ {0}
    BY <1>1, ShapeTypes DEF WInv, StoreInv
  <2>2. \A j \in 1 .. K - 1 : segments[j] # segments[K]
    BY <1>1, <2>1, SegmentsDiffer DEF WInv
  <2>3. QED
    BY <1>1, <2>1, <2>2 DEF Stored
<1>2. ASSUME WInv, [Next]_vars
      PROVE  [Once]_vars
  <2>1. CASE PushExpand
    BY <1>1, <1>2, <2>1 DEF PushExpand, Last, K
  <2>2. CASE Finalize
    BY <1>1, <1>2, <2>2 DEF Finalize, Last, K
  <2>3. CASE UNCHANGED store
    BY <2>3
  <2>4. QED
    BY <1>2, <2>1, <2>2, <2>3 DEF Next, Push, Get, vars
<1>3. QED
  BY <1>2, WInvCorrect, PTL DEF Spec, SegmentsPutOnce

\* The segment of an index of the column, and the index's place in it.
LEMMA IndexInside ==
  ASSUME ShapeInv, NEW v \in Nat, v < size
  PROVE  /\ v \div Capacity + 1 \in 1 .. K
         /\ Start(v \div Capacity + 1) \in Nat
         /\ v % Capacity \in 0 .. Capacity - 1
         /\ v = Start(v \div Capacity + 1) + (v % Capacity)
<1> DEFINE j == v \div Capacity + 1
           r == v % Capacity
<1>1. v \div Capacity \in Nat /\ v % Capacity \in 0 .. Capacity - 1
      /\ v = Start(v \div Capacity + 1) + (v % Capacity)
  BY Located
<1>2. j \in Nat \ {0} /\ Start(j) \in Nat /\ r \in 0 .. Capacity - 1 /\ v = Start(j) + r
  BY <1>1, StartNext
<1> HIDE DEF j, r
<1>3. size \in Nat /\ K \in Nat \ {0} /\ Start(K) \in Nat /\ size <= Start(K) + Capacity
  BY ShapeTypes DEF ShapeInv
<1>4. K < j => Start(K) + Capacity <= Start(j)
  BY <1>2, <1>3, StartMonotone
<1>5. j \in 1 .. K
  BY <1>2, <1>3, <1>4, ColumnAssumption
<1>6. QED
  BY <1>2, <1>5 DEF j, r

\* Where the i-th segment's indices end.
LEMMA EndIs ==
  ASSUME ShapeInv, size > 0, NEW i \in 1 .. K
  PROVE  /\ i < K => End(Capacity, i) = Start(i) + Capacity
         /\ i = K => End(Capacity, i) = size
<1>1. size \in Nat /\ K \in Nat \ {0} /\ Start(K) \in Nat /\ i \in Nat
  BY ShapeTypes
<1>2. i * Capacity = Start(i) + Capacity
  BY <1>1, StartNext
<1>3. CASE i < K
  BY <1>1, <1>2, <1>3 DEF End, K
<1>4. CASE i = K
  <2> DEFINE r == size - Start(K)
  <2>1. r \in 1 .. Capacity /\ size = Start(K) + r
    <3>1. Start(1) = 0
      BY ColumnAssumption DEF Start
    <3>2. Start(K) < size
      BY <1>1, <3>1 DEF ShapeInv
    <3>3. QED
      BY <1>1, <3>2, ColumnAssumption DEF ShapeInv
  <2> HIDE DEF r
  <2>2. CASE r = Capacity
    <3>1. size = K * Capacity
      BY <1>1, <1>2, <1>4, <2>1, <2>2
    <3>2. size = K * Capacity + 0
      BY <1>1, <3>1
    <3>3. size % Capacity = 0
      BY <1>1, <3>2, Remainder, ColumnAssumption
    <3>4. QED
      BY <1>4, <3>1, <3>3 DEF End
  <2>3. CASE r < Capacity
    <3>1. size = (K - 1) * Capacity + r /\ K - 1 \in Nat /\ r \in Nat
      BY <1>1, <2>1 DEF Start
    <3>2. size % Capacity = r
      BY <1>1, <2>3, <3>1, Remainder, ColumnAssumption
    <3>3. End(Capacity, i) = (K - 1) * Capacity + (size % Capacity)
      BY <1>1, <1>4, <2>1, <3>2 DEF End, K
    <3>4. QED
      BY <1>4, <3>1, <3>2, <3>3
  <2>4. QED
    BY <2>1, <2>2, <2>3, ColumnAssumption
<1>5. QED
  BY <1>1, <1>3, <1>4

\* An index is in the list of the node of its segment, and in no other.
LEMMA LocalIs ==
  ASSUME ShapeInv, size > 0, NEW n \in 0 .. N - 1, NEW v
  PROVE  v \in local_indices("writer", n)
           <=> v \in Values /\ segments[v \div Capacity + 1].node = n
<1>1. size \in Nat /\ K \in Nat \ {0} /\ Start(K) \in Nat /\ DOMAIN segments = 1 .. K
      /\ Start(K) <= size /\ size <= Start(K) + Capacity /\ Capacity \in Nat \ {0}
  BY ShapeTypes, ColumnAssumption DEF ShapeInv, K
<1>2. \A i \in 1 .. K : End(Capacity, i) = IF i < K THEN Start(i) + Capacity ELSE size
  BY <1>1, EndIs
<1>3. ASSUME NEW i \in 1 .. K
      PROVE  Start(i) \in Nat
  <2>1. i \in Nat /\ i > 0
    BY <1>1
  <2>2. QED
    BY <2>1, StartNext
<1>4. \A i \in 1 .. K : End(Capacity, i) <= Start(i) + Capacity /\ End(Capacity, i) <= size
                       /\ End(Capacity, i) \in Nat
  <2>1. \A i \in 1 .. K : i < K => Start(i) + Capacity <= Start(K)
    BY <1>1, StartMonotone
  <2>2. QED
    BY <1>1, <1>2, <1>3, <2>1
<1>5. v \in local_indices("writer", n)
        <=> \E i \in 1 .. K : segments[i].node = n /\ v \in Start(i) .. End(Capacity, i) - 1
  BY <1>1 DEF local_indices, CapacityOf, Start
<1>6. ASSUME NEW i \in 1 .. K, segments[i].node = n, v \in Start(i) .. End(Capacity, i) - 1
      PROVE  v \in Values /\ segments[v \div Capacity + 1].node = n
  <2>1. v \in Nat /\ v \in Values /\ Start(i) <= v /\ v < Start(i) + Capacity
    BY <1>1, <1>3, <1>4, <1>6 DEF Values
  <2>2. v \div Capacity + 1 = i
    <3>1. v \div Capacity \in Nat /\ v % Capacity \in 0 .. Capacity - 1
          /\ v = Start(v \div Capacity + 1) + (v % Capacity)
      BY <2>1, Located
    <3> DEFINE j == v \div Capacity + 1
               r == v % Capacity
    <3>2. j \in Nat /\ Start(j) \in Int /\ r \in 0 .. Capacity - 1 /\ v = Start(j) + r
      BY <3>1, StartNext
    <3> HIDE DEF j, r
    <3>3. Start(j) <= v /\ v < Start(j) + Capacity
      BY <1>1, <2>1, <3>2
    <3>4. j = i
      BY <1>1, <2>1, <3>2, <3>3, OneSegment
    <3>5. QED
      BY <3>4 DEF j
  <2>3. QED
    BY <1>6, <2>1, <2>2
<1>7. ASSUME v \in Values, segments[v \div Capacity + 1].node = n
      PROVE  \E i \in 1 .. K : segments[i].node = n /\ v \in Start(i) .. End(Capacity, i) - 1
  <2> DEFINE j == v \div Capacity + 1
             r == v % Capacity
  <2>1. v \in Nat /\ v < size
    BY <1>1, <1>7 DEF Values
  <2>2. j \in 1 .. K /\ Start(j) \in Nat /\ r \in 0 .. Capacity - 1 /\ v = Start(j) + r
        /\ segments[j].node = n
    BY <1>7, <2>1, IndexInside
  <2> HIDE DEF j, r
  <2>3. v \in Start(j) .. End(Capacity, j) - 1
    <3>1. End(Capacity, j) = IF j < K THEN Start(j) + Capacity ELSE size
      BY <1>2, <2>2
    <3>2. v < End(Capacity, j)
      BY <1>1, <2>1, <2>2, <3>1
    <3>3. End(Capacity, j) \in Nat /\ Start(j) <= v
      BY <1>1, <2>1, <2>2, <3>1
    <3>4. QED
      BY <2>1, <2>2, <3>2, <3>3
  <2>4. QED
    BY <2>2, <2>3
<1>8. QED
  BY <1>5, <1>6, <1>7

\* local_map visits each row of a final column that has rows on exactly one node
\* (column.h:138-160).
THEOREM PartitionCorrect == NamesApart => (Spec => []LocalPartition)
<1> SUFFICES ASSUME NamesApart PROVE Spec => []LocalPartition
  OBVIOUS
<1>1. WInv => LocalPartition
  <2> SUFFICES ASSUME WInv, finalized, size > 0
               PROVE  /\ \A n \in 0 .. N - 1 : local_indices("writer", n) \subseteq Values
                      /\ \A i \in Values : \E n \in 0 .. N - 1 :
                           \A m \in 0 .. N - 1 : i \in local_indices("writer", m) <=> m = n
    BY DEF LocalPartition
  <2>1. \A n \in 0 .. N - 1 : \A v :
          v \in local_indices("writer", n) <=> v \in Values /\ segments[v \div Capacity + 1].node = n
    BY LocalIs DEF WInv
  <2>2. ASSUME NEW i \in Values
        PROVE  segments[i \div Capacity + 1].node \in 0 .. N - 1
    <3>1. i \in Nat /\ i < size /\ size \in Nat /\ K \in Nat \ {0} /\ Start(K) \in Nat
      BY ShapeTypes DEF WInv, Values
    <3>2. i \div Capacity + 1 \in 1 .. K
      BY <3>1, IndexInside DEF WInv
    <3>3. \A j \in 1 .. K : segments[j] \in Keys
      BY DEF WInv, ShapeInv, K
    <3>4. QED
      BY <3>2, <3>3 DEF Keys
  <2>3. QED
    BY <2>1, <2>2
<1>2. QED
  BY <1>1, WInvCorrect, PTL

-----------------------------------------------------------------------------

\* How many values the j-th segment of a final column has.
Extent(j) == IF j < K THEN Capacity ELSE size - Start(K)

LEMMA ExtentIs ==
  ASSUME ShapeInv, NEW j \in 1 .. K
  PROVE  /\ Extent(j) \in 0 .. Capacity /\ Start(j) \in Nat /\ Start(j) + Extent(j) <= size
         /\ \A v \in Nat : v < size /\ Start(j) <= v /\ v < Start(j) + Capacity
                           => v - Start(j) < Extent(j)
<1>1. size \in Nat /\ K \in Nat \ {0} /\ Start(K) \in Nat /\ j \in Nat \ {0}
      /\ Start(K) <= size /\ size <= Start(K) + Capacity /\ Capacity \in Nat \ {0}
  BY ShapeTypes, ColumnAssumption DEF ShapeInv
<1>2. Start(j) \in Nat
  <2>1. j \in Nat /\ j > 0
    BY <1>1
  <2>2. QED
    BY <2>1, StartNext
<1>3. CASE j < K
  <2>1. Extent(j) = Capacity /\ Start(j) + Capacity <= Start(K)
    BY <1>1, <1>3, StartMonotone DEF Extent
  <2>2. QED
    BY <1>1, <1>2, <2>1
<1>4. CASE j = K
  <2>1. Extent(j) = size - Start(j)
    BY <1>1, <1>4 DEF Extent
  <2>2. QED
    BY <1>1, <1>2, <1>4, <2>1
<1>5. QED
  BY <1>1, <1>3, <1>4

\* A part of the column's values.
LEMMA SliceValues ==
  ASSUME ShapeInv, NEW j \in 1 .. K, NEW e \in Nat, Start(j) + e <= size
  PROVE  Slice(j, e) \in Seq(Values) /\ Len(Slice(j, e)) = e
<1>1. size \in Nat /\ j \in Nat \ {0}
  BY DEF ShapeInv
<1>2. Start(j) \in Nat
  BY <1>1, StartNext
<1>3. \A x \in 1 .. e : Start(j) + x - 1 \in Values
  BY <1>1, <1>2 DEF Values
<1>4. Len(Slice(j, e)) = e
  BY <1>1, SliceIsSeq
<1>5. Slice(j, e) \in Seq(Values)
  BY <1>3 DEF Slice
<1>6. QED
  BY <1>4, <1>5

LEMMA SegmentsFull ==
  ASSUME WInv, finalized, NEW j \in 1 .. K
  PROVE  store[segments[j]] = Slice(j, Extent(j))
<1>1. K \in Nat \ {0}
  BY DEF WInv, ShapeInv
<1>2. CASE j < K
  BY <1>1, <1>2 DEF WInv, StoreInv, Extent
<1>3. CASE j = K
  BY <1>1, <1>3 DEF WInv, StoreInv, Extent
<1>4. QED
  BY <1>1, <1>2, <1>3

\* The array get finds for an index is its segment's, from the cache or from the
\* store, and the value at the remainder is the index's.
LEMMA GetReturns ==
  ASSUME SameCapacity, WInv, CacheInv, NEW o \in Objects, NEW i \in 0 .. size - 1, Get(o, i)
  PROVE  \E j \in 1 .. K : /\ Segment(o, i) = segments[j]
                           /\ Fetched(o, i) = store[segments[j]]
                           /\ At(Fetched(o, i), i % CapacityOf(o)) = i
<1> DEFINE j == i \div Capacity + 1
           r == i % Capacity
<1>1. i \in Nat /\ i < size /\ size \in Nat
  BY DEF WInv, ShapeInv
<1>2. CapacityOf(o) = Capacity
  BY DEF CapacityOf, SameCapacity
<1>3. j \in 1 .. K /\ Start(j) \in Nat /\ r \in 0 .. Capacity - 1 /\ i = Start(j) + r
  BY <1>1, IndexInside DEF WInv
<1>4. Segment(o, i) = segments[j] /\ i % CapacityOf(o) = r
  BY <1>2 DEF Segment
<1> HIDE DEF j, r
<1>5. segments[j].name \in Nat /\ segments[j].name # None
  <2>1. segments[j].name = j - 1 /\ K \in Nat
    BY <1>3 DEF WInv, ShapeInv
  <2>2. QED
    BY <1>3, <2>1, ColumnAssumption
<1>6. Fetched(o, i) = store[segments[j]]
  <2>1. CASE segments[j].name = cache_key[o]
    <3>1. PICK m \in 1 .. K : cache_key[o] = segments[m].name /\ cache[o] = store[segments[m]]
      BY <1>5, <2>1 DEF CacheInv
    <3>2. m = j
      BY <1>3, <2>1, <3>1, SegmentsDiffer DEF WInv
    <3>3. QED
      BY <1>4, <2>1, <3>1, <3>2 DEF Fetched
  <2>2. CASE segments[j].name # cache_key[o]
    BY <1>4, <2>2 DEF Fetched
  <2>3. QED
    BY <2>1, <2>2
<1>7. At(Fetched(o, i), r) = i
  <2>1. Fetched(o, i) = Slice(j, Extent(j))
    BY <1>3, <1>6, SegmentsFull DEF Get
  <2>2. Extent(j) \in Nat /\ r < Extent(j)
    <3>1. Start(j) <= i /\ i < Start(j) + Capacity /\ r = i - Start(j)
      BY <1>1, <1>3, ColumnAssumption
    <3>2. Extent(j) \in 0 .. Capacity /\ i - Start(j) < Extent(j)
      BY <1>1, <1>3, <3>1, ExtentIs DEF WInv
    <3>3. QED
      BY <3>1, <3>2
  <2>3. j \in Nat \ {0} /\ r \in Nat /\ r + 1 \in 1 .. Extent(j)
    BY <1>3, <2>2 DEF WInv, ShapeInv
  <2>4. Len(Slice(j, Extent(j))) = Extent(j)
        /\ Slice(j, Extent(j))[r + 1] = Start(j) + (r + 1) - 1
    BY <2>2, <2>3, SliceIsSeq
  <2>5. QED
    BY <1>1, <1>3, <2>1, <2>2, <2>3, <2>4 DEF At
<1>8. QED
  BY <1>3, <1>4, <1>6, <1>7

\* The caches follow the store; only get gives them a key.
LEMMA CacheInvNext ==
  ASSUME SameCapacity, WInv, WInv', CacheInv, [Next]_vars
  PROVE  CacheInv'
<1>1. CASE Push \/ PushExpand
  <2>1. ~finalized /\ ~finalized' /\ cache_key' = cache_key /\ got' = got
        /\ cache'["reader"] = cache["reader"]
    BY <1>1 DEF Push, PushExpand, WInv, StoreInv, Objects
  <2>2. cache'["writer"] = Slice(K, size - Start(K))'
    BY <2>1 DEF WInv, StoreInv
  <2>3. cache' = [o \in Objects |-> cache'[o]]
    BY <1>1 DEF CacheInv, Push, PushExpand
  <2>4. got = None /\ \A o \in Objects : cache_key[o] = None
    BY <2>1 DEF CacheInv
  <2>5. cache_key["reader"] = None => cache["reader"] = <<>>
    BY DEF CacheInv
  <2>6. QED
    BY <2>1, <2>2, <2>3, <2>4, <2>5 DEF CacheInv, Objects
<1>2. CASE Finalize
  <2>1. ~finalized /\ finalized' /\ cache_key' = cache_key /\ got' = got /\ cache' = cache
        /\ size' = size /\ segments' = segments
    BY <1>2 DEF Finalize
  <2>2. got = None /\ \A o \in Objects : cache_key[o] = None
    BY <2>1 DEF CacheInv
  <2>3. QED
    BY <2>1, <2>2 DEF CacheInv, Objects, Slice, Start, K
<1>3. ASSUME NEW o \in Objects, NEW i \in 0 .. size - 1, Get(o, i)
      PROVE  CacheInv'
  <2>1. PICK j \in 1 .. K : Segment(o, i) = segments[j] /\ Fetched(o, i) = store[segments[j]]
    BY <1>3, GetReturns
  <2>2. /\ finalized' = finalized /\ finalized /\ segments' = segments /\ size' = size
        /\ store' = store /\ K' = K
        /\ cache' = [cache EXCEPT ![o] = store[segments[j]]]
        /\ cache_key' = [cache_key EXCEPT ![o] = segments[j].name]
        /\ got'.object = o /\ got'.index = i
    BY <1>3, <2>1 DEF Get, K
  <2>3. segments[j].name # None
    <3>1. \A m \in 1 .. K : segments[m].name = m - 1
      BY DEF WInv, ShapeInv
    <3>2. j - 1 \in Nat
      BY DEF WInv, ShapeInv
    <3>3. QED
      BY <3>1, <3>2, ColumnAssumption
  <2>4. DOMAIN cache = Objects /\ DOMAIN cache_key = Objects
    BY DEF CacheInv, WInv, StoreInv
  <2>5. ASSUME NEW p \in Objects
        PROVE  /\ cache_key'[p] # None => \E m \in 1 .. K : cache_key'[p] = segments[m].name
                                                       /\ cache'[p] = store[segments[m]]
               /\ cache_key'[p] = None => cache_key[p] = None /\ cache'[p] = cache[p]
    <3>1. CASE p = o
      BY <2>2, <2>3, <2>4, <3>1
    <3>2. CASE p # o
      BY <2>2, <2>4, <3>2 DEF CacheInv
    <3>3. QED
      BY <3>1, <3>2
  <2>6. Slice(K, size - Start(K))' = Slice(K, size - Start(K)) /\ Values' = Values
    BY <2>2 DEF Slice, Start, Values
  <2>7. cache' = [p \in Objects |-> cache'[p]] /\ cache_key' = [p \in Objects |-> cache_key'[p]]
    BY <2>2, <2>4
  <2>8. cache_key'["writer"] = None => cache'["writer"] = Slice(K, size - Start(K))'
    BY <2>5, <2>6 DEF CacheInv, Objects
  <2>9. cache_key'["reader"] = None => cache'["reader"] = <<>>
    BY <2>5 DEF CacheInv, Objects
  <2>10. got'.object \in Objects /\ got'.index \in Values
    BY <2>2 DEF Values
  <2>11. QED
    <3>1. \A p \in Objects : cache_key'[p] # None =>
            \E m \in 1 .. K' : cache_key'[p] = segments'[m].name /\ cache'[p] = store'[segments'[m]]
      BY <2>2, <2>5
    <3>2. got' # None => got'.object \in Objects /\ got'.index \in Values'
      BY <2>6, <2>10
    <3>3. QED
      BY <2>2, <2>7, <2>8, <2>9, <3>1, <3>2 DEF CacheInv
<1>4. CASE UNCHANGED vars
  BY <1>4 DEF vars, CacheInv, Slice, Start, Values, K
<1>5. QED
  BY <1>1, <1>2, <1>3, <1>4 DEF Next

LEMMA CacheInvInit ==
  ASSUME Init
  PROVE  CacheInv
<1>1. Init => WInv
  BY WInvInit
<1>2. cache["writer"] = Slice(K, size - Start(K)) /\ cache["reader"] = <<>>
  BY <1>1 DEF Init, WInv, StoreInv, Objects
<1>3. QED
  BY <1>2 DEF Init, CacheInv, Objects

LEMMA ReadRight ==
  ASSUME SameCapacity, WInv, CacheInv, RoundTrip, [Next]_vars
  PROVE  RoundTrip'
<1>1. ASSUME NEW o \in Objects, NEW i \in 0 .. size - 1, Get(o, i)
      PROVE  RoundTrip'
  <2>1. cache'[o] = Fetched(o, i)
    BY <1>1 DEF Get, WInv, StoreInv
  <2>2. got'.index = i /\ got'.value = At(cache'[o], i % CapacityOf(o))
    BY <1>1 DEF Get
  <2>3. At(Fetched(o, i), i % CapacityOf(o)) = i
    BY <1>1, GetReturns
  <2>4. QED
    BY <2>1, <2>2, <2>3 DEF RoundTrip
<1>2. CASE got' = got
  BY <1>2 DEF RoundTrip
<1>3. QED
  BY <1>1, <1>2 DEF Next, Push, PushExpand, Finalize, vars

\* The types follow from what the store and the caches hold.
LEMMA InvTyped ==
  ASSUME WInv, CacheInv
  PROVE  TypeOK
<1>1. size \in Nat /\ curr_node \in 0 .. N - 1 /\ finalized \in BOOLEAN
      /\ segments \in Seq(Keys) /\ segments # <<>> /\ K \in Nat \ {0} /\ Start(K) \in Nat
      /\ Start(K) <= size /\ size <= Start(K) + Capacity /\ Capacity \in Nat \ {0}
  BY ShapeTypes, ColumnAssumption DEF WInv, ShapeInv, K
<1>2. \A j \in 1 .. K : segments[j] \in Keys /\ segments[j].name \in Nat
  <2>1. \A j \in 1 .. K : segments[j] \in Keys
    BY <1>1 DEF K
  <2>2. QED
    BY <2>1 DEF Keys
<1>3. ASSUME NEW j \in 1 .. K
      PROVE  /\ Slice(j, Extent(j)) \in Seq(Values) /\ Len(Slice(j, Extent(j))) <= Capacity
             /\ j < K => Extent(j) = Capacity
             /\ j = K => Extent(j) = size - Start(K)
  <2>1. Extent(j) \in Nat /\ Extent(j) <= Capacity /\ Start(j) + Extent(j) <= size
    BY <1>1, ExtentIs DEF WInv
  <2>2. Slice(j, Extent(j)) \in Seq(Values) /\ Len(Slice(j, Extent(j))) = Extent(j)
    BY <2>1, SliceValues DEF WInv
  <2>3. QED
    BY <1>1, <2>1, <2>2 DEF Extent
<1>4. ASSUME NEW k \in DOMAIN store
      PROVE  k \in Keys /\ store[k] \in Seq(Values) /\ Len(store[k]) <= Capacity
  <2>1. PICK j \in 1 .. K : k = segments[j] /\ store[k] = Slice(j, Extent(j))
    <3>1. CASE finalized
      BY <3>1, SegmentsFull DEF WInv, StoreInv
    <3>2. CASE ~finalized
      <4>1. PICK j \in 1 .. K - 1 : k = segments[j] /\ store[k] = Slice(j, Capacity)
        BY <1>4, <3>2 DEF WInv, StoreInv
      <4>2. j \in 1 .. K /\ Extent(j) = Capacity
        BY <1>1, <1>3
      <4>3. QED
        BY <4>1, <4>2
    <3>3. QED
      BY <3>1, <3>2
  <2>2. QED
    BY <1>2, <1>3, <2>1
<1>5. Slice(K, size - Start(K)) \in Seq(Values) /\ Len(Slice(K, size - Start(K))) <= Capacity
  <2>1. K \in 1 .. K /\ Extent(K) = size - Start(K)
    BY <1>1, <1>3
  <2>2. QED
    BY <1>3, <2>1
<1>6. ASSUME NEW o \in Objects
      PROVE  /\ cache[o] \in Seq(Values) /\ Len(cache[o]) <= Capacity
             /\ cache_key[o] \in Nat \cup {None}
  <2>1. CASE cache_key[o] = None
    <3>1. CASE o = "writer"
      BY <1>5, <2>1, <3>1 DEF CacheInv
    <3>2. CASE o = "reader"
      <4>1. cache[o] = <<>> /\ Len(<<>>) = 0
        BY <2>1, <3>2 DEF CacheInv
      <4>2. QED
        BY <1>1, <2>1, <4>1
    <3>3. QED
      BY <3>1, <3>2 DEF Objects
  <2>2. CASE cache_key[o] # None
    <3>1. PICK j \in 1 .. K : cache_key[o] = segments[j].name /\ cache[o] = store[segments[j]]
      BY <2>2 DEF CacheInv
    <3>2. finalized
      BY <2>2 DEF CacheInv
    <3>3. store[segments[j]] = Slice(j, Extent(j))
      BY <3>2, SegmentsFull
    <3>4. QED
      BY <1>2, <1>3, <3>1, <3>3
  <2>3. QED
    BY <2>1, <2>2
<1>7. got = None \/ (got.object \in Objects /\ got.index \in Values)
  BY DEF CacheInv
<1>8. cache \in [Objects -> Seq(Values)] /\ cache_key \in [Objects -> Nat \cup {None}]
  BY <1>6 DEF WInv, StoreInv, CacheInv
<1>9. QED
  BY <1>1, <1>4, <1>6, <1>7, <1>8 DEF TypeOK, Objects

LEMMA InvCorrect == NamesApart /\ SameCapacity => (Spec => [](WInv /\ CacheInv /\ RoundTrip))
<1> SUFFICES ASSUME NamesApart, SameCapacity PROVE Spec => [](WInv /\ CacheInv /\ RoundTrip)
  OBVIOUS
<1>1. Init => WInv /\ CacheInv /\ RoundTrip
  BY WInvInit, CacheInvInit DEF Init, RoundTrip
<1>2. WInv /\ CacheInv /\ RoundTrip /\ [Next]_vars => (WInv /\ CacheInv /\ RoundTrip)'
  BY WInvNext, CacheInvNext, ReadRight
<1>3. QED
  BY <1>1, <1>2, PTL DEF Spec

\* get returns the value pushed at its index, to the writer and to readers,
\* whatever their caches held before (column.h:253-274).
THEOREM RoundTripCorrect == NamesApart /\ SameCapacity => (Spec => []RoundTrip)
<1> SUFFICES ASSUME NamesApart, SameCapacity PROVE Spec => []RoundTrip
  OBVIOUS
<1>1. QED
  BY InvCorrect, PTL

\* The state keeps its types: what is stored and cached are values of the column,
\* no more than a segment's capacity at a time (column.h:243-274).
THEOREM TypeCorrect == NamesApart /\ SameCapacity => (Spec => []TypeOK)
<1> SUFFICES ASSUME NamesApart, SameCapacity PROVE Spec => []TypeOK
  OBVIOUS
<1>1. WInv /\ CacheInv => TypeOK
  BY InvTyped
<1>2. QED
  BY <1>1, InvCorrect, PTL

=============================================================================
