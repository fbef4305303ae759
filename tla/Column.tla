------------------------------- MODULE Column -------------------------------
(***************************************************************************)
(* A column of a data frame (dataframe/column.h): values are pushed into   *)
(* an array, the cache, which is put in the store as a segment when it is  *)
(* full; segments go round the nodes.  Once finalized, the column is read  *)
(* by index by its writer and, after its description (size and segment     *)
(* keys) has been serialized, by readers on other nodes, each with a cache *)
(* of one segment.                                                         *)
(*                                                                         *)
(* Values are only moved about, so the i-th value pushed is i, and a       *)
(* column is right when it returns i at index i.  The store takes a        *)
(* segment at once: what is on its way to another node is Cluster's.       *)
(***************************************************************************)
EXTENDS Integers, Sequences

CONSTANTS
  Capacity,     \* segment_capacity_ of the writer's column
  Default,      \* DEFAULT_SEGMENT_CAPACITY, the capacity of a reader's
  N,            \* KVStore::num_nodes
  Sizes,        \* the sizes at which the application finalizes the column
  Base, Limit,  \* a segment's number is written in base Base, and its first
                \* digits, which tell Limit numbers apart, end up in its name
  None          \* nothing yet

ASSUME ColumnAssumption ==
  /\ Capacity \in Nat \ {0} /\ Default \in Nat \ {0} /\ N \in Nat \ {0}
  /\ Base \in Nat \ {0, 1} /\ Limit \in Nat \ {0}
  /\ Sizes \in SUBSET Nat /\ None \notin Nat

Objects == {"writer", "reader"}
CapacityOf(o) == IF o = "writer" THEN Capacity ELSE Default

VARIABLES
  size,         \* Column::size_
  segments,     \* Column::segments_, the keys
  curr_node,    \* Column::curr_node_
  finalized,    \* Column::finalized_
  store,        \* the segments in the stores of all nodes, by key
  cache,        \* cache[o]: the values in Column::cache_ of object o
  cache_key,    \* Column::cache_key_, by its name
  got           \* the last read: who, at which index, which value

vars == <<size, segments, curr_node, finalized, store, cache, cache_key, got>>

\* snprintf into a buffer of 15 characters: ten of the column's identifier, an
\* underscore, and as many of the segment's digits as fit.
Name(i) ==
  IF i < Limit THEN i
  ELSE i \div Base ^ (CHOOSE k \in 1 .. i : i \div Base ^ k < Limit
                                           /\ i \div Base ^ (k - 1) >= Limit)

Key(i, node) == [name |-> Name(i), node |-> node]
Last(s) == s[Len(s)]

\* put_in_store_: the cache becomes the value of the last segment's key.
Stored(st, k, array) == [x \in (DOMAIN st) \cup {k} |-> IF x = k THEN array ELSE st[x]]

\* The constructor, with its call of expand_.
Init ==
  /\ size = 0
  /\ segments = <<Key(0, 0)>>
  /\ curr_node = 1 % N
  /\ finalized = FALSE
  /\ store = [k \in {} |-> <<>>]
  /\ cache = [o \in Objects |-> <<>>]
  /\ cache_key = [o \in Objects |-> None]
  /\ got = None

\* push_back while the last segment has room.
Push ==
  /\ ~finalized /\ size # Len(segments) * Capacity /\ \E n \in Sizes : size < n
  /\ cache' = [cache EXCEPT !["writer"] = Append(@, size)]
  /\ size' = size + 1
  /\ UNCHANGED <<segments, curr_node, finalized, store, cache_key, got>>

\* Mutant: expand_ keeps the full array.
PushExpand_KeepsCache ==
  /\ ~finalized /\ size = Len(segments) * Capacity /\ \E n \in Sizes : size < n
  /\ store' = Stored(store, Last(segments), cache["writer"])
  /\ segments' = Append(segments, Key(Len(segments), curr_node))
  /\ curr_node' = (curr_node + 1) % N
  /\ cache' = [cache EXCEPT !["writer"] = Append(@, size)]
  /\ size' = size + 1
  /\ UNCHANGED <<finalized, cache_key, got>>

\* Mutant: expand_ comes before put_in_store_.
PushExpand_ExpandsFirst ==
  /\ ~finalized /\ size = Len(segments) * Capacity /\ \E n \in Sizes : size < n
  /\ store' = Stored(store, Key(Len(segments), curr_node), cache["writer"])
  /\ segments' = Append(segments, Key(Len(segments), curr_node))
  /\ curr_node' = (curr_node + 1) % N
  /\ cache' = [cache EXCEPT !["writer"] = <<size>>]
  /\ size' = size + 1
  /\ UNCHANGED <<finalized, cache_key, got>>

\* push_back when the last segment is full: put_in_store_, expand_, then push.
PushExpand ==
  /\ ~finalized /\ size = Len(segments) * Capacity /\ \E n \in Sizes : size < n
  /\ store' = Stored(store, Last(segments), cache["writer"])
  /\ segments' = Append(segments, Key(Len(segments), curr_node))
  /\ curr_node' = (curr_node + 1) % N
  /\ cache' = [cache EXCEPT !["writer"] = <<size>>]
  /\ size' = size + 1
  /\ UNCHANGED <<finalized, cache_key, got>>

\* Mutant: finalize leaves a partly filled segment in the cache.
Finalize_FullOnly ==
  /\ ~finalized /\ size \in Sizes
  /\ finalized' = TRUE
  /\ store' = IF Len(cache["writer"]) = Capacity
              THEN Stored(store, Last(segments), cache["writer"]) ELSE store
  /\ UNCHANGED <<size, segments, curr_node, cache, cache_key, got>>

\* finalize; from here on the column can be serialized and read.
Finalize ==
  /\ ~finalized /\ size \in Sizes
  /\ finalized' = TRUE
  /\ store' = Stored(store, Last(segments), cache["writer"])
  /\ UNCHANGED <<size, segments, curr_node, cache, cache_key, got>>

\* The array holding index i when object o reads it: the cache, when its key's
\* name is the segment's, else the segment from the store.
Segment(o, i) == segments[(i \div CapacityOf(o)) + 1]
Fetched(o, i) == IF Segment(o, i).name = cache_key[o] THEN cache[o] ELSE store[Segment(o, i)]
At(array, j)  == IF j < Len(array) THEN array[j + 1] ELSE None    \* else an assert fails

\* Mutant: the fetched array is kept, its key is not.
Get_KeepsKey(o, i) ==
  /\ finalized /\ i < size
  /\ cache' = [cache EXCEPT ![o] = Fetched(o, i)]
  /\ cache_key' = [cache_key EXCEPT ![o] = IF @ = None THEN Segment(o, i).name ELSE @]
  /\ got' = [object |-> o, index |-> i, value |-> At(cache'[o], i % CapacityOf(o))]
  /\ UNCHANGED <<size, segments, curr_node, finalized, store>>

\* get; a reader's column is built by the deserializing constructor.
Get(o, i) ==
  /\ finalized /\ i < size
  /\ cache' = [cache EXCEPT ![o] = Fetched(o, i)]
  /\ cache_key' = [cache_key EXCEPT ![o] = Segment(o, i).name]
  /\ got' = [object |-> o, index |-> i, value |-> At(cache'[o], i % CapacityOf(o))]
  /\ UNCHANGED <<size, segments, curr_node, finalized, store>>

Next ==
  \/ Push \/ PushExpand \/ Finalize
  \/ \E o \in Objects, i \in 0 .. size - 1 : Get(o, i)

Spec == Init /\ [][Next]_vars

-----------------------------------------------------------------------------

\* Mutant: the last segment is never taken to be full.
End_NotFull(c, i) ==
  IF i < Len(segments) THEN i * c ELSE (i - 1) * c + (size % c)

\* local_indices: where the indices of the i-th segment end.
End(c, i) ==
  IF i < Len(segments) \/ size % c = 0 THEN i * c ELSE (i - 1) * c + (size % c)

local_indices(o, node) ==
  UNION {(i - 1) * CapacityOf(o) .. End(CapacityOf(o), i) - 1 :
           i \in {j \in DOMAIN segments : segments[j].node = node}}

-----------------------------------------------------------------------------

Values == 0 .. size - 1
Keys   == [name : Nat, node : 0 .. N - 1]

TypeOK ==
  /\ size \in Nat /\ curr_node \in 0 .. N - 1 /\ finalized \in BOOLEAN
  /\ segments \in Seq(Keys) /\ segments # <<>>
  /\ DOMAIN store \subseteq Keys /\ \A k \in DOMAIN store : store[k] \in Seq(Values)
  /\ cache \in [Objects -> Seq(Values)]
  /\ Len(cache["writer"]) <= Capacity
  /\ cache_key \in [Objects -> Nat \cup {None}]
  /\ got = None \/ (got.object \in Objects /\ got.index \in Values)

\* get(idx) returns the value that was pushed idx-th, to the writer and to the
\* readers, from whichever segment the cache held before (column.h:253-274).
RoundTrip == got # None => got.value = got.index

\* A segment is put once and never changes: neither a push nor finalize puts
\* another array under a key that has one (column.h:167-173, 205-210, 243-251).  Readers
\* and KVStore's safety of get against put rely on it.
SegmentsPutOnce ==
  [][\A k \in DOMAIN store : k \in DOMAIN store' /\ store'[k] = store[k]]_vars

\* Once a column is final, local_map over the nodes visits each row of a column
\* that has rows on exactly one node, and no other (column.h:138-160).
LocalPartition ==
  finalized /\ size > 0 =>
    /\ \A n \in 0 .. N - 1 : local_indices("writer", n) \subseteq Values
    /\ \A i \in Values : \E n \in 0 .. N - 1 :
         \A m \in 0 .. N - 1 : i \in local_indices("writer", m) <=> m = n

\* The list of indices on a node holds rows of the column only, whatever its size.
LocalIndicesAreRows ==
  finalized => \A n \in 0 .. N - 1 : local_indices("writer", n) \subseteq Values
=============================================================================
