------------------------------- MODULE Frame -------------------------------
(***************************************************************************)
(* A data frame of several columns (dataframe/dataframe.h, row.h): node 0  *)
(* writes it row by row through one Row that it uses again and again       *)
(* (DataFrame::fromVisitor), then every node maps a Reader over all of it  *)
(* or over its own part, through a Row as well.  Column.tla has a column's *)
(* segments in detail.                                                     *)
(*                                                                         *)
(* Strings are objects that somebody owns: a Row owns those set in it, a   *)
(* column those in its array, and each owner takes or makes a copy.        *)
(***************************************************************************)
EXTENDS Integers, Sequences, FiniteSetsExt

CONSTANTS
  N,            \* number of nodes
  Capacity,     \* values in a segment
  Types,        \* the columns' types, e.g. <<"S", "I">>
  MaxRows,      \* rows that the Writer makes
  Heap,         \* addresses of strings
  Null

Nodes == 0 .. N - 1
Columns == DOMAIN Types
IsString(j) == Types[j] = "S"

\* Where a node can have a string: <<j, 0>> is field j of its Row, <<j, i>> is
\* place i of the array of column j.
StringPlaces == {j \in Columns : IsString(j)} \X (0 .. Capacity)

\* Memory does not run out: there is an address for each place, and for a copy.
ASSUME FrameAssumption ==
  /\ N \in Nat \ {0}
  /\ Capacity \in Nat \ {0}
  /\ Types \in Seq({"S", "I", "B", "D"}) \ {<<>>}
  /\ MaxRows \in Nat
  /\ Null \notin Heap \cup Nat \cup (Nat \X Nat) \cup {"local", "all"}
  /\ IsFiniteSet(Heap) /\ Cardinality(Heap) > Cardinality(StringPlaces)

VARIABLES
  place,        \* where each node's application is
  heap,         \* heap[n]: its live strings, by address
  row,          \* row[n]: the values_ of its Row, strings by address
  cache,        \* cache[n][j]: the array of column j
  cached,       \* cached[n][j]: the number of the segment it was read from
  col,          \* the column a loop over columns is at
  segments,     \* segments[j]: what is in the store of column j
  mode,         \* "local" for local_map, "all" for map
  todo,         \* row indices left to map over, in increasing order
  written,      \* the rows that the Writer made
  visited       \* visited[n]: the rows that its Reader was given

vars == <<place, heap, row, cache, cached, col, segments, mode, todo, written, visited>>

Each(x) == [j \in Columns |-> x]

Init ==
  /\ place = [n \in Nodes |-> IF n = 0 THEN "visit" ELSE "wait"]
  /\ heap = [n \in Nodes |-> <<>>]
  /\ row = [n \in Nodes |-> Each(Null)]
  /\ cache = [n \in Nodes |-> Each(<<>>)]
  /\ cached = [n \in Nodes |-> Each(Null)]
  /\ col = [n \in Nodes |-> 1]
  /\ segments = Each(<<>>)
  /\ mode = [n \in Nodes |-> Null]
  /\ todo = [n \in Nodes |-> {}]
  /\ written = <<>>
  /\ visited = [n \in Nodes |-> <<>>]
-----------------------------------------------------------------------------
\* Strings: new, delete and clone.  Contents are what addresses hold.
\* New objects for the contents s get any addresses that are free.
Addresses(h, s) == CHOOSE a \in Injection(DOMAIN s, Heap \ DOMAIN h) : TRUE
New(h, s) ==
  LET at == Addresses(h, s)
  IN  [a \in DOMAIN h \cup Range(at) |->
         IF a \in DOMAIN h THEN h[a] ELSE s[CHOOSE k \in DOMAIN s : at[k] = a]]
Delete(h, a) == Restrict(h, DOMAIN h \ a)

Contents(h, j, s) == [i \in DOMAIN s |-> IF IsString(j) THEN h[s[i]] ELSE s[i]]
RowContents(h, r) == [j \in Columns |-> IF IsString(j) THEN h[r[j]] ELSE r[j]]

\* The strings that a destructor of a row, or of the array of column j, deletes.
RowStrings(r) == {r[j] : j \in {k \in Columns : IsString(k) /\ r[k] # Null}}
ArrayStrings(j, s) == IF IsString(j) THEN Range(s) ELSE {}

\* The heap and the field of column j once v is stored there: a string as a
\* new object.
Stored(h, j, v) ==
  IF IsString(j)
  THEN [heap |-> New(h, <<v>>), field |-> Addresses(h, <<v>>)[1]]
  ELSE [heap |-> h, field |-> v]

\* (mutant) the string that was in the row is left behind.
SetField_Leaks(h, r, j, v) ==
  LET new == Stored(h, j, v)
  IN  [heap |-> new.heap, row |-> [r EXCEPT ![j] = new.field]]

\* Row::set, given a new string: the one that was there is deleted.
SetField(h, r, j, v) ==
  LET new == Stored(h, j, v)
      old == IF IsString(j) /\ r[j] # Null THEN {r[j]} ELSE {}
  IN  [heap |-> Delete(new.heap, old), row |-> [r EXCEPT ![j] = new.field]]
-----------------------------------------------------------------------------
(***************************************************************************)
(* DataFrame::fromVisitor at node 0                                        *)
(***************************************************************************)
\* The Writer's visit sets column after column, or leaves what was set before.
\* Every field is set in the first row: of a string that is not, the column would
\* clone a null pointer (column.h:496), though its comment calls null valid.
\* A value says where it was set: <<row, column>>.
Visit ==
  LET j == col[0] IN
  /\ place[0] = "visit"
  /\ j \in Columns
  /\ Len(written) < MaxRows
  /\ \/ LET new == SetField(heap[0], row[0], j, <<Len(written), j>>)
        IN  /\ heap' = [heap EXCEPT ![0] = new.heap]
            /\ row' = [row EXCEPT ![0] = new.row]
     \/ row[0][j] # Null /\ UNCHANGED <<heap, row>>
  /\ col' = [col EXCEPT ![0] = j + 1]
  /\ UNCHANGED <<place, cache, cached, segments, mode, todo, written, visited>>

Visited ==
  /\ place[0] = "visit"
  /\ col[0] \notin Columns
  /\ written' = Append(written, RowContents(heap[0], row[0]))
  /\ place' = [place EXCEPT ![0] = "add"]
  /\ col' = [col EXCEPT ![0] = 1]
  /\ UNCHANGED <<heap, row, cache, cached, segments, mode, todo, visited>>

\* Row::add_to_columns: each column clones its string; a full array is put in
\* the store and deleted first.
AddToColumn ==
  LET j == col[0]
      full == Len(cache[0][j]) = Capacity
      v == RowContents(heap[0], row[0])[j]
      h == IF full THEN Delete(heap[0], ArrayStrings(j, cache[0][j])) ELSE heap[0]
      new == Stored(h, j, v)
  IN
  /\ place[0] = "add"
  /\ j \in Columns
  /\ segments' = IF full
                 THEN [segments EXCEPT ![j] = Append(@, Contents(heap[0], j, cache[0][j]))]
                 ELSE segments
  /\ cache' = [cache EXCEPT ![0][j] = IF full THEN <<new.field>> ELSE Append(@, new.field)]
  /\ heap' = [heap EXCEPT ![0] = new.heap]
  /\ col' = [col EXCEPT ![0] = j + 1]
  /\ UNCHANGED <<place, row, cached, mode, todo, written, visited>>

Added ==
  /\ place[0] = "add"
  /\ col[0] \notin Columns
  /\ place' = [place EXCEPT ![0] = "visit"]
  /\ col' = [col EXCEPT ![0] = 1]
  /\ UNCHANGED <<heap, row, cache, cached, segments, mode, todo, written, visited>>

\* done(): the frame's constructor finalizes every column, the frame is put in
\* the store, and the Row is deleted.
Publish ==
  /\ place[0] = "visit"
  /\ col[0] = 1
  /\ segments' = [j \in Columns |-> Append(segments[j], Contents(heap[0], j, cache[0][j]))]
  /\ heap' = [heap EXCEPT ![0] = Delete(@, RowStrings(row[0]))]
  /\ row' = [row EXCEPT ![0] = Each(Null)]
  /\ place' = [place EXCEPT ![0] = "frame"]
  /\ UNCHANGED <<cache, cached, col, mode, todo, written, visited>>

Published == place[0] \notin {"visit", "add"}
-----------------------------------------------------------------------------
(***************************************************************************)
(* Reading                                                                 *)
(***************************************************************************)
\* KDStore::waitAndGet
Receive(n) ==
  /\ place[n] = "wait"
  /\ Published
  /\ place' = [place EXCEPT ![n] = "frame"]
  /\ UNCHANGED <<heap, row, cache, cached, col, segments, mode, todo, written, visited>>

\* (mutant) segments of the next column start at the next node.
Home_NextColumn(j, i) == (i + j - 1) % N

\* The node of segment i of column j, from 0: every column starts at node 0.
Home(j, i) == i % N

\* Column::local_indices of the first column.
LocalIndices(n) ==
  LET last == Len(segments[1]) - 1
      partial == Len(written) % Capacity
      Of(i) == i * Capacity ..
                 i * Capacity + (IF i < last \/ partial = 0 THEN Capacity ELSE partial) - 1
  IN  UNION {Of(i) : i \in {k \in 0 .. last : Home(1, k) = n}}

\* DataFrame::map and local_map; a node does one of them, once.
StartMap(n) ==
  /\ place[n] = "frame"
  /\ \/ /\ mode' = [mode EXCEPT ![n] = "local"]
        /\ todo' = [todo EXCEPT ![n] = LocalIndices(n)]
     \/ /\ mode' = [mode EXCEPT ![n] = "all"]
        /\ todo' = [todo EXCEPT ![n] = 0 .. Len(written) - 1]
  /\ place' = [place EXCEPT ![n] = "map"]
  /\ col' = [col EXCEPT ![n] = 1]
  /\ UNCHANGED <<heap, row, cache, cached, segments, written, visited>>

Current(n) == Min(todo[n])

\* fill_row asserts that there is such a row.
NoSuchRow(n) ==
  /\ place[n] = "map"
  /\ todo[n] # {}
  /\ Current(n) >= Len(written)
  /\ place' = [place EXCEPT ![n] = "aborted"]
  /\ UNCHANGED <<heap, row, cache, cached, col, segments, mode, todo, written, visited>>

\* (mutant) an array that was read once is taken for that of any segment.
Hit_Any(n, j, i) == cached[n][j] # Null
Hit(n, j, i) == cached[n][j] = i

\* The field of fill_row: a get, from the array or after reading the segment
\* into a new one, and a Row::set.
FillField(n) ==
  LET j == col[n]
      index == Current(n)
      i == index \div Capacity
      segment == segments[j][i + 1]
      emptied == Delete(heap[n], ArrayStrings(j, cache[n][j]))
      loaded == IF IsString(j) THEN New(emptied, segment) ELSE emptied
      hit == Hit(n, j, i)
      h == IF hit THEN heap[n] ELSE loaded
      array == IF hit THEN cache[n][j]
               ELSE IF IsString(j) THEN Addresses(emptied, segment) ELSE segment
      new == SetField(h, row[n], j, Contents(h, j, array)[(index % Capacity) + 1])
  IN
  /\ place[n] = "map"
  /\ todo[n] # {}
  /\ index < Len(written)
  /\ j \in Columns
  /\ cache' = [cache EXCEPT ![n][j] = array]
  /\ cached' = [cached EXCEPT ![n][j] = IF hit THEN @ ELSE i]
  /\ heap' = [heap EXCEPT ![n] = new.heap]
  /\ row' = [row EXCEPT ![n] = new.row]
  /\ col' = [col EXCEPT ![n] = j + 1]
  /\ UNCHANGED <<place, segments, mode, todo, written, visited>>

\* The Reader's visit.
VisitRow(n) ==
  /\ place[n] = "map"
  /\ todo[n] # {}
  /\ col[n] \notin Columns
  /\ visited' = [visited EXCEPT ![n] =
                   Append(@, <<Current(n), RowContents(heap[n], row[n])>>)]
  /\ todo' = [todo EXCEPT ![n] = @ \ {Current(n)}]
  /\ col' = [col EXCEPT ![n] = 1]
  /\ UNCHANGED <<place, heap, row, cache, cached, segments, mode, written>>

\* The Row is deleted.
EndMap(n) ==
  /\ place[n] = "map"
  /\ todo[n] = {}
  /\ heap' = [heap EXCEPT ![n] = Delete(@, RowStrings(row[n]))]
  /\ row' = [row EXCEPT ![n] = Each(Null)]
  /\ place' = [place EXCEPT ![n] = "mapped"]
  /\ UNCHANGED <<cache, cached, col, segments, mode, todo, written, visited>>

\* DataFrame::~DataFrame
Drop(n) ==
  /\ place[n] \in {"frame", "mapped"}
  /\ heap' = [heap EXCEPT ![n] =
                Delete(@, UNION {ArrayStrings(j, cache[n][j]) : j \in Columns})]
  /\ cache' = [cache EXCEPT ![n] = Each(<<>>)]
  /\ place' = [place EXCEPT ![n] = "dropped"]
  /\ UNCHANGED <<row, cached, col, segments, mode, todo, written, visited>>

Next ==
  \/ Visit \/ Visited \/ AddToColumn \/ Added \/ Publish
  \/ \E n \in Nodes : \/ Receive(n) \/ StartMap(n) \/ NoSuchRow(n) \/ FillField(n)
                      \/ VisitRow(n) \/ EndMap(n) \/ Drop(n)

Spec == Init /\ [][Next]_vars
-----------------------------------------------------------------------------
(***************************************************************************)
(* Properties                                                              *)
(***************************************************************************)

\* The places of a node's strings, and the address at each.
Holders(r, c) ==
  {o \in StringPlaces : IF o[2] = 0 THEN r[o[1]] # Null ELSE o[2] \in DOMAIN c[o[1]]}
Held(r, c) == [o \in Holders(r, c) |-> IF o[2] = 0 THEN r[o[1]] ELSE c[o[1]][o[2]]]

\* Every live string has one owner, a field of the row or a place in an array,
\* and every string an owner has is live: none is deleted twice, used after or
\* leaked, by either side of a Row that is used again (row.h:100).
OneOwner ==
  \A n \in Nodes :
    LET held == Held(row[n], cache[n])
    IN  Range(held) = DOMAIN heap[n] /\ IsInjective(held)

\* A Reader gets rows as the Writer made them, all fields of one row; local_map
\* on all nodes visits each row once, map each row in order.  Nothing aborts but
\* local_map on a frame without rows (dataframe.h:177, 191).
Ended(n) == place[n] = "mapped"
RowsOnce ==
  /\ \A n \in Nodes : \A k \in DOMAIN visited[n] :
       visited[n][k][2] = written[visited[n][k][1] + 1]
  /\ \A n \in Nodes : Ended(n) /\ mode[n] = "all" =>
       [k \in DOMAIN visited[n] |-> visited[n][k][1]] = [i \in 1 .. Len(written) |-> i - 1]
  /\ (\A n \in Nodes : Ended(n) /\ mode[n] = "local") =>
       \A r \in 0 .. Len(written) - 1 :
         \E n \in Nodes : \E k \in DOMAIN visited[n] :
           /\ visited[n][k][1] = r
           /\ \A m \in Nodes : \A l \in DOMAIN visited[m] :
                visited[m][l][1] = r => m = n /\ l = k
  /\ \A n \in Nodes : place[n] = "aborted" => mode[n] = "local" /\ written = <<>>

\* local_map asks the store for segments of its own node only, of whichever
\* column, although it chooses rows by the first (dataframe.h:179).
LocalReads ==
  \A n \in Nodes : mode[n] = "local" =>
    \A j \in Columns : cached[n][j] # Null => Home(j, cached[n][j]) = n

\* "Maps over the rows of the data frame on the given node" (dataframe.h:173):
\* there may be none.
MapsEmptyFrames == \A n \in Nodes : place[n] # "aborted"
=============================================================================
