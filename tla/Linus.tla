------------------------------- MODULE Linus -------------------------------
(***************************************************************************)
(* The store operations of the Linus program (linus.cpp), through the      *)
(* dataframe layer: what each node's application puts, gets and waits for, *)
(* in order.  The sets it computes are left out; what matters here is      *)
(* which keys are touched, by whom and where they are homed.               *)
(***************************************************************************)
EXTENDS Cluster, SequencesExt

CONSTANTS
  Stages,         \* degrees of separation computed (DEGREES)
  InputSegments,  \* segments of a column of an input frame
  DeltaSegments   \* segments of the column of a merged or unmerged set

\* A frame is named <<name, stage, node>>; its descriptor is its part 0, its
\* segments are parts 1, 2, ...
Frame(name, stage, node) == <<name, stage, node>>

\* Column::expand_ homes segments round-robin from node 0; Key(name) homes a
\* descriptor at node 0.
Descriptor(type, f) == Op(type, Append(f, 0), 0)
Segment(type, f, i) == Op(type, Append(f, i), (i - 1) % N)
Segments(type, f, count) == [i \in 1 .. count |-> Segment(type, f, i)]

\* Building a frame: its segments are put as the column fills up, the last one
\* when the column is finalized, and then the descriptor.
WriteFrame(f, count) == Segments("put", f, count) \o <<Descriptor("put", f)>>

\* (mutant) kd_.get where kd_.waitAndGet is needed.
ReadFrame_NoWait(f, count) == <<Descriptor("get", f)>> \o Segments("get", f, count)

\* kd_.waitAndGet of a frame, then map over all its rows.
ReadFrame(f, count) == <<Descriptor("wait", f)>> \o Segments("get", f, count)

\* local_map: the segments of a frame that are homed here.
LocalSegments(n, f, count) ==
  SelectSeq(Segments("get", f, count), LAMBDA op : op.key.node = n)

\* A second local_map of the same frame finds a lone segment in the column's
\* cache; of several it reads each again.
LocalSegmentsAgain(n, f, count) ==
  LET ops == LocalSegments(n, f, count) IN IF Len(ops) > 1 THEN ops ELSE <<>>

\* Linus::readInput.
Input(name) == Frame(name, 0, 0)

readInput(n) ==
  IF n = 0
  THEN WriteFrame(Input("projs"), InputSegments) \o WriteFrame(Input("usrs"), InputSegments)
         \o WriteFrame(Input("comts"), InputSegments) \o WriteFrame(Frame("users", 0, 0), 1)
  ELSE <<Descriptor("wait", Input("projs")), Descriptor("wait", Input("usrs")),
         Descriptor("wait", Input("comts"))>>

\* (mutant) a client waits for the merged set before it has sent its own.
merge_WaitsFirst(n, name, stage) ==
  IF n = 0
  THEN FlattenSeq([i \in 1 .. N - 1 |-> ReadFrame(Frame(name, stage, i), DeltaSegments)])
         \o WriteFrame(Frame(name, stage, 0), DeltaSegments)
  ELSE ReadFrame(Frame(name, stage, 0), DeltaSegments)
         \o WriteFrame(Frame(name, stage, n), DeltaSegments)

\* Linus::merge.
merge(n, name, stage) ==
  IF n = 0
  THEN FlattenSeq([i \in 1 .. N - 1 |-> ReadFrame(Frame(name, stage, i), DeltaSegments)])
         \o WriteFrame(Frame(name, stage, 0), DeltaSegments)
  ELSE WriteFrame(Frame(name, stage, n), DeltaSegments)
         \o ReadFrame(Frame(name, stage, 0), DeltaSegments)

\* Linus::step.  users-0-0 holds one user.
step(n, stage) ==
  ReadFrame(Frame("users", stage, 0), IF stage = 0 THEN 1 ELSE DeltaSegments)
    \o (IF stage = 0 THEN LocalSegments(n, Input("comts"), InputSegments)
                     ELSE LocalSegmentsAgain(n, Input("comts"), InputSegments))
    \o merge(n, "projects", stage)
    \o LocalSegmentsAgain(n, Input("comts"), InputSegments)
    \o merge(n, "users", stage + 1)

\* Linus::run.
LinusScript ==
  [n \in Nodes |-> readInput(n) \o FlattenSeq([i \in 1 .. Stages |-> step(n, i - 1)])]

\* Every key is put by one operation of one application, once: it is in the set
\* Once of its node's KVStore, so what a read clones is never deleted meanwhile.
PutOnce ==
  \A m, n \in Nodes : \A i \in 1 .. Len(Script[m]), j \in 1 .. Len(Script[n]) :
    /\ Script[m][i].type = "put" /\ Script[n][j].type = "put"
    /\ Script[m][i].key.name = Script[n][j].key.name
    => m = n /\ i = j

ASSUME LinusAssumption ==
  /\ {Stages, InputSegments, DeltaSegments} \subseteq Nat \ {0}
  /\ PutOnce
=============================================================================
