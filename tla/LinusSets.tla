----------------------------- MODULE LinusSets -----------------------------
(***************************************************************************)
(* The sets that the Linus program computes (linus.cpp): each node tags    *)
(* projects and users from the commits homed on it, and the nodes exchange *)
(* only what is new through frames in the store.  Linus.tla has the store  *)
(* operations these frames take; here a frame is put or awaited in one     *)
(* step.                                                                   *)
(***************************************************************************)
EXTENDS Integers

CONSTANTS
  N,            \* number of nodes
  Users,        \* uids that the users frame has
  Projects,     \* pids that the projects frame has
  Uids, Pids,   \* ids that commits mention
  Linus,        \* the uid LINUS
  Stages        \* DEGREES

ASSUME LinusSetsAssumption ==
  /\ N \in Nat \ {0}
  /\ Stages \in Nat \ {0}
  /\ Users \subseteq Uids
  /\ Projects \subseteq Pids

\* "In a well-formed dataset": commits mention ids that there are.
WellFormed == Uids = Users /\ Pids = Projects /\ Linus \in Users

Nodes == 0 .. N - 1

\* The frames of one column: "users-<stage>-<node>" and "projects-...";
\* "comts" stands for the three input frames.
Key == {"users", "projects", "comts"} \X (0 .. Stages) \X Nodes

VARIABLES
  rows,         \* rows[n]: the commits <<pid, uid>> of the segments homed at n
  published,    \* keys that are in the store
  frame,        \* the set that a frame holds
  place,        \* where each node is: "input", "tag", "merge", "await",
                \* "merged" or "done"
  merging,      \* which set a node merges now, or next: "projects" or "users"
  stage,
  awaited,      \* node 0: the client whose frame merge awaits
  uSet, pSet,   \* tagged users and projects
  fresh         \* ptagger.newProjects, later utagger.newUsers

vars == <<rows, published, frame, place, merging, stage, awaited, uSet, pSet, fresh>>

Commits == UNION {rows[n] : n \in Nodes}

Init ==
  /\ rows \in [Nodes -> SUBSET (Pids \X Uids)]
  /\ published = {}
  /\ frame = [k \in Key |-> {}]
  /\ place = [n \in Nodes |-> "input"]
  /\ merging = [n \in Nodes |-> "projects"]
  /\ stage = [n \in Nodes |-> 0]
  /\ awaited = 1
  /\ uSet = [n \in Nodes |-> {}]
  /\ pSet = [n \in Nodes |-> {}]
  /\ fresh = [n \in Nodes |-> {}]

\* Set::set and Set::test; a set has the size of the frame it is of, given by
\* the ids in range.
SetAll(inRange, s, new) == s \cup (new \cap inRange)
Test(inRange, s, id) == id \notin inRange \/ id \in s

Publish(k, s) ==
  /\ frame' = [frame EXCEPT ![k] = s]
  /\ published' = published \cup {k}

\* Linus::readInput; node 0 also puts the frame that holds Linus.
ReadInput(n) ==
  /\ place[n] = "input"
  /\ IF n = 0
     THEN /\ frame' = [frame EXCEPT ![<<"users", 0, 0>>] = {Linus}]
          /\ published' = published \cup {<<"comts", 0, 0>>, <<"users", 0, 0>>}
     ELSE /\ <<"comts", 0, 0>> \in published
          /\ UNCHANGED <<frame, published>>
  /\ place' = [place EXCEPT ![n] = "tag"]
  /\ UNCHANGED <<rows, merging, stage, awaited, uSet, pSet, fresh>>

\* (mutant) a project that was tagged before is tagged again.
NewProjects_Again(n, delta) ==
  {p \in Projects : \E u \in Uids : <<p, u>> \in rows[n] /\ Test(Users, delta, u)}

\* ProjectsTagger::visit over local commits: the projects it tags.
NewProjects(n, delta) ==
  {p \in Projects : \E u \in Uids :
     <<p, u>> \in rows[n] /\ Test(Users, delta, u) /\ ~Test(Projects, pSet[n], p)}

\* UsersTagger::visit over local commits: the users it tags, given the merged
\* new projects.
NewUsers(n, ps) ==
  {u \in Users : \E p \in Pids :
     <<p, u>> \in rows[n] /\ Test(Projects, ps, p) /\ ~Test(Users, uSet[n], u)}

\* Linus::step up to the first merge: await the users that are new, and tag
\* their projects.
TagProjects(n) ==
  /\ place[n] = "tag"
  /\ <<"users", stage[n], 0>> \in published
  /\ LET delta == SetAll(Users, {}, frame[<<"users", stage[n], 0>>])
         new == NewProjects(n, delta)
     IN  /\ fresh' = [fresh EXCEPT ![n] = new]
         /\ pSet' = [pSet EXCEPT ![n] = @ \cup new]
  /\ place' = [place EXCEPT ![n] = "merge"]
  /\ UNCHANGED <<rows, published, frame, merging, stage, awaited, uSet>>

\* The keys that merge(set, name, stage) uses: step passes stage + 1 for users.
MergeKey(n, of) ==
  <<merging[n], IF merging[n] = "users" THEN stage[n] + 1 ELSE stage[n], of>>
InRange(n) == IF merging[n] = "users" THEN Users ELSE Projects

\* (mutant) a client's frame is awaited and not added.
Gather_Drops ==
  /\ place[0] = "merge"
  /\ awaited < N
  /\ MergeKey(0, awaited) \in published
  /\ awaited' = awaited + 1
  /\ UNCHANGED <<rows, published, frame, place, merging, stage, uSet, pSet, fresh>>

\* Linus::merge at node 0: the clients' frames, one after the other.
Gather ==
  LET k == MergeKey(0, awaited) IN
  /\ place[0] = "merge"
  /\ awaited < N
  /\ k \in published
  /\ fresh' = [fresh EXCEPT ![0] = SetAll(InRange(0), @, frame[k])]
  /\ awaited' = awaited + 1
  /\ UNCHANGED <<rows, published, frame, place, merging, stage, uSet, pSet>>

\* (mutant) an empty set is not put in the store.
PublishMerged_NotEmpty ==
  /\ place[0] = "merge"
  /\ awaited = N
  /\ IF fresh[0] = {} THEN UNCHANGED <<frame, published>> ELSE Publish(MergeKey(0, 0), fresh[0])
  /\ place' = [place EXCEPT ![0] = "merged"]
  /\ awaited' = 1
  /\ UNCHANGED <<rows, merging, stage, uSet, pSet, fresh>>

\* Linus::merge at node 0: the union is published.
PublishMerged ==
  /\ place[0] = "merge"
  /\ awaited = N
  /\ Publish(MergeKey(0, 0), fresh[0])
  /\ place' = [place EXCEPT ![0] = "merged"]
  /\ awaited' = 1
  /\ UNCHANGED <<rows, merging, stage, uSet, pSet, fresh>>

\* Linus::merge at a client: its own set is sent.
SendDelta(n) ==
  /\ n # 0
  /\ place[n] = "merge"
  /\ Publish(MergeKey(n, n), fresh[n])
  /\ place' = [place EXCEPT ![n] = "await"]
  /\ UNCHANGED <<rows, merging, stage, awaited, uSet, pSet, fresh>>

\* Linus::merge at a client: the merged set is awaited.
ReceiveMerged(n) ==
  LET k == MergeKey(n, 0) IN
  /\ n # 0
  /\ place[n] = "await"
  /\ k \in published
  /\ fresh' = [fresh EXCEPT ![n] = SetAll(InRange(n), @, frame[k])]
  /\ place' = [place EXCEPT ![n] = "merged"]
  /\ UNCHANGED <<rows, published, frame, merging, stage, awaited, uSet, pSet>>

\* (mutant) what other nodes tagged is not added to pSet.
TagUsers_NoUnion(n) ==
  /\ place[n] = "merged"
  /\ merging[n] = "projects"
  /\ LET new == NewUsers(n, fresh[n])
     IN  /\ fresh' = [fresh EXCEPT ![n] = new]
         /\ uSet' = [uSet EXCEPT ![n] = @ \cup new]
  /\ merging' = [merging EXCEPT ![n] = "users"]
  /\ place' = [place EXCEPT ![n] = "merge"]
  /\ UNCHANGED <<rows, published, frame, stage, awaited, pSet>>

\* Linus::step between the merges.
TagUsers(n) ==
  /\ place[n] = "merged"
  /\ merging[n] = "projects"
  /\ pSet' = [pSet EXCEPT ![n] = SetAll(Projects, @, fresh[n])]
  /\ LET new == NewUsers(n, fresh[n])
     IN  /\ fresh' = [fresh EXCEPT ![n] = new]
         /\ uSet' = [uSet EXCEPT ![n] = @ \cup new]
  /\ merging' = [merging EXCEPT ![n] = "users"]
  /\ place' = [place EXCEPT ![n] = "merge"]
  /\ UNCHANGED <<rows, published, frame, stage, awaited>>

\* (mutant) one stage too many.
EndStage_OneMore(n) ==
  /\ place[n] = "merged"
  /\ merging[n] = "users"
  /\ uSet' = [uSet EXCEPT ![n] = SetAll(Users, @, fresh[n])]
  /\ stage' = [stage EXCEPT ![n] = @ + 1]
  /\ merging' = [merging EXCEPT ![n] = "projects"]
  /\ place' = [place EXCEPT ![n] = IF stage[n] < Stages THEN "tag" ELSE "done"]
  /\ UNCHANGED <<rows, published, frame, awaited, pSet, fresh>>

\* Linus::step after the second merge, and the loop of Linus::run.
EndStage(n) ==
  /\ place[n] = "merged"
  /\ merging[n] = "users"
  /\ uSet' = [uSet EXCEPT ![n] = SetAll(Users, @, fresh[n])]
  /\ stage' = [stage EXCEPT ![n] = @ + 1]
  /\ merging' = [merging EXCEPT ![n] = "projects"]
  /\ place' = [place EXCEPT ![n] = IF stage[n] + 1 < Stages THEN "tag" ELSE "done"]
  /\ UNCHANGED <<rows, published, frame, awaited, pSet, fresh>>

Step(n) ==
  \/ ReadInput(n)
  \/ TagProjects(n)
  \/ n = 0 /\ (Gather \/ PublishMerged)
  \/ SendDelta(n)
  \/ ReceiveMerged(n)
  \/ TagUsers(n)
  \/ EndStage(n)

\* Every node has run; not a deadlock.
Done == (\A n \in Nodes : place[n] = "done") /\ UNCHANGED vars

Next == (\E n \in Nodes : Step(n)) \/ Done

\* Each node's application thread goes on when it can.
Spec == Init /\ [][Next]_vars /\ \A n \in Nodes : WF_vars(Step(n))
-----------------------------------------------------------------------------
(***************************************************************************)
(* Properties                                                              *)
(***************************************************************************)

\* Types; a frame holds ids of its own kind, and awaited is a client.
TypeOK ==
  /\ rows \in [Nodes -> SUBSET (Pids \X Uids)]
  /\ published \subseteq Key
  /\ frame \in [Key -> SUBSET (Users \cup Projects \cup {Linus})]
  /\ place \in [Nodes -> {"input", "tag", "merge", "await", "merged", "done"}]
  /\ merging \in [Nodes -> {"projects", "users"}]
  /\ stage \in [Nodes -> 0 .. Stages]
  /\ awaited \in 1 .. N
  /\ uSet \in [Nodes -> SUBSET Users]
  /\ pSet \in [Nodes -> SUBSET Projects]
  /\ fresh \in [Nodes -> SUBSET (Users \cup Projects)]

\* What the merged frames before a stage have announced.
TaggedProjects(s) ==
  {p \in Projects : \E t \in 0 .. s - 1 : p \in frame[<<"projects", t, 0>>]}
TaggedUsers(s) ==
  {u \in Users : \E t \in 1 .. s : u \in frame[<<"users", t, 0>>]}

\* Between stages a node's sets are what was announced in all stages before,
\* whichever of it the node found itself, got merged or found again: so all
\* nodes that begin a stage agree (linus.cpp:260, 264).
Agreement ==
  \A n \in Nodes : place[n] \in {"tag", "done"} =>
    /\ pSet[n] = TaggedProjects(stage[n])
    /\ uSet[n] = TaggedUsers(stage[n])

\* "only ever trades the deltas" (linus.cpp:178): what a node sends, and what
\* is announced, was not announced in an earlier stage.
OnlyDeltas ==
  \A t \in 0 .. Stages, n \in Nodes :
    /\ frame[<<"projects", t, n>>] \cap TaggedProjects(t) = {}
    /\ t > 0 => frame[<<"users", t, n>>] \cap TaggedUsers(t - 1) = {}

\* What is announced are the collaborators and their projects, degree by
\* degree, as if one node had all the commits and kept no deltas: the merged
\* frames of node 0 implement Degrees.
D == INSTANCE Degrees WITH
       commits <- Commits,
       projects <- TaggedProjects(Stages),
       users <- TaggedUsers(Stages),
       degree <- IF place[0] = "merged" /\ merging[0] = "users"
                 THEN stage[0] + 1 ELSE stage[0],
       turn <- IF \/ place[0] = "merged" /\ merging[0] = "projects"
                  \/ place[0] = "merge" /\ merging[0] = "users"
               THEN "users" ELSE "projects"
ComputesDegrees == D!DSpec

\* "marks all of the projects to which a collaborator of Linus committed as an
\* author" (linus.cpp:113): a tagged project has a commit by a collaborator.
OnlyCollaborators ==
  \A n \in Nodes : place[n] \in {"tag", "done"} =>
    \A p \in pSet[n] : \E u \in uSet[n] \cup {Linus} : <<p, u>> \in Commits

\* Every node computes all degrees: neither side of merge waits for a frame
\* that never comes, even when there is nothing new.
Finishes == <>(\A n \in Nodes : place[n] = "done")
=============================================================================
