-------------------------- MODULE LinusSetsProofs --------------------------
(***************************************************************************)
(* Proofs about LinusSets.tla, for any number of nodes and stages, any     *)
(* users and projects and any distribution of the commits over the nodes.  *)
(***************************************************************************)
EXTENDS LinusSets, TLAPS

ProjectKey(t, n) == <<"projects", t, n>>
UserKey(t, n) == <<"users", t, n>>

\* What frames fr announce before a stage.
ProjectsIn(fr, s) == {p \in Projects : \E t \in 0 .. s - 1 : p \in fr[ProjectKey(t, 0)]}
UsersIn(fr, s) == {u \in Users : \E t \in 1 .. s : u \in fr[UserKey(t, 0)]}

\* What a node with the commits rs finds in stage s, given what frames fr
\* announce: a function of the stage, not of when the node gets there.
FoundProjects(fr, rs, s) ==
  {p \in Projects \ ProjectsIn(fr, s) : \E u \in Uids :
     <<p, u>> \in rs /\ Test(Users, SetAll(Users, {}, fr[UserKey(s, 0)]), u)}
FoundUsers(fr, rs, s) ==
  {u \in Users \ UsersIn(fr, s) : \E p \in Pids :
     <<p, u>> \in rs /\ Test(Projects, fr[ProjectKey(s, 0)], p)}

\* Where a node can be.
ControlInv ==
  \A n \in Nodes :
    /\ place[n] \in {"input", "tag", "done"} => merging[n] = "projects"
    /\ place[n] = "input" => stage[n] = 0
    /\ place[n] = "done" <=> stage[n] = Stages
    /\ n = 0 => place[n] # "await"
    /\ n = 0 /\ place[n] # "merge" => awaited = 1

\* Which frames a node has put when it is where it is.
ProjectsSent(n, t) ==
  \/ t < stage[n]
  \/ t = stage[n] /\ (merging[n] = "users" \/ place[n] \in {"await", "merged"})
UsersSent(n, t) ==
  \/ t <= stage[n]
  \/ t = stage[n] + 1 /\ merging[n] = "users" /\ place[n] \in {"await", "merged"}

PublishedInv ==
  /\ \A n \in Nodes, t \in 0 .. Stages : ProjectKey(t, n) \in published <=> ProjectsSent(n, t)
  /\ \A n \in Nodes, t \in 1 .. Stages : UserKey(t, n) \in published <=> UsersSent(n, t)
  /\ UserKey(0, 0) \in published <=> place[0] # "input"
  /\ \A n \in Nodes \ {0} : UserKey(0, n) \notin published
  /\ \A k \in Key \ published : frame[k] = {}

\* A node goes on only with what node 0 has announced.
OrderInv ==
  \A n \in Nodes :
    /\ stage[n] > 0 \/ place[n] \notin {"input", "tag"} => UserKey(stage[n], 0) \in published
    /\ merging[n] = "users" => ProjectKey(stage[n], 0) \in published
    /\ place[n] = "merged" => MergeKey(n, 0) \in published

\* What a frame in the store holds.
FrameInv ==
  /\ UserKey(0, 0) \in published => frame[UserKey(0, 0)] = {Linus}
  /\ \A t \in 0 .. Stages - 1 :
       /\ \A n \in Nodes \ {0} :
            /\ ProjectKey(t, n) \in published =>
                 frame[ProjectKey(t, n)] = FoundProjects(frame, rows[n], t)
            /\ UserKey(t + 1, n) \in published =>
                 frame[UserKey(t + 1, n)] = FoundUsers(frame, rows[n], t)
       /\ ProjectKey(t, 0) \in published =>
            frame[ProjectKey(t, 0)] = UNION {FoundProjects(frame, rows[i], t) : i \in Nodes}
       /\ UserKey(t + 1, 0) \in published =>
            frame[UserKey(t + 1, 0)] = UNION {FoundUsers(frame, rows[i], t) : i \in Nodes}

\* What a node holds: what was announced, and what it found itself.
Found(n, i) ==
  IF merging[n] = "projects" THEN FoundProjects(frame, rows[i], stage[n])
                             ELSE FoundUsers(frame, rows[i], stage[n])

SetsInv ==
  \A n \in Nodes :
    /\ pSet[n] = IF merging[n] = "users" THEN ProjectsIn(frame, stage[n] + 1)
                 ELSE IF place[n] \in {"merge", "await", "merged"}
                 THEN ProjectsIn(frame, stage[n]) \cup Found(n, n)
                 ELSE ProjectsIn(frame, stage[n])
    /\ uSet[n] = IF merging[n] = "users" THEN UsersIn(frame, stage[n]) \cup Found(n, n)
                 ELSE UsersIn(frame, stage[n])

FreshInv ==
  \A n \in Nodes :
    /\ n # 0 /\ place[n] \in {"merge", "await"} => fresh[n] = Found(n, n)
    /\ n = 0 /\ place[n] = "merge" => fresh[n] = UNION {Found(n, i) : i \in 0 .. awaited - 1}
    /\ place[n] = "merged" => fresh[n] = frame[MergeKey(n, 0)]

Inv == TypeOK /\ ControlInv /\ PublishedInv /\ OrderInv /\ FrameInv /\ SetsInv /\ FreshInv
-----------------------------------------------------------------------------
LEMMA TypeStep == TypeOK /\ ControlInv /\ [Next]_vars => TypeOK' /\ ControlInv'
<1> SUFFICES ASSUME TypeOK, ControlInv, [Next]_vars PROVE TypeOK' /\ ControlInv'
  OBVIOUS
<1> USE LinusSetsAssumption DEF TypeOK, ControlInv, Nodes, Key, Publish, MergeKey, InRange, SetAll
<1>1. ASSUME NEW n \in Nodes, ReadInput(n) PROVE TypeOK' /\ ControlInv'
  <2>1. /\ <<"comts", 0, 0>> \in Key /\ <<"users", 0, 0>> \in Key
        /\ {Linus} \in SUBSET (Users \cup Projects \cup {Linus})
    OBVIOUS
  <2>2. published' \subseteq Key /\ frame' \in [Key -> SUBSET (Users \cup Projects \cup {Linus})]
    <3>1. CASE n = 0
      <4>1. published' = published \cup {<<"comts", 0, 0>>, <<"users", 0, 0>>}
        BY <1>1, <3>1 DEF ReadInput
      <4>2. frame' = [frame EXCEPT ![<<"users", 0, 0>>] = {Linus}]
        BY <1>1, <3>1 DEF ReadInput
      <4> HIDE DEF Key
      <4> QED
        BY <2>1, <4>1, <4>2
    <3>2. CASE n # 0
      BY <1>1, <3>2 DEF ReadInput
    <3> QED
      BY <3>1, <3>2
  <2> QED
    BY <1>1, <2>2 DEF ReadInput
<1>2. ASSUME NEW n \in Nodes, TagProjects(n) PROVE TypeOK' /\ ControlInv'
  BY <1>2 DEF TagProjects, NewProjects
<1>3. CASE Gather
  BY <1>3 DEF Gather
<1>4. CASE PublishMerged
  BY <1>4 DEF PublishMerged
<1>5. ASSUME NEW n \in Nodes, SendDelta(n) PROVE TypeOK' /\ ControlInv'
  BY <1>5 DEF SendDelta
<1>6. ASSUME NEW n \in Nodes, ReceiveMerged(n) PROVE TypeOK' /\ ControlInv'
  BY <1>6 DEF ReceiveMerged
<1>7. ASSUME NEW n \in Nodes, TagUsers(n) PROVE TypeOK' /\ ControlInv'
  BY <1>7 DEF TagUsers, NewUsers
<1>8. ASSUME NEW n \in Nodes, EndStage(n) PROVE TypeOK' /\ ControlInv'
  BY <1>8 DEF EndStage
<1>9. CASE UNCHANGED vars
  BY <1>9 DEF vars
<1> QED
  BY <1>1, <1>2, <1>3, <1>4, <1>5, <1>6, <1>7, <1>8, <1>9 DEF Next, Step, Done
-----------------------------------------------------------------------------
\* Frames have the keys they should, and different ones.
LEMMA KeyFacts ==
  \A s, t \in 0 .. Stages, m, n \in Nodes :
    /\ ProjectKey(s, m) \in Key
    /\ UserKey(s, m) \in Key
    /\ ProjectKey(s, m) = ProjectKey(t, n) <=> s = t /\ m = n
    /\ UserKey(s, m) = UserKey(t, n) <=> s = t /\ m = n
    /\ ProjectKey(s, m) # UserKey(t, n)
    /\ <<"comts", 0, 0>> \notin {ProjectKey(s, m), UserKey(s, m)}
BY DEF ProjectKey, UserKey, Key

LEMMA MergeKeyIs ==
  ASSUME TypeOK, NEW n \in Nodes, NEW m
  PROVE  /\ merging[n] = "users" => MergeKey(n, m) = UserKey(stage[n] + 1, m)
         /\ merging[n] = "projects" => MergeKey(n, m) = ProjectKey(stage[n], m)
BY DEF MergeKey, UserKey, ProjectKey

\* What merge puts and awaits in its stage are keys of the model.
LEMMA MergeStage ==
  ASSUME TypeOK, ControlInv, NEW n \in Nodes, place[n] \in {"tag", "merge", "await", "merged"}
  PROVE  /\ stage[n] \in 0 .. Stages - 1
         /\ 0 \in Nodes
         /\ \A m \in Nodes : MergeKey(n, m) \in Key
<1>1. stage[n] \in 0 .. Stages - 1 /\ 0 \in Nodes
  BY LinusSetsAssumption DEF TypeOK, ControlInv, Nodes
<1>2. stage[n] \in 0 .. Stages /\ stage[n] + 1 \in 0 .. Stages
  BY <1>1, LinusSetsAssumption
<1>3. merging[n] \in {"users", "projects"}
  BY DEF TypeOK
<1> QED
  BY <1>1, <1>2, <1>3, MergeKeyIs, KeyFacts

LEMMA PublishedStep ==
  ASSUME TypeOK, ControlInv, PublishedInv, [Next]_vars
  PROVE  /\ PublishedInv'
         /\ published \subseteq published'
         /\ \A k \in published : frame'[k] = frame[k]
<1> DEFINE Goal == /\ PublishedInv'
                   /\ published \subseteq published'
                   /\ \A k \in published : frame'[k] = frame[k]
<1> USE LinusSetsAssumption DEF PublishedInv, ProjectsSent, UsersSent
<1>0. /\ 0 \in Nodes
      /\ 0 \in 0 .. Stages
      /\ stage \in [Nodes -> 0 .. Stages]
      /\ place \in [Nodes -> {"input", "tag", "merge", "await", "merged", "done"}]
      /\ merging \in [Nodes -> {"projects", "users"}]
      /\ published \subseteq Key
      /\ frame \in [Key -> SUBSET (Users \cup Projects \cup {Linus})]
  BY DEF TypeOK, Nodes
<1>1. ASSUME NEW n \in Nodes, ReadInput(n) PROVE Goal
  <2>1. CASE n # 0
    BY <1>0, <1>1, <2>1 DEF ReadInput, ControlInv
  <2>2. CASE n = 0
    <3>1. /\ published' = published \cup {<<"comts", 0, 0>>, UserKey(0, 0)}
          /\ frame' = [frame EXCEPT ![UserKey(0, 0)] = {Linus}]
          /\ place' = [place EXCEPT ![0] = "tag"]
          /\ stage' = stage /\ merging' = merging /\ place[0] = "input"
      BY <1>1, <2>2 DEF ReadInput, UserKey
    <3>2. UserKey(0, 0) \notin published
      BY <3>1
    <3> QED
      BY <1>0, <2>2, <3>1, <3>2, KeyFacts DEF ControlInv
  <2> QED
    BY <2>1, <2>2
<1>2. ASSUME NEW n \in Nodes, TagProjects(n) PROVE Goal
  BY <1>0, <1>2 DEF TagProjects, ControlInv
<1>3. CASE Gather
  BY <1>0, <1>3 DEF Gather
<1>4. ASSUME NEW n \in Nodes, place[n] = "merge", NEW v, Publish(MergeKey(n, n), v),
             place' = [place EXCEPT ![n] = IF n = 0 THEN "merged" ELSE "await"],
             UNCHANGED <<stage, merging>>
      PROVE  Goal
  <2> DEFINE s == stage[n]
  <2>1. s \in 0 .. Stages - 1 /\ s \in 0 .. Stages /\ s + 1 \in 1 .. Stages /\ s + 1 \in 0 .. Stages
    BY <1>4, MergeStage, LinusSetsAssumption
  <2>2. CASE merging[n] = "projects"
    <3>1. /\ published' = published \cup {ProjectKey(s, n)}
          /\ frame' = [frame EXCEPT ![ProjectKey(s, n)] = v]
      BY <1>4, <2>2, MergeKeyIs DEF Publish
    <3>2. ProjectKey(s, n) \notin published
      BY <1>4, <2>1, <2>2
    <3> QED
      BY <1>0, <1>4, <2>1, <2>2, <3>1, <3>2, KeyFacts
  <2>3. CASE merging[n] = "users"
    <3>1. /\ published' = published \cup {UserKey(s + 1, n)}
          /\ frame' = [frame EXCEPT ![UserKey(s + 1, n)] = v]
      BY <1>4, <2>3, MergeKeyIs DEF Publish
    <3>2. UserKey(s + 1, n) \notin published
      BY <1>4, <2>1, <2>3
    <3> HIDE DEF s
    <3>3. s = stage[n]
      BY DEF s
    <3>4. \A m \in Nodes, t \in 0 .. Stages :
            ProjectKey(t, m) \in published' <=> ProjectsSent(m, t)'
      <4> SUFFICES ASSUME NEW m \in Nodes, NEW t \in 0 .. Stages
                   PROVE  ProjectKey(t, m) \in published' <=> ProjectsSent(m, t)'
        OBVIOUS
      <4>1. ProjectKey(t, m) \in published' <=> ProjectKey(t, m) \in published
        <5>1. ProjectKey(t, m) # UserKey(s + 1, n)
          BY <2>1, KeyFacts
        <5> QED
          BY <3>1, <5>1
      <4>2. CASE m = n
        BY <1>0, <1>4, <2>1, <2>3, <3>3, <4>1, <4>2
      <4>3. CASE m # n
        BY <1>0, <1>4, <3>3, <4>1, <4>3
      <4> QED
        BY <4>2, <4>3
    <3>5. \A m \in Nodes, t \in 1 .. Stages : UserKey(t, m) \in published' <=> UsersSent(m, t)'
      <4> SUFFICES ASSUME NEW m \in Nodes, NEW t \in 1 .. Stages
                   PROVE  UserKey(t, m) \in published' <=> UsersSent(m, t)'
        OBVIOUS
      <4>1. UserKey(t, m) \in published' <=> (UserKey(t, m) \in published \/ (t = s + 1 /\ m = n))
        <5>1. t \in 0 .. Stages
          OBVIOUS
        <5>2. UserKey(t, m) = UserKey(s + 1, n) <=> t = s + 1 /\ m = n
          BY <2>1, <5>1, KeyFacts
        <5> QED
          BY <3>1, <5>2
      <4>2. CASE m = n
        BY <1>0, <1>4, <2>1, <2>3, <3>3, <4>1, <4>2
      <4>3. CASE m # n
        BY <1>0, <1>4, <3>3, <4>1, <4>3
      <4> QED
        BY <4>2, <4>3
    <3>6. /\ UserKey(0, 0) \in published' <=> place'[0] # "input"
          /\ \A m \in Nodes \ {0} : UserKey(0, m) \notin published'
          /\ \A k \in Key \ published' : frame'[k] = {}
          /\ \A k \in published : frame'[k] = frame[k]
      BY <1>0, <1>4, <2>1, <2>3, <3>1, <3>2, <3>3, KeyFacts
    <3> QED
      BY <3>1, <3>4, <3>5, <3>6
  <2> QED
    BY <1>0, <2>2, <2>3
<1>5. CASE PublishMerged
  BY <1>0, <1>4, <1>5 DEF PublishMerged
<1>6. ASSUME NEW n \in Nodes, SendDelta(n) PROVE Goal
  BY <1>0, <1>4, <1>6 DEF SendDelta
<1>7. ASSUME NEW n \in Nodes, ReceiveMerged(n) PROVE Goal
  BY <1>0, <1>7 DEF ReceiveMerged, ControlInv
<1>8. ASSUME NEW n \in Nodes, TagUsers(n) PROVE Goal
  BY <1>0, <1>8 DEF TagUsers, ControlInv
<1>9. ASSUME NEW n \in Nodes, EndStage(n) PROVE Goal
  BY <1>0, <1>9 DEF EndStage, ControlInv
<1>10. CASE UNCHANGED vars
  BY <1>10 DEF vars
<1> QED
  BY <1>1, <1>2, <1>3, <1>5, <1>6, <1>7, <1>8, <1>9, <1>10 DEF Next, Step, Done
-----------------------------------------------------------------------------
LEMMA OrderStep ==
  ASSUME TypeOK, ControlInv, OrderInv, published \subseteq published', [Next]_vars
  PROVE  OrderInv'
<1> USE DEF OrderInv, ControlInv
<1>0. /\ stage \in [Nodes -> 0 .. Stages]
      /\ place \in [Nodes -> {"input", "tag", "merge", "await", "merged", "done"}]
      /\ merging \in [Nodes -> {"projects", "users"}]
  BY DEF TypeOK
<1>1. ASSUME NEW n \in Nodes, ReadInput(n) PROVE OrderInv'
  BY <1>0, <1>1 DEF ReadInput, MergeKey
<1>2. ASSUME NEW n \in Nodes, TagProjects(n) PROVE OrderInv'
  BY <1>0, <1>2 DEF TagProjects, MergeKey, UserKey
<1>3. CASE Gather
  BY <1>0, <1>3 DEF Gather, MergeKey
<1>4. CASE PublishMerged
  BY <1>0, <1>4 DEF PublishMerged, MergeKey, Publish
<1>5. ASSUME NEW n \in Nodes, SendDelta(n) PROVE OrderInv'
  BY <1>0, <1>5 DEF SendDelta, MergeKey
<1>6. ASSUME NEW n \in Nodes, ReceiveMerged(n) PROVE OrderInv'
  BY <1>0, <1>6 DEF ReceiveMerged, MergeKey
<1>7. ASSUME NEW n \in Nodes, TagUsers(n) PROVE OrderInv'
  BY <1>0, <1>7 DEF TagUsers, MergeKey, ProjectKey
<1>8. ASSUME NEW n \in Nodes, EndStage(n) PROVE OrderInv'
  BY <1>0, <1>8 DEF EndStage, MergeKey, UserKey
<1>9. CASE UNCHANGED vars
  BY <1>9 DEF vars, MergeKey
<1> QED
  BY <1>1, <1>2, <1>3, <1>4, <1>5, <1>6, <1>7, <1>8, <1>9 DEF Next, Step, Done

\* A frame in the store comes after all that it was computed from.
LEMMA Earlier ==
  ASSUME TypeOK, ControlInv, PublishedInv, OrderInv, NEW s \in 0 .. Stages
  PROVE  /\ UserKey(s, 0) \in published =>
              /\ \A t \in 0 .. s : UserKey(t, 0) \in published
              /\ \A t \in 0 .. s - 1 : ProjectKey(t, 0) \in published
         /\ \A n \in Nodes : ProjectKey(s, n) \in published => UserKey(s, 0) \in published
         /\ \A n \in Nodes : s > 0 /\ UserKey(s, n) \in published => ProjectKey(s - 1, 0) \in published
<1> USE LinusSetsAssumption DEF PublishedInv, ProjectsSent, UsersSent
<1>0. /\ 0 \in Nodes
      /\ stage \in [Nodes -> 0 .. Stages]
      /\ place \in [Nodes -> {"input", "tag", "merge", "await", "merged", "done"}]
      /\ merging \in [Nodes -> {"projects", "users"}]
  BY DEF TypeOK, Nodes
<1>1. ASSUME UserKey(s, 0) \in published
      PROVE  /\ \A t \in 0 .. s : UserKey(t, 0) \in published
             /\ \A t \in 0 .. s - 1 : ProjectKey(t, 0) \in published
  BY <1>0, <1>1 DEF ControlInv
<1>2. ASSUME NEW n \in Nodes, ProjectKey(s, n) \in published PROVE UserKey(s, 0) \in published
  <2>1. CASE s = stage[n]
    BY <1>0, <1>2, <2>1 DEF OrderInv, ControlInv
  <2>2. CASE s < stage[n]
    <3>1. UserKey(stage[n], 0) \in published
      BY <1>0, <2>2 DEF OrderInv
    <3> QED
      BY <1>0, <2>2, <3>1 DEF ControlInv
  <2> QED
    BY <1>0, <1>2, <2>1, <2>2
<1>3. ASSUME NEW n \in Nodes, s > 0, UserKey(s, n) \in published
      PROVE  ProjectKey(s - 1, 0) \in published
  <2>1. CASE s = stage[n] + 1
    BY <1>0, <1>3, <2>1 DEF OrderInv
  <2>2. CASE s <= stage[n]
    <3>1. UserKey(stage[n], 0) \in published
      BY <1>0, <1>3, <2>2 DEF OrderInv
    <3>2. UsersSent(0, stage[n])
      BY <1>0, <1>3, <2>2, <3>1
    <3>3. ProjectsSent(0, s - 1)
      BY <1>0, <1>3, <2>2, <3>2
    <3> QED
      BY <1>0, <1>3, <3>3
  <2> QED
    BY <1>0, <1>3, <2>1, <2>2
<1> QED
  BY <1>1, <1>2, <1>3

\* What a stage is computed from does not change any more.
LEMMA Stable ==
  ASSUME TypeOK, ControlInv, PublishedInv, OrderInv,
         \A k \in published : frame'[k] = frame[k],
         NEW s \in 0 .. Stages
  PROVE  /\ UserKey(s, 0) \in published =>
              /\ ProjectsIn(frame', s) = ProjectsIn(frame, s)
              /\ UsersIn(frame', s) = UsersIn(frame, s)
              /\ \A rs : FoundProjects(frame', rs, s) = FoundProjects(frame, rs, s)
         /\ ProjectKey(s, 0) \in published =>
              /\ ProjectsIn(frame', s + 1) = ProjectsIn(frame, s + 1)
              /\ \A rs : FoundUsers(frame', rs, s) = FoundUsers(frame, rs, s)
<1>1. ASSUME UserKey(s, 0) \in published
      PROVE  /\ ProjectsIn(frame', s) = ProjectsIn(frame, s)
             /\ UsersIn(frame', s) = UsersIn(frame, s)
             /\ \A rs : FoundProjects(frame', rs, s) = FoundProjects(frame, rs, s)
  <2>1. /\ \A t \in 1 .. s : frame'[UserKey(t, 0)] = frame[UserKey(t, 0)]
        /\ \A t \in 0 .. s - 1 : frame'[ProjectKey(t, 0)] = frame[ProjectKey(t, 0)]
        /\ frame'[UserKey(s, 0)] = frame[UserKey(s, 0)]
    BY <1>1, Earlier
  <2>2. ProjectsIn(frame', s) = ProjectsIn(frame, s) /\ UsersIn(frame', s) = UsersIn(frame, s)
    BY <2>1 DEF ProjectsIn, UsersIn
  <2> QED
    BY <2>1, <2>2 DEF FoundProjects
<1>2. ASSUME ProjectKey(s, 0) \in published
      PROVE  /\ ProjectsIn(frame', s + 1) = ProjectsIn(frame, s + 1)
             /\ \A rs : FoundUsers(frame', rs, s) = FoundUsers(frame, rs, s)
  <2>1. 0 \in Nodes /\ UserKey(s, 0) \in published
    BY <1>2, Earlier, LinusSetsAssumption DEF Nodes
  <2>2. /\ \A t \in 0 .. s - 1 : frame'[ProjectKey(t, 0)] = frame[ProjectKey(t, 0)]
        /\ frame'[ProjectKey(s, 0)] = frame[ProjectKey(s, 0)]
    BY <1>2, <2>1, Earlier
  <2>3. \A t \in 0 .. (s + 1) - 1 : frame'[ProjectKey(t, 0)] = frame[ProjectKey(t, 0)]
    BY <2>2
  <2>4. ProjectsIn(frame', s + 1) = ProjectsIn(frame, s + 1)
    BY <2>3 DEF ProjectsIn
  <2> QED
    BY <1>1, <2>1, <2>2, <2>4 DEF FoundUsers
<1> QED
  BY <1>1, <1>2
-----------------------------------------------------------------------------
\* A step puts nothing, the input, or the set of a node that merges.
LEMMA NewFrame ==
  ASSUME TypeOK, ControlInv, [Next]_vars, NEW k \in published' \ published
  PROVE  \/ k = <<"comts", 0, 0>>
         \/ k = UserKey(0, 0) /\ frame'[k] = {Linus}
         \/ \E n \in Nodes :
              /\ place[n] = "merge"
              /\ k = MergeKey(n, n)
              /\ frame'[k] = fresh[n]
              /\ n = 0 => awaited = N
<1> DEFINE Goal == \/ k = <<"comts", 0, 0>>
                   \/ k = UserKey(0, 0) /\ frame'[k] = {Linus}
                   \/ \E n \in Nodes :
                        /\ place[n] = "merge"
                        /\ k = MergeKey(n, n)
                        /\ frame'[k] = fresh[n]
                        /\ n = 0 => awaited = N
<1>0. 0 \in Nodes /\ UserKey(0, 0) \in Key /\ frame \in [Key -> SUBSET (Users \cup Projects \cup {Linus})]
  BY LinusSetsAssumption, KeyFacts DEF Nodes, TypeOK
<1>1. ASSUME NEW n \in Nodes, ReadInput(n) PROVE Goal
  BY <1>0, <1>1 DEF ReadInput, UserKey
<1>2. CASE PublishMerged
  <2>1. MergeKey(0, 0) \in Key
    BY <1>0, <1>2, MergeStage DEF PublishMerged
  <2> QED
    BY <1>0, <1>2, <2>1 DEF PublishMerged, Publish
<1>3. ASSUME NEW n \in Nodes, SendDelta(n) PROVE Goal
  <2>1. MergeKey(n, n) \in Key
    BY <1>3, MergeStage DEF SendDelta
  <2> QED
    BY <1>0, <1>3, <2>1 DEF SendDelta, Publish
<1>4. ASSUME UNCHANGED published PROVE Goal
  BY <1>4
<1> QED
  BY <1>1, <1>2, <1>3, <1>4
  DEF Next, Step, Done, vars, TagProjects, Gather, ReceiveMerged, TagUsers, EndStage

\* What the theorems below may use of a step and the state before it.
Before == TypeOK /\ ControlInv /\ PublishedInv /\ OrderInv
Kept == /\ rows' = rows
        /\ published \subseteq published'
        /\ \A k \in published : frame'[k] = frame[k]

LEMMA KeptStep == Before /\ [Next]_vars => Kept /\ Before'
<1> SUFFICES ASSUME Before, [Next]_vars PROVE Kept /\ Before'
  OBVIOUS
<1>1. rows' = rows
  BY DEF Next, Step, Done, vars, ReadInput, TagProjects, Gather, PublishMerged, SendDelta,
         ReceiveMerged, TagUsers, EndStage
<1>2. PublishedInv' /\ published \subseteq published' /\ (\A k \in published : frame'[k] = frame[k])
  BY PublishedStep DEF Before
<1> QED
  BY <1>1, <1>2, TypeStep, OrderStep DEF Before, Kept

LEMMA FrameStep ==
  ASSUME Before, FrameInv, FreshInv, Kept, [Next]_vars
  PROVE  FrameInv'
<1>0. 0 \in Nodes /\ 0 \in 0 .. Stages /\ Nodes = 0 .. N - 1
  BY LinusSetsAssumption DEF Nodes
<1>1. ASSUME UserKey(0, 0) \in published' PROVE frame'[UserKey(0, 0)] = {Linus}
  <2>1. CASE UserKey(0, 0) \in published
    BY <2>1 DEF FrameInv, Kept
  <2>2. ASSUME NEW n \in Nodes, place[n] = "merge" PROVE UserKey(0, 0) # MergeKey(n, n)
    <3>1. stage[n] \in 0 .. Stages - 1 /\ stage[n] \in 0 .. Stages /\ stage[n] + 1 \in 0 .. Stages
      BY <2>2, MergeStage, LinusSetsAssumption DEF Before
    <3>2. merging[n] \in {"users", "projects"}
      BY DEF Before, TypeOK
    <3> QED
      BY <1>0, <3>1, <3>2, MergeKeyIs, KeyFacts DEF Before
  <2>3. CASE UserKey(0, 0) \notin published
    BY <1>0, <1>1, <2>2, <2>3, NewFrame, KeyFacts DEF Before
  <2> QED
    BY <2>1, <2>3
<1>2. ASSUME NEW t \in 0 .. Stages - 1, NEW n \in Nodes, ProjectKey(t, n) \in published'
      PROVE  frame'[ProjectKey(t, n)] =
               IF n = 0 THEN UNION {FoundProjects(frame', rows'[i], t) : i \in Nodes}
                        ELSE FoundProjects(frame', rows'[n], t)
  <2>0. t \in 0 .. Stages
    BY LinusSetsAssumption
  <2>1. CASE ProjectKey(t, n) \in published
    <3>1. UserKey(t, 0) \in published
      BY <2>0, <2>1, Earlier DEF Before
    <3>2. \A rs : FoundProjects(frame', rs, t) = FoundProjects(frame, rs, t)
      BY <2>0, <3>1, Stable DEF Before, Kept
    <3>3. /\ UNION {FoundProjects(frame', rows'[i], t) : i \in Nodes}
                = UNION {FoundProjects(frame, rows[i], t) : i \in Nodes}
          /\ FoundProjects(frame', rows'[n], t) = FoundProjects(frame, rows[n], t)
      BY <3>2 DEF Kept
    <3> QED
      BY <2>1, <3>3 DEF FrameInv, Kept
  <2>2. CASE ProjectKey(t, n) \notin published
    <3>1. PICK m \in Nodes :
            /\ place[m] = "merge"
            /\ ProjectKey(t, n) = MergeKey(m, m)
            /\ frame'[ProjectKey(t, n)] = fresh[m]
            /\ m = 0 => awaited = N
      BY <1>0, <1>2, <2>0, <2>2, NewFrame, KeyFacts DEF Before
    <3>2. stage[m] \in 0 .. Stages - 1 /\ stage[m] \in 0 .. Stages /\ stage[m] + 1 \in 0 .. Stages
      BY <3>1, MergeStage, LinusSetsAssumption DEF Before
    <3>3. merging[m] = "projects" /\ m = n /\ stage[m] = t
      <4>1. merging[m] \in {"users", "projects"}
        BY DEF Before, TypeOK
      <4> QED
        BY <2>0, <3>1, <3>2, <4>1, MergeKeyIs, KeyFacts DEF Before
    <3>4. UserKey(t, 0) \in published
      BY <3>1, <3>3 DEF Before, OrderInv
    <3>5. \A rs : FoundProjects(frame', rs, t) = FoundProjects(frame, rs, t)
      BY <2>0, <3>4, Stable DEF Before, Kept
    <3>6. /\ UNION {FoundProjects(frame', rows'[i], t) : i \in Nodes}
                = UNION {FoundProjects(frame, rows[i], t) : i \in Nodes}
          /\ FoundProjects(frame', rows'[n], t) = FoundProjects(frame, rows[n], t)
      BY <3>5 DEF Kept
    <3>7. fresh[n] = IF n = 0 THEN UNION {FoundProjects(frame, rows[i], t) : i \in Nodes}
                              ELSE FoundProjects(frame, rows[n], t)
      <4>1. \A i : Found(n, i) = FoundProjects(frame, rows[i], t)
        BY <3>3 DEF Found
      <4>2. CASE n = 0
        <5>1. fresh[n] = UNION {Found(n, i) : i \in Nodes}
          BY <1>0, <3>1, <3>3, <4>2 DEF FreshInv
        <5> QED
          BY <4>1, <4>2, <5>1
      <4>3. CASE n # 0
        BY <3>1, <3>3, <4>1, <4>3 DEF FreshInv
      <4> QED
        BY <4>2, <4>3
    <3> QED
      BY <3>1, <3>3, <3>6, <3>7
  <2> QED
    BY <2>1, <2>2
<1>3. ASSUME NEW t \in 0 .. Stages - 1, NEW n \in Nodes, UserKey(t + 1, n) \in published'
      PROVE  frame'[UserKey(t + 1, n)] =
               IF n = 0 THEN UNION {FoundUsers(frame', rows'[i], t) : i \in Nodes}
                        ELSE FoundUsers(frame', rows'[n], t)
  <2>0. t \in 0 .. Stages /\ t + 1 \in 0 .. Stages /\ t + 1 > 0 /\ (t + 1) - 1 = t
    BY LinusSetsAssumption
  <2>1. CASE UserKey(t + 1, n) \in published
    <3>1. ProjectKey((t + 1) - 1, 0) \in published
      BY <2>0, <2>1, Earlier DEF Before
    <3>2. \A rs : FoundUsers(frame', rs, t) = FoundUsers(frame, rs, t)
      BY <2>0, <3>1, Stable DEF Before, Kept
    <3>3. /\ UNION {FoundUsers(frame', rows'[i], t) : i \in Nodes}
                = UNION {FoundUsers(frame, rows[i], t) : i \in Nodes}
          /\ FoundUsers(frame', rows'[n], t) = FoundUsers(frame, rows[n], t)
      BY <3>2 DEF Kept
    <3> QED
      BY <2>1, <3>3 DEF FrameInv, Kept
  <2>2. CASE UserKey(t + 1, n) \notin published
    <3>1. PICK m \in Nodes :
            /\ place[m] = "merge"
            /\ UserKey(t + 1, n) = MergeKey(m, m)
            /\ frame'[UserKey(t + 1, n)] = fresh[m]
            /\ m = 0 => awaited = N
      <4>1. UserKey(t + 1, n) # UserKey(0, 0) /\ UserKey(t + 1, n) # <<"comts", 0, 0>>
        BY <1>0, <2>0, KeyFacts
      <4> QED
        BY <1>3, <2>2, <4>1, NewFrame DEF Before
    <3>2. stage[m] \in 0 .. Stages - 1 /\ stage[m] \in 0 .. Stages /\ stage[m] + 1 \in 0 .. Stages
      BY <3>1, MergeStage, LinusSetsAssumption DEF Before
    <3>3. merging[m] = "users" /\ m = n /\ stage[m] = t
      <4>1. merging[m] \in {"users", "projects"}
        BY DEF Before, TypeOK
      <4> QED
        BY <2>0, <3>1, <3>2, <4>1, MergeKeyIs, KeyFacts DEF Before
    <3>4. ProjectKey(t, 0) \in published
      BY <3>3 DEF Before, OrderInv
    <3>5. \A rs : FoundUsers(frame', rs, t) = FoundUsers(frame, rs, t)
      BY <2>0, <3>4, Stable DEF Before, Kept
    <3>6. /\ UNION {FoundUsers(frame', rows'[i], t) : i \in Nodes}
                = UNION {FoundUsers(frame, rows[i], t) : i \in Nodes}
          /\ FoundUsers(frame', rows'[n], t) = FoundUsers(frame, rows[n], t)
      BY <3>5 DEF Kept
    <3>7. fresh[n] = IF n = 0 THEN UNION {FoundUsers(frame, rows[i], t) : i \in Nodes}
                              ELSE FoundUsers(frame, rows[n], t)
      <4>1. \A i : Found(n, i) = FoundUsers(frame, rows[i], t)
        BY <3>3 DEF Found
      <4>2. CASE n = 0
        <5>1. fresh[n] = UNION {Found(n, i) : i \in Nodes}
          BY <1>0, <3>1, <3>3, <4>2 DEF FreshInv
        <5> QED
          BY <4>1, <4>2, <5>1
      <4>3. CASE n # 0
        BY <3>1, <3>3, <4>1, <4>3 DEF FreshInv
      <4> QED
        BY <4>2, <4>3
    <3> QED
      BY <3>1, <3>3, <3>6, <3>7
  <2> QED
    BY <2>1, <2>2
<1> QED
  BY <1>0, <1>1, <1>2, <1>3 DEF FrameInv
-----------------------------------------------------------------------------
\* What a node's sets are made of is not changed by any step.
LEMMA SetsStable ==
  ASSUME Before, Kept, NEW n \in Nodes
  PROVE  /\ ProjectsIn(frame', stage[n]) = ProjectsIn(frame, stage[n])
         /\ UsersIn(frame', stage[n]) = UsersIn(frame, stage[n])
         /\ place[n] \notin {"input", "tag", "done"} =>
              \A rs : FoundProjects(frame', rs, stage[n]) = FoundProjects(frame, rs, stage[n])
         /\ merging[n] = "users" =>
              /\ ProjectsIn(frame', stage[n] + 1) = ProjectsIn(frame, stage[n] + 1)
              /\ \A rs : FoundUsers(frame', rs, stage[n]) = FoundUsers(frame, rs, stage[n])
<1>0. stage[n] \in 0 .. Stages
  BY DEF Before, TypeOK
<1>1. CASE UserKey(stage[n], 0) \in published
  <2>1. merging[n] = "users" => ProjectKey(stage[n], 0) \in published
    BY DEF Before, OrderInv
  <2> QED
    BY <1>0, <1>1, <2>1, Stable DEF Before, Kept
<1>2. CASE UserKey(stage[n], 0) \notin published
  <2>1. stage[n] = 0 /\ place[n] \in {"input", "tag"} /\ merging[n] = "projects"
    BY <1>0, <1>2 DEF Before, OrderInv, ControlInv
  <2> QED
    BY <2>1 DEF ProjectsIn, UsersIn
<1> QED
  BY <1>1, <1>2

LEMMA FoundStable ==
  ASSUME Before, Kept, NEW n \in Nodes, NEW i, place[n] \notin {"input", "tag", "done"},
         stage'[n] = stage[n], merging'[n] = merging[n]
  PROVE  Found(n, i)' = Found(n, i)
<1>1. merging[n] \in {"projects", "users"}
  BY DEF Before, TypeOK
<1> QED
  BY <1>1, SetsStable DEF Found, Kept

\* A node that the step does not concern, or that only puts a frame, gets one
\* or goes on, has the sets it should.
LEMMA SetsKept ==
  ASSUME Before, Kept, NEW n \in Nodes,
         pSet'[n] = pSet[n], uSet'[n] = uSet[n],
         stage'[n] = stage[n], merging'[n] = merging[n],
         place'[n] \in {"merge", "await", "merged"} <=> place[n] \in {"merge", "await", "merged"},
         SetsInv
  PROVE  /\ pSet'[n] = IF merging'[n] = "users" THEN ProjectsIn(frame', stage'[n] + 1)
                       ELSE IF place'[n] \in {"merge", "await", "merged"}
                       THEN ProjectsIn(frame', stage'[n]) \cup Found(n, n)'
                       ELSE ProjectsIn(frame', stage'[n])
         /\ uSet'[n] = IF merging'[n] = "users" THEN UsersIn(frame', stage'[n]) \cup Found(n, n)'
                       ELSE UsersIn(frame', stage'[n])
<1>1. CASE place[n] \in {"merge", "await", "merged"}
  <2>1. Found(n, n)' = Found(n, n)
    BY <1>1, FoundStable
  <2> QED
    BY <1>1, <2>1, SetsStable DEF SetsInv
<1>2. CASE place[n] \notin {"merge", "await", "merged"}
  <2>1. merging[n] = "projects"
    BY <1>2 DEF Before, ControlInv, TypeOK
  <2> QED
    BY <1>2, <2>1, SetsStable DEF SetsInv
<1> QED
  BY <1>1, <1>2

\* The announced sets grow by the frame of the stage.
LEMMA Grows ==
  ASSUME Before, NEW s \in 0 .. Stages - 1
  PROVE  /\ ProjectsIn(frame, s + 1)
              = ProjectsIn(frame, s) \cup (Projects \cap frame[ProjectKey(s, 0)])
         /\ UsersIn(frame, s + 1)
              = UsersIn(frame, s) \cup (Users \cap frame[UserKey(s + 1, 0)])
<1>1. 0 .. (s + 1) - 1 = (0 .. s - 1) \cup {s} /\ 1 .. s + 1 = (1 .. s) \cup {s + 1}
  BY LinusSetsAssumption
<1> QED
  BY <1>1 DEF ProjectsIn, UsersIn

LEMMA SetsStep ==
  ASSUME Before, Kept, FrameInv, SetsInv, FreshInv, [Next]_vars
  PROVE  SetsInv'
<1> DEFINE SetsOf(n) ==
      /\ pSet[n] = IF merging[n] = "users" THEN ProjectsIn(frame, stage[n] + 1)
                   ELSE IF place[n] \in {"merge", "await", "merged"}
                   THEN ProjectsIn(frame, stage[n]) \cup Found(n, n)
                   ELSE ProjectsIn(frame, stage[n])
      /\ uSet[n] = IF merging[n] = "users" THEN UsersIn(frame, stage[n]) \cup Found(n, n)
                   ELSE UsersIn(frame, stage[n])
<1>0. /\ stage \in [Nodes -> 0 .. Stages]
      /\ place \in [Nodes -> {"input", "tag", "merge", "await", "merged", "done"}]
      /\ merging \in [Nodes -> {"projects", "users"}]
      /\ uSet \in [Nodes -> SUBSET Users]
      /\ pSet \in [Nodes -> SUBSET Projects]
      /\ fresh \in [Nodes -> SUBSET (Users \cup Projects)]
      /\ 0 \in Nodes
  BY LinusSetsAssumption DEF Before, TypeOK, Nodes
<1>1. ASSUME NEW m \in Nodes, NEW n \in Nodes, m # n, Step(m) PROVE SetsOf(n)'
  <2>1. /\ pSet'[n] = pSet[n] /\ uSet'[n] = uSet[n]
        /\ stage'[n] = stage[n] /\ merging'[n] = merging[n] /\ place'[n] = place[n]
    BY <1>0, <1>1 DEF Step, ReadInput, TagProjects, Gather, PublishMerged, SendDelta,
                      ReceiveMerged, TagUsers, EndStage
  <2> QED
    BY <2>1, SetsKept
<1>2. ASSUME NEW n \in Nodes,
             ReadInput(n) \/ (n = 0 /\ (Gather \/ PublishMerged)) \/ SendDelta(n) \/ ReceiveMerged(n)
      PROVE  SetsOf(n)'
  <2>1. /\ pSet'[n] = pSet[n] /\ uSet'[n] = uSet[n]
        /\ stage'[n] = stage[n] /\ merging'[n] = merging[n]
        /\ place'[n] \in {"merge", "await", "merged"} <=> place[n] \in {"merge", "await", "merged"}
    BY <1>0, <1>2 DEF ReadInput, Gather, PublishMerged, SendDelta, ReceiveMerged
  <2> QED
    BY <2>1, SetsKept
<1>3. ASSUME NEW n \in Nodes, TagProjects(n) PROVE SetsOf(n)'
  <2> DEFINE new == NewProjects(n, SetAll(Users, {}, frame[<<"users", stage[n], 0>>]))
  <2>1. merging[n] = "projects"
    BY <1>3 DEF Before, ControlInv, TagProjects
  <2>2. pSet[n] = ProjectsIn(frame, stage[n]) /\ uSet[n] = UsersIn(frame, stage[n])
    BY <1>3, <2>1 DEF SetsInv, TagProjects
  <2>3. new = FoundProjects(frame, rows[n], stage[n])
    BY <2>2 DEF NewProjects, FoundProjects, UserKey, Test
  <2>4. /\ pSet'[n] = pSet[n] \cup new /\ uSet'[n] = uSet[n] /\ place'[n] = "merge"
        /\ merging'[n] = "projects" /\ stage'[n] = stage[n] /\ frame' = frame /\ rows' = rows
    BY <1>0, <1>3, <2>1 DEF TagProjects
  <2> HIDE DEF new
  <2> QED
    BY <2>2, <2>3, <2>4 DEF Found
<1>4. ASSUME NEW n \in Nodes, TagUsers(n) PROVE SetsOf(n)'
  <2> DEFINE new == NewUsers(n, fresh[n])
             s == stage[n]
  <2>1. s \in 0 .. Stages - 1
    BY <1>4, MergeStage DEF Before, TagUsers
  <2>2. /\ pSet[n] = ProjectsIn(frame, s) \cup FoundProjects(frame, rows[n], s)
        /\ uSet[n] = UsersIn(frame, s)
    BY <1>4 DEF SetsInv, TagUsers, Found
  <2>3. /\ fresh[n] = frame[ProjectKey(s, 0)]
        /\ ProjectKey(s, 0) \in published
    BY <1>0, <1>4, MergeKeyIs DEF FreshInv, Before, OrderInv, TagUsers
  <2>4. FoundProjects(frame, rows[n], s) \subseteq Projects \cap fresh[n]
    BY <2>1, <2>3 DEF FrameInv, FoundProjects
  <2>5. new = FoundUsers(frame, rows[n], s)
    BY <2>2, <2>3 DEF NewUsers, FoundUsers, Test
  <2>6. /\ pSet'[n] = pSet[n] \cup (fresh[n] \cap Projects) /\ uSet'[n] = uSet[n] \cup new
        /\ merging'[n] = "users" /\ stage'[n] = s /\ frame' = frame /\ rows' = rows
    BY <1>0, <1>4 DEF TagUsers, SetAll
  <2> HIDE DEF new, s
  <2>7. pSet'[n] = ProjectsIn(frame, s + 1)
    BY <2>1, <2>2, <2>3, <2>4, <2>6, Grows
  <2> QED
    BY <2>2, <2>5, <2>6, <2>7 DEF Found
<1>5. ASSUME NEW n \in Nodes, EndStage(n) PROVE SetsOf(n)'
  <2> DEFINE s == stage[n]
  <2>1. s \in 0 .. Stages - 1
    BY <1>5, MergeStage DEF Before, EndStage
  <2>2. /\ pSet[n] = ProjectsIn(frame, s + 1)
        /\ uSet[n] = UsersIn(frame, s) \cup FoundUsers(frame, rows[n], s)
    BY <1>5 DEF SetsInv, EndStage, Found
  <2>3. /\ fresh[n] = frame[UserKey(s + 1, 0)]
        /\ UserKey(s + 1, 0) \in published
    BY <1>0, <1>5, MergeKeyIs DEF FreshInv, Before, OrderInv, EndStage
  <2>4. FoundUsers(frame, rows[n], s) \subseteq Users \cap fresh[n]
    <3>1. fresh[n] = UNION {FoundUsers(frame, rows[i], s) : i \in Nodes}
      BY <2>1, <2>3 DEF FrameInv
    <3>2. FoundUsers(frame, rows[n], s) \subseteq Users
      BY DEF FoundUsers
    <3> QED
      BY <3>1, <3>2
  <2>5. /\ uSet'[n] = uSet[n] \cup (fresh[n] \cap Users) /\ pSet'[n] = pSet[n]
        /\ merging'[n] = "projects" /\ place'[n] \in {"tag", "done"}
        /\ stage'[n] = s + 1 /\ frame' = frame
    BY <1>0, <1>5 DEF EndStage, SetAll
  <2> HIDE DEF s
  <2>6. uSet'[n] = UsersIn(frame, s + 1)
    BY <2>1, <2>2, <2>3, <2>4, <2>5, Grows
  <2> QED
    BY <2>2, <2>5, <2>6
<1>6. CASE UNCHANGED vars
  BY <1>6 DEF vars, SetsInv, Found
<1>7. ASSUME NEW m \in Nodes, Step(m), NEW n \in Nodes PROVE SetsOf(n)'
  BY <1>1, <1>2, <1>3, <1>4, <1>5, <1>7 DEF Step
<1> QED
  BY <1>6, <1>7 DEF Next, Done, SetsInv
-----------------------------------------------------------------------------
LEMMA FoundInRange ==
  ASSUME TypeOK, NEW n \in Nodes, NEW i
  PROVE  Found(n, i) \subseteq InRange(n)
BY DEF TypeOK, Found, FoundProjects, FoundUsers, InRange

LEMMA FreshStep ==
  ASSUME Before, Kept, FrameInv, SetsInv, FreshInv, [Next]_vars
  PROVE  FreshInv'
<1> DEFINE FreshOf(n) ==
      /\ n # 0 /\ place[n] \in {"merge", "await"} => fresh[n] = Found(n, n)
      /\ n = 0 /\ place[n] = "merge" => fresh[n] = UNION {Found(n, i) : i \in 0 .. awaited - 1}
      /\ place[n] = "merged" => fresh[n] = frame[MergeKey(n, 0)]
<1>0. /\ stage \in [Nodes -> 0 .. Stages]
      /\ place \in [Nodes -> {"input", "tag", "merge", "await", "merged", "done"}]
      /\ merging \in [Nodes -> {"projects", "users"}]
      /\ fresh \in [Nodes -> SUBSET (Users \cup Projects)]
      /\ awaited \in 1 .. N
      /\ 0 \in Nodes
      /\ Nodes = 0 .. N - 1
      /\ N \in Nat
  BY LinusSetsAssumption DEF Before, TypeOK, Nodes
<1>1. ASSUME NEW n \in Nodes, fresh'[n] = fresh[n], place'[n] = place[n],
             stage'[n] = stage[n], merging'[n] = merging[n], n = 0 => awaited' = awaited
      PROVE  FreshOf(n)'
  <2>1. ASSUME place[n] \in {"merge", "await"} PROVE \A i : Found(n, i)' = Found(n, i)
    BY <1>1, <2>1, FoundStable
  <2>2. ASSUME place[n] = "merged" PROVE frame'[MergeKey(n, 0)'] = frame[MergeKey(n, 0)]
    BY <1>1, <2>2 DEF Before, OrderInv, Kept, MergeKey
  <2> QED
    BY <1>1, <2>1, <2>2 DEF FreshInv
<1>2. ASSUME NEW n \in Nodes, ReadInput(n) \/ EndStage(n) PROVE FreshOf(n)'
  BY <1>0, <1>2 DEF ReadInput, EndStage
<1>3. ASSUME NEW n \in Nodes, TagProjects(n) PROVE FreshOf(n)'
  <2> DEFINE new == NewProjects(n, SetAll(Users, {}, frame[<<"users", stage[n], 0>>]))
  <2>1. merging[n] = "projects" /\ pSet[n] = ProjectsIn(frame, stage[n]) /\ (n = 0 => awaited = 1)
    BY <1>3 DEF Before, ControlInv, TagProjects, SetsInv
  <2>2. new = FoundProjects(frame, rows[n], stage[n])
    BY <2>1 DEF NewProjects, FoundProjects, UserKey, Test
  <2>3. /\ fresh'[n] = new /\ place'[n] = "merge" /\ merging'[n] = "projects"
        /\ stage'[n] = stage[n] /\ frame' = frame /\ rows' = rows /\ awaited' = awaited
    BY <1>0, <1>3, <2>1 DEF TagProjects
  <2> HIDE DEF new
  <2>4. Found(n, n)' = new
    BY <2>2, <2>3 DEF Found
  <2>5. n = 0 => UNION {Found(n, i)' : i \in 0 .. awaited' - 1} = new
    BY <2>1, <2>3, <2>4
  <2> QED
    BY <2>3, <2>4, <2>5
<1>4. ASSUME NEW n \in Nodes, TagUsers(n) PROVE FreshOf(n)'
  <2> DEFINE new == NewUsers(n, fresh[n])
  <2>1. /\ uSet[n] = UsersIn(frame, stage[n]) /\ (n = 0 => awaited = 1)
        /\ fresh[n] = frame[ProjectKey(stage[n], 0)]
    BY <1>0, <1>4, MergeKeyIs DEF Before, ControlInv, TagUsers, SetsInv, FreshInv
  <2>2. new = FoundUsers(frame, rows[n], stage[n])
    BY <2>1 DEF NewUsers, FoundUsers, Test
  <2>3. /\ fresh'[n] = new /\ place'[n] = "merge" /\ merging'[n] = "users"
        /\ stage'[n] = stage[n] /\ frame' = frame /\ rows' = rows /\ awaited' = awaited
    BY <1>0, <1>4 DEF TagUsers
  <2> HIDE DEF new
  <2>4. Found(n, n)' = new
    BY <2>2, <2>3 DEF Found
  <2>5. n = 0 => UNION {Found(n, i)' : i \in 0 .. awaited' - 1} = new
    BY <2>1, <2>3, <2>4
  <2> QED
    BY <2>3, <2>4, <2>5
<1>5. ASSUME Gather PROVE FreshOf(0)'
  <2> DEFINE k == MergeKey(0, awaited)
  <2>1. /\ awaited \in Nodes \ {0} /\ 0 .. awaited' - 1 = (0 .. awaited - 1) \cup {awaited}
        /\ stage[0] \in 0 .. Stages - 1
    BY <1>0, <1>5, MergeStage DEF Gather, Before
  <2>2. /\ fresh'[0] = fresh[0] \cup (frame[k] \cap InRange(0))
        /\ place' = place /\ merging' = merging /\ stage' = stage /\ place[0] = "merge"
        /\ k \in published
    BY <1>0, <1>5 DEF Gather, SetAll
  <2>3. frame[k] = Found(0, awaited)
    BY <1>0, <2>1, <2>2, MergeKeyIs DEF FrameInv, Found, Before
  <2>4. fresh[0] = UNION {Found(0, i) : i \in 0 .. awaited - 1}
    BY <1>0, <2>2 DEF FreshInv
  <2>5. \A i : Found(0, i)' = Found(0, i)
    BY <1>0, <2>2, FoundStable
  <2>6. fresh'[0] = fresh[0] \cup Found(0, awaited)
    BY <1>0, <2>2, <2>3, FoundInRange DEF Before
  <2> HIDE DEF k
  <2>7. fresh'[0] = UNION {Found(0, i)' : i \in 0 .. awaited' - 1}
    BY <2>1, <2>4, <2>5, <2>6
  <2> QED
    BY <2>2, <2>7
<1>6. ASSUME PublishMerged PROVE FreshOf(0)'
  <2>1. MergeKey(0, 0) \in Key
    BY <1>0, <1>6, MergeStage DEF PublishMerged, Before
  <2>2. /\ place'[0] = "merged" /\ fresh'[0] = fresh[0]
        /\ frame'[MergeKey(0, 0)] = fresh[0] /\ MergeKey(0, 0)' = MergeKey(0, 0)
    BY <1>0, <1>6, <2>1 DEF PublishMerged, Publish, MergeKey, Before, TypeOK
  <2> QED
    BY <2>2
<1>7. ASSUME NEW n \in Nodes, SendDelta(n) PROVE FreshOf(n)'
  <2>1. /\ n # 0 /\ place[n] = "merge" /\ place'[n] = "await" /\ fresh'[n] = fresh[n]
        /\ merging' = merging /\ stage' = stage
    BY <1>0, <1>7 DEF SendDelta
  <2>2. Found(n, n)' = Found(n, n)
    BY <2>1, FoundStable
  <2> QED
    BY <2>1, <2>2 DEF FreshInv
<1>8. ASSUME NEW n \in Nodes, ReceiveMerged(n) PROVE FreshOf(n)'
  <2> DEFINE k == MergeKey(n, 0)
  <2>1. stage[n] \in 0 .. Stages - 1
    BY <1>8, MergeStage DEF ReceiveMerged, Before
  <2>2. /\ n # 0 /\ place[n] = "await" /\ place'[n] = "merged"
        /\ fresh'[n] = fresh[n] \cup (frame[k] \cap InRange(n))
        /\ merging' = merging /\ stage' = stage /\ frame' = frame /\ k \in published
    BY <1>0, <1>8 DEF ReceiveMerged, SetAll
  <2>3. fresh[n] = Found(n, n)
    BY <2>2 DEF FreshInv
  <2>4. frame[k] = UNION {Found(n, i) : i \in Nodes}
    <3>1. CASE merging[n] = "users"
      <4>1. frame[k] = UNION {FoundUsers(frame, rows[i], stage[n]) : i \in Nodes}
        BY <1>0, <2>1, <2>2, <3>1, MergeKeyIs DEF FrameInv, Before
      <4> QED
        BY <3>1, <4>1 DEF Found
    <3>2. CASE merging[n] = "projects"
      <4>1. frame[k] = UNION {FoundProjects(frame, rows[i], stage[n]) : i \in Nodes}
        BY <1>0, <2>1, <2>2, <3>2, MergeKeyIs DEF FrameInv, Before
      <4> QED
        BY <3>2, <4>1 DEF Found
    <3> QED
      BY <1>0, <3>1, <3>2
  <2>5. \A i : Found(n, i) \subseteq InRange(n)
    BY FoundInRange DEF Before
  <2>6. MergeKey(n, 0)' = k
    BY <2>2 DEF MergeKey
  <2> HIDE DEF k
  <2>7. fresh'[n] = frame[k]
    BY <2>2, <2>3, <2>4, <2>5
  <2> QED
    BY <2>2, <2>6, <2>7
<1>9. ASSUME NEW m \in Nodes, NEW n \in Nodes, m # n, Step(m) PROVE FreshOf(n)'
  <2>1. /\ fresh'[n] = fresh[n] /\ place'[n] = place[n]
        /\ stage'[n] = stage[n] /\ merging'[n] = merging[n]
        /\ n = 0 => awaited' = awaited
    BY <1>0, <1>9 DEF Step, ReadInput, TagProjects, Gather, PublishMerged, SendDelta,
                      ReceiveMerged, TagUsers, EndStage
  <2> QED
    BY <1>1, <2>1
<1>10. ASSUME NEW m \in Nodes, Step(m), NEW n \in Nodes PROVE FreshOf(n)'
  BY <1>2, <1>3, <1>4, <1>5, <1>6, <1>7, <1>8, <1>9, <1>10 DEF Step
<1>11. CASE UNCHANGED vars
  BY <1>1, <1>11 DEF vars, FreshInv
<1> QED
  BY <1>10, <1>11 DEF Next, Done, FreshInv
-----------------------------------------------------------------------------
LEMMA InvCorrect == Spec => []Inv
<1>1. Init => Inv
  <2> SUFFICES ASSUME Init PROVE Inv
    OBVIOUS
  <2> USE LinusSetsAssumption DEF Init
  <2>1. TypeOK /\ ControlInv
    BY DEF TypeOK, ControlInv, Key, Nodes
  <2>2. PublishedInv /\ OrderInv
    <3>1. 0 \in Nodes
      BY DEF Nodes
    <3> QED
      BY <3>1 DEF PublishedInv, OrderInv, ProjectsSent, UsersSent
  <2>3. FrameInv /\ FreshInv
    BY DEF FrameInv, FreshInv
  <2>4. SetsInv
    <3>1. ProjectsIn(frame, 0) = {} /\ UsersIn(frame, 0) = {}
      BY DEF ProjectsIn, UsersIn
    <3> QED
      BY <3>1 DEF SetsInv
  <2> QED
    BY <2>1, <2>2, <2>3, <2>4 DEF Inv
<1>2. Inv /\ [Next]_vars => Inv'
  BY KeptStep, FrameStep, SetsStep, FreshStep DEF Inv, Before
<1> QED
  BY <1>1, <1>2, PTL DEF Spec

\* Every variable stays in its range: no key or stage beyond DEGREES is used,
\* and no client beyond the last is awaited.
THEOREM TypeCorrect == Spec => []TypeOK
<1>1. Inv => TypeOK
  BY DEF Inv
<1> QED
  BY <1>1, InvCorrect, PTL

LEMMA TaggedAre ==
  \A s : TaggedProjects(s) = ProjectsIn(frame, s) /\ TaggedUsers(s) = UsersIn(frame, s)
BY DEF TaggedProjects, TaggedUsers, ProjectsIn, UsersIn, ProjectKey, UserKey

\* All nodes begin a stage, and end the last, with the sets that were announced
\* before it, however the commits are distributed.
THEOREM AgreementCorrect == Spec => []Agreement
<1>1. Inv => Agreement
  <2> SUFFICES ASSUME Inv, NEW n \in Nodes, place[n] \in {"tag", "done"}
               PROVE  /\ pSet[n] = TaggedProjects(stage[n])
                      /\ uSet[n] = TaggedUsers(stage[n])
    BY DEF Agreement
  <2>1. merging[n] = "projects"
    BY DEF Inv, ControlInv
  <2> QED
    BY <2>1, TaggedAre DEF Inv, SetsInv
<1> QED
  BY <1>1, InvCorrect, PTL

\* What is put in a frame was not announced in an earlier stage.
THEOREM DeltasCorrect == Spec => []OnlyDeltas
<1>1. Inv => OnlyDeltas
  <2> SUFFICES ASSUME Inv, NEW t \in 0 .. Stages, NEW n \in Nodes
               PROVE  /\ frame[ProjectKey(t, n)] \cap ProjectsIn(frame, t) = {}
                      /\ t > 0 => frame[UserKey(t, n)] \cap UsersIn(frame, t - 1) = {}
    BY TaggedAre DEF OnlyDeltas, ProjectKey, UserKey
  <2> USE LinusSetsAssumption
  <2>1. /\ \A rs : FoundProjects(frame, rs, t) \cap ProjectsIn(frame, t) = {}
        /\ \A rs : FoundUsers(frame, rs, t - 1) \cap UsersIn(frame, t - 1) = {}
    BY DEF FoundProjects, FoundUsers
  <2>2. frame[ProjectKey(t, n)] \cap ProjectsIn(frame, t) = {}
    <3>1. CASE ProjectKey(t, n) \notin published
      BY <3>1, KeyFacts DEF Inv, PublishedInv
    <3>2. CASE ProjectKey(t, n) \in published
      <4>1. t \in 0 .. Stages - 1
        BY <3>2 DEF Inv, PublishedInv, ProjectsSent, ControlInv, TypeOK
      <4> QED
        BY <2>1, <3>2, <4>1 DEF Inv, FrameInv
    <3> QED
      BY <3>1, <3>2
  <2>3. ASSUME t > 0 PROVE frame[UserKey(t, n)] \cap UsersIn(frame, t - 1) = {}
    <3>1. CASE UserKey(t, n) \notin published
      BY <3>1, KeyFacts DEF Inv, PublishedInv
    <3>2. CASE UserKey(t, n) \in published
      <4>1. PICK s \in 0 .. Stages - 1 : t = s + 1 /\ s = t - 1
        BY <2>3
      <4> QED
        BY <2>1, <3>2, <4>1 DEF Inv, FrameInv
    <3> QED
      BY <3>1, <3>2
  <2> QED
    BY <2>2, <2>3
<1> QED
  BY <1>1, InvCorrect, PTL
-----------------------------------------------------------------------------
\* What has been announced before a stage is all that has been announced, until
\* node 0 announces more.
LEMMA Announced ==
  ASSUME Inv, NEW s \in 0 .. Stages
  PROVE  /\ ProjectKey(s, 0) \notin published => ProjectsIn(frame, Stages) = ProjectsIn(frame, s)
         /\ s < Stages /\ UserKey(s + 1, 0) \notin published =>
              UsersIn(frame, Stages) = UsersIn(frame, s)
<1> USE LinusSetsAssumption
<1>0. 0 \in Nodes /\ stage \in [Nodes -> 0 .. Stages]
  BY DEF Nodes, Inv, TypeOK
<1>1. ASSUME ProjectKey(s, 0) \notin published
      PROVE  ProjectsIn(frame, Stages) = ProjectsIn(frame, s)
  <2>1. \A t \in s .. Stages : frame[ProjectKey(t, 0)] = {}
    <3> SUFFICES ASSUME NEW t \in s .. Stages PROVE frame[ProjectKey(t, 0)] = {}
      OBVIOUS
    <3>1. ProjectKey(t, 0) \notin published
      BY <1>0, <1>1 DEF Inv, PublishedInv, ProjectsSent
    <3> QED
      BY <1>0, <3>1, KeyFacts DEF Inv, PublishedInv
  <2> QED
    BY <2>1 DEF ProjectsIn
<1>2. ASSUME s < Stages, UserKey(s + 1, 0) \notin published
      PROVE  UsersIn(frame, Stages) = UsersIn(frame, s)
  <2>1. \A t \in s + 1 .. Stages : frame[UserKey(t, 0)] = {}
    <3> SUFFICES ASSUME NEW t \in s + 1 .. Stages PROVE frame[UserKey(t, 0)] = {}
      OBVIOUS
    <3>1. UserKey(t, 0) \notin published
      BY <1>0, <1>2 DEF Inv, PublishedInv, UsersSent
    <3> QED
      BY <1>0, <3>1, KeyFacts DEF Inv, PublishedInv
  <2> QED
    BY <2>1 DEF UsersIn
<1> QED
  BY <1>1, <1>2

\* The projects of the stages so far are those of all users announced so far:
\* no user's commits are looked at twice, and none are missed.
LEMMA ProjectsAreAll ==
  ASSUME Inv, WellFormed, NEW s \in 0 .. Stages - 1, UserKey(s, 0) \in published
  PROVE  ProjectsIn(frame, s) \cup UNION {FoundProjects(frame, rows[i], s) : i \in Nodes}
           = {p \in Projects : \E u \in UsersIn(frame, s) \cup {Linus} : <<p, u>> \in Commits}
<1> DEFINE all == ProjectsIn(frame, s) \cup UNION {FoundProjects(frame, rows[i], s) : i \in Nodes}
<1> USE LinusSetsAssumption
<1>0. s \in 0 .. Stages /\ 0 \in Nodes
  BY DEF Nodes
<1>1. /\ \A t \in 0 .. s : UserKey(t, 0) \in published
      /\ \A t \in 0 .. s - 1 : ProjectKey(t, 0) \in published
  BY <1>0, Earlier DEF Inv
<1>2. \A t \in 0 .. s - 1 :
        frame[ProjectKey(t, 0)] = UNION {FoundProjects(frame, rows[i], t) : i \in Nodes}
  BY <1>1 DEF Inv, FrameInv
<1>3. frame[UserKey(0, 0)] = {Linus}
  BY <1>0, <1>1 DEF Inv, FrameInv
<1>4. \A u \in Users :
        u \in UsersIn(frame, s) \cup {Linus} <=> \E t \in 0 .. s : u \in frame[UserKey(t, 0)]
  BY <1>0, <1>3 DEF UsersIn
<1>5. \A t, p, i : p \in FoundProjects(frame, rows[i], t) <=>
        /\ p \in Projects /\ p \notin ProjectsIn(frame, t)
        /\ \E u \in Users : <<p, u>> \in rows[i] /\ u \in frame[UserKey(t, 0)]
  BY DEF FoundProjects, Test, SetAll, WellFormed
<1>6. ASSUME NEW p \in all
      PROVE  p \in Projects /\ \E u \in UsersIn(frame, s) \cup {Linus} : <<p, u>> \in Commits
  <2>1. \E t \in 0 .. s, i \in Nodes : p \in FoundProjects(frame, rows[i], t)
    BY <1>0, <1>2, <1>6 DEF ProjectsIn
  <2>2. PICK t \in 0 .. s, i \in Nodes : p \in FoundProjects(frame, rows[i], t)
    BY <2>1
  <2>3. PICK u \in Users : <<p, u>> \in rows[i] /\ u \in frame[UserKey(t, 0)]
    BY <1>5, <2>2
  <2>4. <<p, u>> \in Commits
    BY <2>3 DEF Commits
  <2> QED
    BY <1>4, <1>5, <2>2, <2>3, <2>4
<1>7. ASSUME NEW p \in Projects, NEW u \in UsersIn(frame, s) \cup {Linus}, <<p, u>> \in Commits
      PROVE  p \in all
  <2>1. u \in Users
    BY DEF UsersIn, WellFormed
  <2>2. PICK t \in 0 .. s : u \in frame[UserKey(t, 0)]
    BY <1>4, <2>1
  <2>3. PICK i \in Nodes : <<p, u>> \in rows[i]
    BY <1>7 DEF Commits
  <2>4. CASE p \in ProjectsIn(frame, t)
    BY <2>2, <2>4 DEF ProjectsIn
  <2>5. CASE p \in FoundProjects(frame, rows[i], t)
    <3>1. CASE t = s
      BY <2>5, <3>1
    <3>2. CASE t \in 0 .. s - 1
      <4>1. p \in frame[ProjectKey(t, 0)]
        BY <1>2, <2>5, <3>2
      <4> QED
        BY <3>2, <4>1 DEF ProjectsIn
    <3> QED
      BY <2>2, <3>1, <3>2
  <2> QED
    BY <1>5, <2>1, <2>2, <2>3, <2>4, <2>5
<1> QED
  BY <1>6, <1>7

\* The same for the users, from all projects announced so far.
LEMMA UsersAreAll ==
  ASSUME Inv, WellFormed, NEW s \in 0 .. Stages - 1, ProjectKey(s, 0) \in published
  PROVE  UsersIn(frame, s) \cup UNION {FoundUsers(frame, rows[i], s) : i \in Nodes}
           = {u \in Users : \E p \in ProjectsIn(frame, s + 1) : <<p, u>> \in Commits}
<1> DEFINE all == UsersIn(frame, s) \cup UNION {FoundUsers(frame, rows[i], s) : i \in Nodes}
<1> USE LinusSetsAssumption
<1>0. s \in 0 .. Stages /\ 0 \in Nodes
  BY DEF Nodes
<1>1. \A t \in 1 .. s : UserKey(t, 0) \in published
  BY <1>0, Earlier DEF Inv
<1>2. \A t \in 0 .. s - 1 :
        frame[UserKey(t + 1, 0)] = UNION {FoundUsers(frame, rows[i], t) : i \in Nodes}
  BY <1>1 DEF Inv, FrameInv
<1>3. \A t, u, i : u \in FoundUsers(frame, rows[i], t) <=>
        /\ u \in Users /\ u \notin UsersIn(frame, t)
        /\ \E p \in Projects : <<p, u>> \in rows[i] /\ p \in frame[ProjectKey(t, 0)]
  BY DEF FoundUsers, Test, WellFormed
<1>4. \A p \in Projects :
        p \in ProjectsIn(frame, s + 1) <=> \E t \in 0 .. s : p \in frame[ProjectKey(t, 0)]
  BY DEF ProjectsIn
<1>5. ASSUME NEW u \in all
      PROVE  u \in Users /\ \E p \in ProjectsIn(frame, s + 1) : <<p, u>> \in Commits
  <2>1. \E t \in 0 .. s, i \in Nodes : u \in FoundUsers(frame, rows[i], t)
    <3>1. CASE u \in UsersIn(frame, s)
      <4>1. PICK t \in 1 .. s : u \in frame[UserKey(t, 0)]
        BY <3>1 DEF UsersIn
      <4>2. t - 1 \in 0 .. s - 1 /\ (t - 1) + 1 = t
        OBVIOUS
      <4> QED
        BY <1>2, <4>1, <4>2
    <3>2. CASE u \notin UsersIn(frame, s)
      BY <1>5, <3>2
    <3> QED
      BY <3>1, <3>2
  <2>2. PICK t \in 0 .. s, i \in Nodes : u \in FoundUsers(frame, rows[i], t)
    BY <2>1
  <2>3. PICK p \in Projects : <<p, u>> \in rows[i] /\ p \in frame[ProjectKey(t, 0)]
    BY <1>3, <2>2
  <2>4. <<p, u>> \in Commits
    BY <2>3 DEF Commits
  <2> QED
    BY <1>3, <1>4, <2>2, <2>3, <2>4
<1>6. ASSUME NEW u \in Users, NEW p \in ProjectsIn(frame, s + 1), <<p, u>> \in Commits
      PROVE  u \in all
  <2>1. p \in Projects
    BY DEF ProjectsIn
  <2>2. PICK t \in 0 .. s : p \in frame[ProjectKey(t, 0)]
    BY <1>4, <2>1
  <2>3. PICK i \in Nodes : <<p, u>> \in rows[i]
    BY <1>6 DEF Commits
  <2>4. CASE u \in UsersIn(frame, t)
    BY <2>2, <2>4 DEF UsersIn
  <2>5. CASE u \in FoundUsers(frame, rows[i], t)
    <3>1. CASE t = s
      BY <2>5, <3>1
    <3>2. CASE t \in 0 .. s - 1
      <4>1. u \in frame[UserKey(t + 1, 0)] /\ t + 1 \in 1 .. s
        BY <1>2, <2>5, <3>2
      <4> QED
        BY <4>1 DEF UsersIn
    <3> QED
      BY <2>2, <3>1, <3>2
  <2> QED
    BY <1>3, <2>1, <2>2, <2>3, <2>4, <2>5
<1> QED
  BY <1>5, <1>6
-----------------------------------------------------------------------------
LEMMA DegreesStep ==
  ASSUME WellFormed, Inv, Inv', Kept, [Next]_vars
  PROVE  [D!DNext]_(D!dvars)
<1> USE LinusSetsAssumption
<1> DEFINE ps == TaggedProjects(Stages)
           us == TaggedUsers(Stages)
           degree == IF place[0] = "merged" /\ merging[0] = "users" THEN stage[0] + 1 ELSE stage[0]
           turn == IF \/ place[0] = "merged" /\ merging[0] = "projects"
                      \/ place[0] = "merge" /\ merging[0] = "users"
                   THEN "users" ELSE "projects"
<1>0. /\ stage \in [Nodes -> 0 .. Stages]
      /\ place \in [Nodes -> {"input", "tag", "merge", "await", "merged", "done"}]
      /\ merging \in [Nodes -> {"projects", "users"}]
      /\ 0 \in Nodes
      /\ frame \in [Key -> SUBSET (Users \cup Projects \cup {Linus})]
  BY DEF Inv, TypeOK, Nodes
<1>1. Commits' = Commits
  BY DEF Kept, Commits
<1>2. ASSUME ps' = ps, us' = us, degree' = degree, turn' = turn PROVE UNCHANGED D!dvars
  BY <1>1, <1>2 DEF D!dvars
<1>3. ASSUME \A t \in 0 .. Stages - 1 : frame'[ProjectKey(t, 0)] = frame[ProjectKey(t, 0)],
             \A t \in 1 .. Stages : frame'[UserKey(t, 0)] = frame[UserKey(t, 0)]
      PROVE  ps' = ps /\ us' = us
  BY <1>3 DEF TaggedProjects, TaggedUsers, ProjectKey, UserKey
<1>4. ASSUME NEW n \in Nodes, ReadInput(n) PROVE UNCHANGED D!dvars
  <2>1. degree' = degree /\ turn' = turn
    BY <1>0, <1>4 DEF ReadInput, Inv, ControlInv
  <2>2. frame' = frame \/ frame' = [frame EXCEPT ![UserKey(0, 0)] = {Linus}]
    BY <1>4 DEF ReadInput, UserKey
  <2>3. \A t \in 0 .. Stages : /\ frame'[ProjectKey(t, 0)] = frame[ProjectKey(t, 0)]
                               /\ t # 0 => frame'[UserKey(t, 0)] = frame[UserKey(t, 0)]
    <3>1. 0 \in 0 .. Stages
      OBVIOUS
    <3> QED
      BY <1>0, <2>2, <3>1, KeyFacts
  <2> QED
    BY <1>2, <1>3, <2>1, <2>3
<1>5. ASSUME NEW n \in Nodes, SendDelta(n) PROVE UNCHANGED D!dvars
  <2>1. degree' = degree /\ turn' = turn
    BY <1>0, <1>5 DEF SendDelta
  <2>2. frame' = [frame EXCEPT ![MergeKey(n, n)] = fresh[n]] /\ n # 0
    BY <1>5 DEF SendDelta, Publish
  <2>3. \A t \in 0 .. Stages : /\ frame'[ProjectKey(t, 0)] = frame[ProjectKey(t, 0)]
                               /\ frame'[UserKey(t, 0)] = frame[UserKey(t, 0)]
    <3>1. stage[n] \in 0 .. Stages /\ stage[n] + 1 \in 0 .. Stages
      BY <1>5, MergeStage DEF SendDelta, Inv
    <3> QED
      BY <1>0, <2>2, <3>1, MergeKeyIs, KeyFacts DEF Inv
  <2> QED
    BY <1>2, <1>3, <2>1, <2>3
<1>6. ASSUME NEW n \in Nodes,
             TagProjects(n) \/ ReceiveMerged(n) \/ TagUsers(n) \/ EndStage(n)
                            \/ (n = 0 /\ Gather) \/ UNCHANGED vars
      PROVE  UNCHANGED D!dvars
  <2>1. frame' = frame
    BY <1>6 DEF TagProjects, ReceiveMerged, TagUsers, EndStage, Gather, vars
  <2>2. degree' = degree /\ turn' = turn
    BY <1>0, <1>6 DEF TagProjects, ReceiveMerged, TagUsers, EndStage, Gather, vars,
                      Inv, ControlInv
  <2> QED
    BY <1>2, <1>3, <2>1, <2>2
<1>7. ASSUME PublishMerged, merging[0] = "projects" PROVE D!TagProjects
  <2> DEFINE s == stage[0]
  <2>1. s \in 0 .. Stages - 1 /\ s \in 0 .. Stages /\ s + 1 \in 0 .. Stages
    BY <1>0, <1>7, MergeStage DEF PublishMerged, Inv
  <2>2. /\ frame' = [frame EXCEPT ![ProjectKey(s, 0)] = fresh[0]]
        /\ place[0] = "merge" /\ place'[0] = "merged" /\ stage' = stage /\ merging' = merging
        /\ fresh[0] = UNION {Found(0, i) : i \in Nodes}
    BY <1>0, <1>7, MergeKeyIs DEF PublishMerged, Publish, Inv, FreshInv, Nodes
  <2>3. fresh[0] = UNION {FoundProjects(frame, rows[i], s) : i \in Nodes}
    BY <1>7, <2>2 DEF Found
  <2>4. UserKey(s, 0) \in published /\ ProjectKey(s, 0) \notin published /\ UserKey(s + 1, 0) \notin published
    BY <1>0, <1>7, <2>1, <2>2 DEF Inv, OrderInv, PublishedInv, ProjectsSent, UsersSent
  <2>5. ps = ProjectsIn(frame, s) /\ us = UsersIn(frame, s)
    BY <2>1, <2>4, Announced, TaggedAre
  <2>6. us' = us
    BY <1>0, <2>1, <2>2, KeyFacts DEF TaggedUsers, UserKey
  <2>7. ps' = ProjectsIn(frame, s) \cup fresh[0]
    <3>1. \A t \in 0 .. Stages - 1 :
            frame'[ProjectKey(t, 0)] = IF t = s THEN fresh[0] ELSE frame[ProjectKey(t, 0)]
      BY <1>0, <2>1, <2>2, KeyFacts
    <3>2. fresh[0] \subseteq Projects
      BY <2>3 DEF FoundProjects
    <3>3. ps' = {p \in Projects : \E t \in 0 .. Stages - 1 : p \in frame'[ProjectKey(t, 0)]}
      BY DEF TaggedProjects, ProjectKey
    <3>4. ps = {p \in Projects : \E t \in 0 .. Stages - 1 : p \in frame[ProjectKey(t, 0)]}
      BY DEF TaggedProjects, ProjectKey
    <3>5. frame[ProjectKey(s, 0)] = {}
      BY <1>0, <2>1, <2>4, KeyFacts DEF Inv, PublishedInv
    <3>6. ps' = ps \cup fresh[0]
      BY <2>1, <3>1, <3>2, <3>3, <3>4, <3>5
    <3> QED
      BY <2>5, <3>6
  <2>8. ps' = {p \in Projects : \E u \in us \cup {Linus} : <<p, u>> \in Commits}
    BY <2>1, <2>3, <2>4, <2>5, <2>7, ProjectsAreAll
  <2>9. /\ turn = "projects" /\ turn' = "users" /\ degree < Stages /\ degree' = degree
    BY <1>7, <2>1, <2>2
  <2> QED
    BY <1>1, <2>6, <2>8, <2>9 DEF D!TagProjects, D!ProjectsOf
<1>8. ASSUME PublishMerged, merging[0] = "users" PROVE D!TagUsers
  <2> DEFINE s == stage[0]
  <2>1. s \in 0 .. Stages - 1 /\ s \in 0 .. Stages /\ s + 1 \in 0 .. Stages
    BY <1>0, <1>8, MergeStage DEF PublishMerged, Inv
  <2>2. /\ frame' = [frame EXCEPT ![UserKey(s + 1, 0)] = fresh[0]]
        /\ place[0] = "merge" /\ place'[0] = "merged" /\ stage' = stage /\ merging' = merging
        /\ fresh[0] = UNION {Found(0, i) : i \in Nodes}
    BY <1>0, <1>8, MergeKeyIs DEF PublishMerged, Publish, Inv, FreshInv, Nodes
  <2>3. fresh[0] = UNION {FoundUsers(frame, rows[i], s) : i \in Nodes}
    BY <1>8, <2>2 DEF Found
  <2>4. /\ ProjectKey(s, 0) \in published /\ UserKey(s + 1, 0) \notin published
        /\ s + 1 < Stages => ProjectKey(s + 1, 0) \notin published
    BY <1>0, <1>8, <2>1, <2>2 DEF Inv, OrderInv, PublishedInv, ProjectsSent, UsersSent
  <2>5. ps = ProjectsIn(frame, s + 1) /\ us = UsersIn(frame, s)
    <3>1. CASE s + 1 = Stages
      BY <2>1, <2>4, <3>1, Announced, TaggedAre
    <3>2. CASE s + 1 < Stages
      BY <2>1, <2>4, <3>2, Announced, TaggedAre
    <3> QED
      BY <2>1, <3>1, <3>2
  <2>6. ps' = ps
    BY <1>0, <2>1, <2>2, KeyFacts DEF TaggedProjects, ProjectKey
  <2>7. us' = UsersIn(frame, s) \cup fresh[0]
    <3>1. \A t \in 1 .. Stages :
            frame'[UserKey(t, 0)] = IF t = s + 1 THEN fresh[0] ELSE frame[UserKey(t, 0)]
      BY <1>0, <2>1, <2>2, KeyFacts
    <3>2. fresh[0] \subseteq Users
      BY <2>3 DEF FoundUsers
    <3>3. us' = {u \in Users : \E t \in 1 .. Stages : u \in frame'[UserKey(t, 0)]}
      BY DEF TaggedUsers, UserKey
    <3>4. us = {u \in Users : \E t \in 1 .. Stages : u \in frame[UserKey(t, 0)]}
      BY DEF TaggedUsers, UserKey
    <3>5. frame[UserKey(s + 1, 0)] = {}
      BY <1>0, <2>1, <2>4, KeyFacts DEF Inv, PublishedInv
    <3>6. us' = us \cup fresh[0]
      BY <2>1, <3>1, <3>2, <3>3, <3>4, <3>5
    <3> QED
      BY <2>5, <3>6
  <2>8. us' = {u \in Users : \E p \in ps : <<p, u>> \in Commits}
    BY <2>1, <2>3, <2>4, <2>5, <2>7, UsersAreAll
  <2>9. /\ turn = "users" /\ turn' = "projects" /\ degree' = degree + 1
    BY <1>8, <2>1, <2>2
  <2> QED
    BY <1>1, <2>6, <2>8, <2>9 DEF D!TagUsers, D!AuthorsOf
<1> QED
  BY <1>0, <1>4, <1>5, <1>6, <1>7, <1>8 DEF Next, Step, Done, D!DNext

\* In a well-formed dataset, what node 0 announces is what Degrees computes:
\* trading only deltas, over any number of nodes, loses and adds nothing.
THEOREM DegreesCorrect == WellFormed => (Spec => ComputesDegrees)
<1> SUFFICES ASSUME WellFormed PROVE Spec => ComputesDegrees
  OBVIOUS
<1>1. Init => D!DInit
  <2> SUFFICES ASSUME Init PROVE D!DInit
    OBVIOUS
  <2>1. Commits \subseteq Projects \X Users
    BY DEF Init, Commits, WellFormed
  <2>2. TaggedProjects(Stages) = {} /\ TaggedUsers(Stages) = {}
    <3>1. 0 \in Nodes /\ \A k \in Key : frame[k] = {}
      BY LinusSetsAssumption DEF Init, Nodes
    <3>2. \A t \in 0 .. Stages : ProjectKey(t, 0) \in Key /\ UserKey(t, 0) \in Key
      BY <3>1, KeyFacts
    <3>3. ProjectsIn(frame, Stages) = {} /\ UsersIn(frame, Stages) = {}
      <4>1. \A t \in 0 .. Stages : frame[ProjectKey(t, 0)] = {} /\ frame[UserKey(t, 0)] = {}
        BY <3>1, <3>2
      <4>2. \A t : (t \in 0 .. Stages - 1 => t \in 0 .. Stages) /\ (t \in 1 .. Stages => t \in 0 .. Stages)
        BY LinusSetsAssumption
      <4> QED
        BY <4>1, <4>2 DEF ProjectsIn, UsersIn
    <3> QED
      BY <3>3, TaggedAre
  <2>3. place[0] = "input" /\ stage[0] = 0
    BY LinusSetsAssumption DEF Init, Nodes
  <2> QED
    BY <2>1, <2>2, <2>3 DEF D!DInit
<1>2. Inv /\ Inv' /\ [Next]_vars => [D!DNext]_(D!dvars)
  BY DegreesStep, KeptStep DEF Inv, Before
<1> QED
  BY <1>1, <1>2, InvCorrect, PTL DEF Spec, ComputesDegrees, D!DSpec
=============================================================================
