------------------------------ MODULE Degrees ------------------------------
(***************************************************************************)
(* What the Linus program is to compute, with no nodes, no messages and no *)
(* deltas: from Linus, the projects that a collaborator has committed to   *)
(* as an author, then the authors of those projects, once per degree.      *)
(* LinusSets.tla is shown to implement it.                                 *)
(***************************************************************************)
EXTENDS Naturals

CONSTANTS
  Users,
  Projects,
  Linus,
  Stages        \* degrees of separation

VARIABLES
  commits,      \* the pairs <<project, author>>, given
  projects,     \* projects of collaborators
  users,        \* collaborators
  degree,       \* degrees computed
  turn          \* what is tagged next: "projects" or "users"

dvars == <<commits, projects, users, degree, turn>>

ProjectsOf(us) == {p \in Projects : \E u \in us : <<p, u>> \in commits}
AuthorsOf(ps) == {u \in Users : \E p \in ps : <<p, u>> \in commits}

DInit ==
  /\ commits \subseteq Projects \X Users
  /\ projects = {}
  /\ users = {}
  /\ degree = 0
  /\ turn = "projects"

TagProjects ==
  /\ turn = "projects"
  /\ degree < Stages
  /\ projects' = ProjectsOf(users \cup {Linus})
  /\ turn' = "users"
  /\ UNCHANGED <<commits, users, degree>>

TagUsers ==
  /\ turn = "users"
  /\ users' = AuthorsOf(projects)
  /\ turn' = "projects"
  /\ degree' = degree + 1
  /\ UNCHANGED <<commits, projects>>

DNext == TagProjects \/ TagUsers

DSpec == DInit /\ [][DNext]_dvars
=============================================================================
