\* Commits may be by an author that the users frame does not have.
SPECIFICATION Spec
CONSTANTS
  N = 2
  Users = {4967, 1}
  Projects = {10}
  Uids = {4967, 1, 2}
  Pids = {10}
  Linus = 4967
  Stages = 1
INVARIANT OnlyCollaborators
