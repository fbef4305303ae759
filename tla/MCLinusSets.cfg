\* Two nodes share every split of the commits of three users to two projects.
SPECIFICATION Spec
CONSTANTS
  N = 2
  Users = {4967, 1, 2}
  Projects = {10, 11}
  Uids = {4967, 1, 2}
  Pids = {10, 11}
  Linus = 4967
  Stages = 3
INVARIANTS TypeOK Agreement OnlyDeltas
PROPERTIES ComputesDegrees Finishes
