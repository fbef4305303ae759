------------------------------ MODULE MCColumn ------------------------------
(* The sizes at which the checked columns are finalized. *)
EXTENDS Column

UpToEight == 0 .. 8

\* One segment of capacity 1 more than three digits tell apart.
Thousand == {1001}
=============================================================================
