------------------------------ MODULE MCLinus ------------------------------
(* The Linus program on a few nodes, with sets of one segment: its reads   *)
(* come after what they read, as the theorem about GetFindsKey assumes.    *)
EXTENDS Linus

ASSUME CausalAssumption == Causal
=============================================================================
