------------------------- MODULE MCBearerReadiness -------------------------
(* BearerReadiness for TLC: bearers are interchangeable.                   *)
EXTENDS BearerReadiness, TLC

Symmetry == Permutations(Bearers)
=============================================================================
