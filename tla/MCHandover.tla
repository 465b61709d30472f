----------------------------- MODULE MCHandover -----------------------------
(* Instances of Handover for TLC.                                             *)
EXTENDS Handover, TLC

CONSTANTS u1, u2

Symmetry == Permutations({u1, u2})
=============================================================================
