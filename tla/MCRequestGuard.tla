---------------------------- MODULE MCRequestGuard ----------------------------
(* Small instances of RequestGuard for TLC.                                 *)
EXTENDS RequestGuard, TLC

Symmetry == Permutations(Delivery)
=============================================================================
