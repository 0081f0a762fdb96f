---------------------------- MODULE MCReplayGuard ----------------------------
(* Small instances of ReplayGuard.                                         *)
EXTENDS ReplayGuard, TLC

CONSTANTS m1, m2, d1, d2, d3

Symmetric == Permutations(Deliveries)
=============================================================================
