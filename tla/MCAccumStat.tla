---------------------------- MODULE MCAccumStat ----------------------------
(* AccumStat on a small instance.                                           *)
EXTENDS AccumStat, TLC

Symmetry == Permutations(Writers)
============================================================================
