----------------------------- MODULE MC_WatchRing -----------------------------
(***************************************************************************)
(* Model-checking instance of WatchRing.                                   *)
(***************************************************************************)
EXTENDS WatchRing, TLC

Symmetry == Permutations(Object)
================================================================================
