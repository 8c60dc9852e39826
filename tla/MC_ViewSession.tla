---------------------------- MODULE MC_ViewSession ----------------------------
(***************************************************************************)
(* Model-checking instance of ViewSession: three rebuilds between two      *)
(* views.                                                                  *)
(***************************************************************************)
EXTENDS ViewSession, TLC

Symmetry == Permutations(WatchKey) \union Permutations(Task)
================================================================================
