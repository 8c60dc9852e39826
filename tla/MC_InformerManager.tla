-------------------------- MODULE MC_InformerManager --------------------------
(***************************************************************************)
(* Model-checking instance of InformerManager: three watch targets, two    *)
(* threads, and every policy with at most two slots.                       *)
(***************************************************************************)
EXTENDS InformerManager, TLC

\* Keys are interchangeable, and so are threads.
Symmetry == Permutations(WatchKey) \union Permutations(Caller)
================================================================================
