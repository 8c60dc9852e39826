--------------------------- MODULE MC_InformerStore ---------------------------
(***************************************************************************)
(* Model-checking instance of InformerStore: names, which may be reused.   *)
(***************************************************************************)
EXTENDS InformerStore, TLC

Symmetry == Permutations(Object)
================================================================================
