-------------------------- MODULE MC_OperatorFiles --------------------------
(***************************************************************************)
(* Model-checking instance of OperatorFiles.                               *)
(***************************************************************************)
EXTENDS OperatorFiles, TLC

Symmetry == Permutations(Proc) \cup Permutations(Extension) \cup Permutations(Object)
=============================================================================
