----------------------------- MODULE MC_LivePlane -----------------------------
(***************************************************************************)
(* Model-checking instances of LivePlane: two objects whose names may be   *)
(* used again, or three with uids, which are not (symmetric).              *)
(***************************************************************************)
EXTENDS LivePlane, TLC

Symmetry == Permutations(Object)
================================================================================
