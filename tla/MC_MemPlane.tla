------------------------------ MODULE MC_MemPlane ------------------------------
(***************************************************************************)
(* Model-checking instance of MemPlane: queries for the first two rows, or *)
(* for one row past the first.                                             *)
(***************************************************************************)
EXTENDS MemPlane

AskedWindows == {[start |-> 0, end |-> 2], [start |-> 1, end |-> 2]}

\* A query and a subscription are not both under way: neither writes what the other reads.
OneAtATime == \/ \A r \in Reader : query[r].phase = "none"
              \/ \A s \in Subscriber : sub[s].phase = "none"
================================================================================
