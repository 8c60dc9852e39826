------------------------------ MODULE MC_TuiTable ------------------------------
(***************************************************************************)
(* Model-checking instance of TuiTable: three rows of one name, more than  *)
(* a table of two lines shows, in two namespaces of a kind and of another. *)
(***************************************************************************)
EXTENDS TuiTable

NoneOrAll == {{}, Ids}
RowNames == [id \in Ids |-> "same"]
CONSTANTS v1, v2, v3
Views == {v1, v2, v3}
MCKindOf == [v \in Views |-> IF v = v3 THEN "nodes" ELSE "pods"]
Symmetry == Permutations({v1, v2})
================================================================================
