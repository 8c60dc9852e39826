----------------------------- MODULE MC_Governance -----------------------------
(***************************************************************************)
(* Model-checking instance of Governance: one command of every kind, in    *)
(* the forms that take different ways.                                     *)
(***************************************************************************)
EXTENDS Governance, TLC

C(op, confirm, reason, name) == [op |-> op, confirm |-> confirm, reason |-> reason, name |-> name]

Classes == "p" :> "prod" @@ "s" :> "staging" @@ "u" :> "unknown"

AllCommands ==
  {C(op, TRUE, reason, "x") : op \in {"exec", "debug"}, reason \in {"none", "blank", "text"}}
    \union {C(op, TRUE, reason, "x") : op \in {"delete", "evict"}, reason \in {"none", "text"}}
    \union {C(op, FALSE, "none", "x") : op \in {"restart", "scale", "cordon"}}
    \union {C("forward", FALSE, "none", "x")}
    \union {C(op, FALSE, "none", name) : op \in {"named", "remove"}, name \in {"f", "g"}}
    \union {C("disable", FALSE, "none", "d"), C("disable", FALSE, "none", "e"),
            C("enable", FALSE, "none", "e")}
    \union {C(op, FALSE, "none", "x") : op \in Tools}

Symmetry == Permutations(Procs)
================================================================================
