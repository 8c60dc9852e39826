------------------------------- MODULE Browser -------------------------------
(***************************************************************************)
(* What `[` and `]` of the TUI promise (kaptein-tui/src/lib.rs: "a new     *)
(* navigation forgets the redo history, exactly like a browser"): one      *)
(* trail of the views visited and a place in it.                           *)
(***************************************************************************)
EXTENDS Naturals, Sequences

CONSTANT Point      \* what is remembered of a view

VARIABLES trail, at
browserVars == <<trail, at>>

BrowserInit == at = 1 /\ \E p \in Point : trail = <<p>>

(* A new view comes after the one shown; those that came after it are      *)
(* forgotten.                                                              *)
Visit(p) == trail' = Append(SubSeq(trail, 1, at), p) /\ at' = at + 1

(* Another view takes the place of the one shown: the palette's commands   *)
(* record nothing.                                                         *)
Replace(p) == trail' = [trail EXCEPT ![at] = p] /\ UNCHANGED at

GoBack    == at > 1 /\ at' = at - 1 /\ UNCHANGED trail
GoForward == at < Len(trail) /\ at' = at + 1 /\ UNCHANGED trail

BrowserNext == GoBack \/ GoForward \/ \E p \in Point : Visit(p) \/ Replace(p)

BrowserSpec == BrowserInit /\ [][BrowserNext]_browserVars
==============================================================================
