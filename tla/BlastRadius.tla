---------------------------- MODULE BlastRadius -----------------------------
(***************************************************************************)
(* blast_radius (core/moat.rs): what would go with a resource.  The target *)
(* is read, then ReplicaSets, Jobs and Pods are listed, one call after the *)
(* other; a list of an intermediate kind that fails (Unserved) is skipped. *)
(* A list is a sequence of objects [uid, owners], owners being uids.       *)
(***************************************************************************)
EXTENDS FiniteSets, Sequences, SequencesExt

Unserved == <<[uid |-> "unserved", owners |-> {}]>>

IsOwned(item, owned) == item.owners \cap owned # {}

(* One intermediate kind, in list order: what is owned is reported and     *)
(* owns in its turn, from the next item on.                                *)
Level(list, found) ==
  IF list = Unserved THEN found
  ELSE FoldLeft(LAMBDA f, item :
                  IF IsOwned(item, f.owned)
                  THEN [owned |-> f.owned \cup {item.uid},
                        dependents |-> Append(f.dependents, item.uid)]
                  ELSE f,
                found, list)

Dependents(target, replicaSets, jobs, pods) ==
  LET start == [owned |-> {target}, dependents |-> << >>]
      found == Level(jobs, Level(replicaSets, start))
      mine  == SelectSeq(pods, LAMBDA p : IsOwned(p, found.owned))
  IN found.dependents \o [i \in DOMAIN mine |-> mine[i].uid]
=============================================================================
