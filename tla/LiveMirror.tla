------------------------------- MODULE LiveMirror ------------------------------
(***************************************************************************)
(* What a live view promises about the rows it shows, with no mechanism:   *)
(* each row is what the cluster held at some revision, and looking again   *)
(* never shows an older one.  Rows may lag, and different rows may show    *)
(* different revisions.                                                    *)
(***************************************************************************)
EXTENDS ApiServer

VARIABLES
  rows,        \* the version shown for each object, Absent when it has no row
  asOf         \* the revision each row was read at

--------------------------------------------------------------------------------
MirrorInit ==
  /\ ApiInit
  /\ rows = [o \in Object |-> Absent]
  /\ asOf = [o \in Object |-> 0]

ClusterMoves == ApiNext /\ UNCHANGED <<rows, asOf>>

\* One row catches up with any revision not older than the one it shows.
Refresh(o) ==
  /\ \E r \in 1 .. Rev :
       /\ r >= asOf[o]
       /\ asOf' = [asOf EXCEPT ![o] = r]
       /\ rows' = [rows EXCEPT ![o] = etcd[r][o]]
  /\ UNCHANGED api

MirrorNext == ClusterMoves \/ \E o \in Object : Refresh(o)

MirrorSpec == MirrorInit /\ [][MirrorNext]_<<etcd, oldest, rows, asOf>>
================================================================================
