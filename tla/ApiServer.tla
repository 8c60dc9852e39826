------------------------------- MODULE ApiServer -------------------------------
(***************************************************************************)
(* The Kubernetes API server, seen through one collection of objects.  It  *)
(* is outside the repository: this is what the list and watch calls of     *)
(* kaptein-core and kaptein-integration rely on.                           *)
(*                                                                         *)
(* etcd[r] is the collection at resourceVersion r: the revision at which   *)
(* each object was last written, or Absent.  A list call without a         *)
(* resourceVersion is a consistent read of the newest revision, and its    *)
(* continue token reads further pages of that same revision.  A watch from *)
(* r delivers one event for every later revision, in order.  Compaction    *)
(* forgets old revisions: reading from one fails with 410 Gone.            *)
(***************************************************************************)
EXTENDS Integers, Sequences

CONSTANTS
  Object,      \* object identities
  Recreate,    \* TRUE when an identity may be used again (names, but not uids)
  MaxRev       \* bound on the number of revisions

ASSUME ApiAssumption ==
  /\ MaxRev \in Nat \ {0}
  /\ Recreate \in BOOLEAN

VARIABLES
  etcd,        \* the collection at every revision so far
  oldest       \* the oldest revision still readable

api == <<etcd, oldest>>
--------------------------------------------------------------------------------
Absent     == 0
Collection == [Object -> Nat]
Rev        == Len(etcd)
Latest     == etcd[Rev]

Present(snapshot) == {o \in Object : snapshot[o] # Absent}

\* The object a revision wrote, and the collection before and after agree elsewhere.
Changed(r) == CHOOSE o \in Object : etcd[r][o] # etcd[r - 1][o]

ApiTypeOK ==
  /\ etcd \in Seq(Collection)
  /\ Rev >= 1
  /\ oldest \in 1 .. Rev

ApiInit ==
  /\ \E present \in SUBSET Object :
       etcd = << [o \in Object |-> IF o \in present THEN 1 ELSE Absent] >>
  /\ oldest = 1

Commit(o, version) ==
  /\ Rev < MaxRev
  /\ etcd' = Append(etcd, [Latest EXCEPT ![o] = version])
  /\ UNCHANGED oldest

Create(o) ==
  /\ Latest[o] = Absent
  /\ Recreate \/ \A r \in 1 .. Rev : etcd[r][o] = Absent
  /\ Commit(o, Rev + 1)

Modify(o) == Latest[o] # Absent /\ Commit(o, Rev + 1)

Delete(o) == Latest[o] # Absent /\ Commit(o, Absent)

Compact ==
  /\ \E r \in (oldest + 1) .. Rev : oldest' = r
  /\ UNCHANGED etcd

ApiNext ==
  \/ \E o \in Object : Create(o) \/ Modify(o) \/ Delete(o)
  \/ Compact

\* Every revision after the first wrote exactly one object.
OneWritePerRevision ==
  \A r \in 2 .. Rev :
    \E o \in Object :
      /\ etcd[r][o] # etcd[r - 1][o]
      /\ etcd[r] = [etcd[r - 1] EXCEPT ![o] = etcd[r][o]]
================================================================================
