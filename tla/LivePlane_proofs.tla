---------------------------- MODULE LivePlane_proofs ----------------------------
(***************************************************************************)
(* Proofs about LivePlane, for any objects, page size and bounds: types,   *)
(* MirrorsCursor by an inductive invariant, and the step-by-step           *)
(* implementation of LiveMirror.                                           *)
(***************************************************************************)
EXTENDS LivePlane, ApiServer_proofs

Listing   == pc \in {"list", "upsert", "drop"} /\ snap # 0
Following == pc \in {"connect", "watch", "expired"}

\* While a list is in progress, what it named so far is in the plane as the list's
\* revision has it; when it ends, it has named every object of that revision.
ListInv ==
  /\ pc \in {"upsert", "drop"} => snap # 0
  /\ snap = 0 => listed = {}
  /\ pc # "upsert" => pending = {}
  /\ Listing =>
       /\ listed \subseteq Present(etcd[snap])
       /\ pending \subseteq Unlisted(snap)
       /\ \A o \in listed : rows[o] = etcd[snap][o]
  /\ pc = "drop" => Unlisted(snap) = {}

FollowInv == Following => cursor # 0 /\ rows = etcd[cursor]

\* No row is newer than the list or the stream that would replace it.
AgeInv ==
  /\ \A o \in Object : IF asOf[o] = 0 THEN rows[o] = Absent ELSE rows[o] = etcd[asOf[o]][o]
  /\ Listing => \A o \in Object : asOf[o] <= snap
  /\ Following => \A o \in Object : asOf[o] <= cursor

PlaneInv == TypeOK /\ ApiInv /\ ListInv /\ FollowInv /\ AgeInv
--------------------------------------------------------------------------------
\* Lemma: what every proof below needs of the types, in a form the provers like.
LEMMA TypeFacts ==
  ASSUME PlaneInv
  PROVE  /\ Rev \in Nat /\ Rev >= 1
         /\ \A r \in 1 .. Rev : etcd[r] \in Collection
         /\ rows \in Collection
         /\ asOf \in [Object -> 0 .. Rev]
         /\ snap \in 0 .. Rev /\ cursor \in 0 .. Rev
         /\ pending \subseteq Object /\ listed \subseteq Object
BY DEF PlaneInv, TypeOK, ApiTypeOK, Rev

\* Lemma: a view that has not been seeded satisfies the invariant.
LEMMA PlaneInvInit == Init => PlaneInv
<1> SUFFICES ASSUME Init PROVE PlaneInv
  OBVIOUS
<1>1. ApiInv /\ Rev \in Nat /\ Rev >= 1
  BY ApiInvInit DEF Init, ApiInv, ApiTypeOK, Rev
<1>2. TypeOK
  BY <1>1, PlaneAssumption DEF Init, TypeOK, ApiInv, Collection, Absent, Mode, Pc
<1> QED
  BY <1>1, <1>2 DEF Init, PlaneInv, ListInv, FollowInv, AgeInv, Listing, Following, Absent

\* Lemma: the cluster's steps leave the past the view relies on as it was.
LEMMA ClusterKeeps == PlaneInv /\ Cluster => PlaneInv'
<1> SUFFICES ASSUME PlaneInv, Cluster PROVE PlaneInv'
  OBVIOUS
<1>1. /\ ApiInv'
      /\ Rev' \in Nat /\ Rev' >= Rev
      /\ \A r \in 1 .. Rev : etcd'[r] = etcd[r]
  BY ApiFacts DEF PlaneInv, Cluster
<1>2. UNCHANGED <<rows, asOf, mode, pc, snap, pending, listed, cursor, backoff, faults>>
  BY DEF Cluster, view, list
<1>3. TypeOK'
  BY <1>1, <1>2, TypeFacts DEF PlaneInv, TypeOK, ApiInv
<1>4. ListInv'
  <2>1. snap # 0 => etcd'[snap] = etcd[snap]
    BY <1>1, TypeFacts
  <2> QED  BY <1>2, <2>1 DEF PlaneInv, ListInv, Listing, Unlisted, Present
<1>5. FollowInv' /\ AgeInv'
  <2>1. Following => etcd'[cursor] = etcd[cursor]
    BY <1>1, TypeFacts DEF PlaneInv, FollowInv
  <2>2. \A o \in Object : asOf[o] # 0 => etcd'[asOf[o]] = etcd[asOf[o]]
    BY <1>1, TypeFacts
  <2> QED  BY <1>2, <2>1, <2>2 DEF PlaneInv, FollowInv, AgeInv, Listing, Following
<1> QED  BY <1>1, <1>3, <1>4, <1>5 DEF PlaneInv

\* Lemma: a step that neither touches the cluster nor the rows and enters no list and no
\* stream keeps the invariant.
LEMMA RestKeeps ==
  ASSUME PlaneInv, TypeOK', UNCHANGED <<etcd, oldest, rows, asOf>>,
         \/ UNCHANGED <<cursor, pc, list>>
         \/ pc \in {"connect", "watch", "expired"} /\ pc' \in {"watch", "expired"} 
              /\ UNCHANGED <<cursor, list>>
         \/ pc' \in {"sleep", "ended", "register"} /\ pending' = {} /\ (snap' = 0 => listed' = {})
         \/ pc' = "list" /\ snap' = 0 /\ listed' = {} /\ pending' = {}
  PROVE  PlaneInv'
<1>1. ApiInv'
  BY DEF PlaneInv, ApiInv, ApiTypeOK, OneWritePerRevision, VersionsBounded, Rev
<1> QED
  BY <1>1 DEF PlaneInv, ListInv, FollowInv, AgeInv, Listing, Following, Unlisted, list

\* Lemma: the view's invariant survives every step.
LEMMA PlaneInvNext == PlaneInv /\ [Next]_vars => PlaneInv'
<1> SUFFICES ASSUME PlaneInv, [Next]_vars PROVE PlaneInv'
  OBVIOUS
<1> USE DEF view, list, api
<1>0. TypeOK /\ ApiInv /\ ListInv /\ FollowInv /\ AgeInv
  BY DEF PlaneInv
<1>A. ASSUME UNCHANGED <<etcd, oldest>>
      PROVE  ApiInv' /\ Rev' = Rev
  BY <1>0, <1>A DEF ApiInv, ApiTypeOK, OneWritePerRevision, VersionsBounded, Rev
<1>1. CASE ListPage
  <2>1. /\ pc = "list" /\ pc' = "upsert"
        /\ snap' = ListRev /\ snap' \in 1 .. Rev
        /\ snap = 0 => listed = {}
    BY <1>0, <1>1, TypeFacts DEF ListPage, ListRev, ListInv
  <2>2. PICK page \in SUBSET Unlisted(ListRev) : pending' = page
    BY <1>1 DEF ListPage
  <2>3. TypeOK'
    BY <1>0, <1>1, <2>1, <2>2 DEF ListPage, TypeOK, ApiTypeOK, Rev, Pc, Unlisted, Present
  <2>4. ListInv'
    BY <1>0, <1>1, <2>1, <2>2, TypeFacts
    DEF ListPage, ListInv, Listing, ListRev, Unlisted, Present
  <2>5. AgeInv'
    BY <1>0, <1>1, <2>1, TypeFacts DEF ListPage, AgeInv, Listing, Following, ListRev
  <2> QED  BY <1>1, <1>A, <2>1, <2>3, <2>4, <2>5 DEF PlaneInv, FollowInv, Following, ListPage
<1>2. ASSUME NEW o \in Object, Upsert(o)
      PROVE  PlaneInv'
  <2>1. /\ snap \in 1 .. Rev /\ etcd[snap] \in Collection
        /\ Listing
    BY <1>0, <1>2, TypeFacts DEF Upsert, ListInv, Listing
  <2>2. TypeOK'
    BY <1>0, <1>2, <2>1 DEF Upsert, TypeOK, ApiTypeOK, Rev, Collection
  <2>3. ListInv'
    BY <1>0, <1>2, <2>1, TypeFacts DEF Upsert, ListInv, Listing, Unlisted, Present, Collection
  <2>4. AgeInv'
    BY <1>0, <1>2, <2>1, TypeFacts DEF Upsert, AgeInv, Listing, Following, Collection
  <2> QED  BY <1>2, <1>A, <2>2, <2>3, <2>4 DEF PlaneInv, FollowInv, Following, Upsert
<1>3. CASE PageDone
  <2>1. TypeOK'
    BY <1>0, <1>3 DEF PageDone, TypeOK, ApiTypeOK, Rev, Pc
  <2> QED
    BY <1>0, <1>3, <1>A, <2>1 DEF PageDone, PlaneInv, ListInv, FollowInv, AgeInv, Listing, Following, Unlisted
<1>4. CASE Register
  <2>1. TypeOK'
    BY <1>0, <1>4, TypeFacts DEF Register, TypeOK, ApiTypeOK, Rev, Pc, Mode
  <2> QED  BY <1>0, <1>4, <2>1, RestKeeps DEF Register, ListInv
<1>5. ASSUME NEW o \in Object, Drop(o)
      PROVE  PlaneInv'
  <2>1. /\ snap \in 1 .. Rev /\ etcd[snap] \in Collection
        /\ o \notin listed /\ o \notin Present(etcd[snap])
        /\ pc = "drop" /\ Listing
    BY <1>0, <1>5, TypeFacts DEF Drop, Missing, ListInv, Listing, Unlisted
  <2>2. TypeOK'
    BY <1>0, <1>5, <2>1 DEF Drop, TypeOK, ApiTypeOK, Rev, Collection, Absent
  <2>3. ListInv'
    BY <1>0, <1>5, <2>1, TypeFacts DEF Drop, ListInv, Listing, Unlisted, Collection
  <2>4. AgeInv'
    BY <1>0, <1>5, <2>1, TypeFacts DEF Drop, AgeInv, Listing, Following, Collection, Present, Absent
  <2> QED  BY <1>5, <1>A, <2>2, <2>3, <2>4 DEF PlaneInv, FollowInv, Following, Drop
<1>6. CASE Reconciled
  <2>1. /\ snap \in 1 .. Rev /\ etcd[snap] \in Collection
        /\ pc = "drop" /\ Listing /\ pending = {}
        /\ listed = Present(etcd[snap])
    BY <1>0, <1>6, TypeFacts DEF Reconciled, ListInv, Listing, Unlisted
  <2>2. \A o \in Object : rows[o] = etcd[snap][o]
    BY <1>0, <1>6, <2>1 DEF Reconciled, Missing, ListInv, Present
  <2>3. rows = etcd[snap]
    BY <2>1, <2>2, TypeFacts DEF Collection
  <2>4. TypeOK'
    BY <1>0, <1>6, TypeFacts DEF Reconciled, TypeOK, ApiTypeOK, Rev, Pc
  <2> QED
    BY <1>0, <1>6, <1>A, <2>1, <2>3, <2>4
    DEF Reconciled, PlaneInv, ListInv, FollowInv, AgeInv, Listing, Following
<1>7. CASE Deliver
  <2> DEFINE o == Changed(cursor + 1)
  <2>1. /\ cursor \in 1 .. Rev - 1 /\ cursor + 1 \in 2 .. Rev
        /\ pc = "watch" /\ Following /\ rows = etcd[cursor]
    BY <1>0, <1>7, TypeFacts DEF Deliver, FollowInv, Following
  <2>2. /\ o \in Object
        /\ etcd[cursor + 1] = [etcd[cursor] EXCEPT ![o] = etcd[cursor + 1][o]]
    BY <1>0, <2>1, ChangedFacts
  <2>3. /\ rows' = etcd[cursor + 1]
        /\ asOf' = [asOf EXCEPT ![o] = cursor + 1]
    BY <1>7, <2>1, <2>2 DEF Deliver
  <2>4. /\ cursor' = cursor + 1 /\ backoff' = BackoffMin
        /\ UNCHANGED <<etcd, oldest, mode, pc, snap, pending, listed, faults>>
    BY <1>7 DEF Deliver
  <2> HIDE DEF o
  <2>5. /\ rows' \in Collection
        /\ asOf' \in [Object -> 0 .. Rev]
        /\ cursor' \in 0 .. Rev
    BY <2>1, <2>2, <2>3, <2>4, TypeFacts
  <2>6. TypeOK'
    BY <1>0, <2>4, <2>5, PlaneAssumption DEF TypeOK, ApiTypeOK, Rev
  <2>7. \A x \in Object : x # o => rows'[x] = rows[x]
    BY <2>1, <2>2, <2>3, TypeFacts DEF Collection
  <2>8. \A x \in Object : IF asOf'[x] = 0 THEN rows'[x] = Absent ELSE rows'[x] = etcd[asOf'[x]][x]
    BY <1>0, <2>1, <2>2, <2>3, <2>7, TypeFacts DEF AgeInv
  <2>9. \A x \in Object : asOf'[x] <= cursor'
    BY <1>0, <2>1, <2>2, <2>3, <2>4, TypeFacts DEF AgeInv
  <2>10. AgeInv'
    BY <2>1, <2>4, <2>8, <2>9 DEF AgeInv, Listing
  <2> QED
    BY <1>0, <1>A, <2>1, <2>3, <2>4, <2>6, <2>10, TypeFacts
    DEF PlaneInv, ListInv, FollowInv, Listing, Following
<1>8. CASE ListError \/ ListExpired
  <2>1. TypeOK'
    BY <1>0, <1>8, TypeFacts DEF ListError, ListExpired, ListFails, TypeOK, ApiTypeOK, Rev, Pc
  <2> QED  BY <1>0, <1>8, <2>1, RestKeeps DEF ListError, ListExpired, ListFails, ListInv
<1>9. CASE Connect
  <2>1. TypeOK'
    BY <1>0, <1>9, TypeFacts DEF Connect, TypeOK, ApiTypeOK, Rev, Pc
  <2> QED  BY <1>0, <1>9, <2>1, RestKeeps DEF Connect
<1>10. CASE ConnectError \/ ConnectExpired \/ StreamEnd \/ StreamError
  <2>1. TypeOK'
    BY <1>0, <1>10, TypeFacts
    DEF ConnectError, ConnectExpired, ConnectFails, StreamEnd, StreamError, TypeOK, ApiTypeOK, Rev, Pc
  <2> QED
    BY <1>0, <1>10, <2>1, RestKeeps
    DEF ConnectError, ConnectExpired, ConnectFails, StreamEnd, StreamError, ListInv
<1>11. CASE Notice
  <2>1. TypeOK'
    BY <1>0, <1>11, TypeFacts, PlaneAssumption DEF Notice, TypeOK, ApiTypeOK, Rev
  <2> QED  BY <1>0, <1>11, <2>1, RestKeeps DEF Notice
<1>12. CASE Wake
  <2>1. backoff' \in BackoffMin .. BackoffMax
    BY <1>0, <1>12, PlaneAssumption DEF Wake, TypeOK, Minimum
  <2>2. TypeOK'
    BY <1>0, <1>12, <2>1, TypeFacts DEF Wake, TypeOK, ApiTypeOK, Rev, Pc
  <2> QED  BY <1>0, <1>12, <2>2, RestKeeps DEF Wake
<1>13. CASE Abort
  <2>1. TypeOK'
    BY <1>0, <1>13, TypeFacts DEF Abort, TypeOK, ApiTypeOK, Rev, Pc
  <2> QED  BY <1>0, <1>13, <2>1, RestKeeps DEF Abort, ListInv
<1>14. CASE UNCHANGED vars
  <2>1. TypeOK'
    BY <1>0, <1>14 DEF vars, TypeOK, ApiTypeOK, Rev
  <2> QED  BY <1>14, <2>1, RestKeeps DEF vars
<1> QED
  BY <1>1, <1>2, <1>3, <1>4, <1>5, <1>6, <1>7, <1>8, <1>9, <1>10, <1>11, <1>12, <1>13,
     <1>14, ClusterKeeps
  DEF Next, Task, Environment

\* What watch_loop maintains: the page being read, the ids still to be checked, the stream
\* and the rows always agree with some revision of the collection's history.
THEOREM PlaneInvariant == Spec => []PlaneInv
BY PlaneInvInit, PlaneInvNext, PTL DEF Spec

\* Type correctness of a live view.
THEOREM TypeCorrect == Spec => []TypeOK
<1>1. PlaneInv => TypeOK
  BY DEF PlaneInv
<1> QED  BY <1>1, PlaneInvariant, PTL

\* A view that follows its stream shows exactly the collection at the stream's revision.
THEOREM AlwaysMirrorsCursor == Spec => []MirrorsCursor
<1>1. PlaneInv => MirrorsCursor
  BY DEF PlaneInv, FollowInv, Following, ShowsCursor, MirrorsCursor
<1> QED  BY <1>1, PlaneInvariant, PTL
--------------------------------------------------------------------------------
\* Lemma: a row that takes its content from a revision not older than the one it shows is
\* a step of the mirror.
LEMMA RefreshFacts ==
  ASSUME PlaneInv, NEW o \in Object, NEW r \in 1 .. Rev, r >= asOf[o],
         rows' = [rows EXCEPT ![o] = etcd[r][o]], asOf' = [asOf EXCEPT ![o] = r],
         UNCHANGED api
  PROVE  Mirror!MirrorNext
BY DEF Mirror!MirrorNext, Mirror!Refresh, Mirror!Rev, Mirror!api, Rev, api

\* LivePlane implements LiveMirror: no page, event, drop or failure ever makes a row show
\* something the object never was, or an older version than it already showed.
THEOREM PlaneImplementsMirror == Spec => ImplementsMirror
<1>1. Init => Mirror!MirrorInit
  BY DEF Init, Mirror!MirrorInit, ApiInit, Mirror!ApiInit, Absent, Mirror!Absent
<1>2. PlaneInv /\ [Next]_vars => [Mirror!MirrorNext]_<<etcd, oldest, rows, asOf>>
  <2> SUFFICES ASSUME PlaneInv, [Next]_vars
               PROVE  Mirror!MirrorNext \/ UNCHANGED <<etcd, oldest, rows, asOf>>
    OBVIOUS
  <2>1. ASSUME NEW o \in Object, Upsert(o)
        PROVE  Mirror!MirrorNext
    <3>1. snap \in 1 .. Rev /\ asOf[o] <= snap
      BY <2>1, TypeFacts DEF Upsert, PlaneInv, ListInv, AgeInv, Listing
    <3>2. asOf[o] \in Nat
      BY TypeFacts
    <3>3. UNCHANGED api /\ rows' = [rows EXCEPT ![o] = etcd[snap][o]]
            /\ asOf' = [asOf EXCEPT ![o] = snap]
      BY <2>1 DEF Upsert
    <3> QED  BY <3>1, <3>2, <3>3, RefreshFacts
  <2>2. ASSUME NEW o \in Object, Drop(o)
        PROVE  Mirror!MirrorNext
    <3>1. snap \in 1 .. Rev /\ asOf[o] <= snap /\ etcd[snap][o] = Absent
      BY <2>2, TypeFacts DEF Drop, Missing, PlaneInv, ListInv, AgeInv, Listing, Unlisted, Present
    <3> QED  BY <2>2, <3>1, RefreshFacts, TypeFacts DEF Drop
  <2>3. CASE Deliver
    <3>1. cursor \in 1 .. Rev - 1 /\ cursor + 1 \in 2 .. Rev
      BY <2>3, TypeFacts DEF Deliver, PlaneInv, FollowInv, Following
    <3>2. Changed(cursor + 1) \in Object
      BY <3>1, ChangedFacts DEF PlaneInv
    <3>3. asOf[Changed(cursor + 1)] <= cursor + 1
      BY <2>3, <3>1, <3>2, TypeFacts DEF Deliver, PlaneInv, AgeInv, Following
    <3>4. asOf[Changed(cursor + 1)] \in Nat
      BY <3>2, TypeFacts
    <3>5. /\ rows' = [rows EXCEPT ![Changed(cursor + 1)] = etcd[cursor + 1][Changed(cursor + 1)]]
          /\ asOf' = [asOf EXCEPT ![Changed(cursor + 1)] = cursor + 1]
          /\ UNCHANGED api
      BY <2>3 DEF Deliver
    <3>6. cursor + 1 \in 1 .. Rev /\ cursor + 1 >= asOf[Changed(cursor + 1)]
      BY <3>1, <3>3, <3>4, TypeFacts
    <3> QED  BY <3>2, <3>5, <3>6, RefreshFacts
  <2>4. CASE Cluster
    BY <2>4 DEF Cluster, view, Mirror!MirrorNext, Mirror!ClusterMoves, ApiNext, Mirror!ApiNext,
            Create, Mirror!Create, Modify, Mirror!Modify, Delete, Mirror!Delete,
            Compact, Mirror!Compact, Commit, Mirror!Commit, Latest, Mirror!Latest,
            Rev, Mirror!Rev, Absent, Mirror!Absent
  <2> QED
    BY <2>1, <2>2, <2>3, <2>4
    DEF Next, Task, Environment, ListPage, ListExpired, ListError, ListFails, PageDone, Register,
        Reconciled, Connect, ConnectExpired, ConnectError, ConnectFails, Wake, Notice,
        StreamEnd, StreamError, Abort, vars, view, api
<1> QED
  BY <1>1, <1>2, PlaneInvariant, PTL DEF Spec, ImplementsMirror, Mirror!MirrorSpec
================================================================================
