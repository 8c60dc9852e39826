-------------------------- MODULE InformerStore_proofs --------------------------
(***************************************************************************)
(* Proofs about InformerStore, for any objects, page size and bounds: a    *)
(* consumer sees every change, and until a watch call fails the store is   *)
(* never behind the revision its stream was opened at.                     *)
(***************************************************************************)
EXTENDS InformerStore, ApiServer_proofs

Waiting   == pc \in {"connect", "refetch", "sleep"}
Streaming == pc \in {"watch", "expired"}

\* What the seeding list named so far is in the store as the list's revision has it, and
\* nothing else is.
SeedInv ==
  pc = "seed" =>
    IF snap = 0
    THEN listed = {} /\ items = [o \in Object |-> Absent]
    ELSE /\ listed \subseteq Present(etcd[snap])
         /\ items = [o \in Object |-> IF o \in listed THEN etcd[snap][o] ELSE Absent]

\* Every entry is the cluster's at some revision from r on: replaying the events after r
\* may take it back, and then brings it up to date again.
Ahead(r) == \A o \in Object : \E q \in r .. Rev : items[o] = etcd[q][o]

\* The stream replays from where the watch is opened.
StreamInv ==
  /\ Waiting \/ Streaming => rv >= 1
  /\ Streaming => rv <= cursor
  /\ ~jumped =>
       /\ Waiting => Ahead(rv)
       /\ Streaming => Ahead(cursor)

StoreInv == TypeOK /\ ApiInv /\ SeedInv /\ StreamInv
--------------------------------------------------------------------------------
\* Lemma: what the proofs below need of the types.
LEMMA TypeFacts ==
  ASSUME StoreInv
  PROVE  /\ Rev \in Nat /\ Rev >= 1
         /\ \A r \in 1 .. Rev : etcd[r] \in Collection
         /\ items \in Collection
         /\ snap \in 0 .. Rev /\ rv \in 0 .. Rev /\ cursor \in 0 .. Rev
         /\ listed \subseteq Object /\ bare \subseteq Present(items)
BY DEF StoreInv, TypeOK, ApiTypeOK, Rev

LEMMA InitInv == Init => StoreInv
<1> SUFFICES ASSUME Init PROVE StoreInv
  OBVIOUS
<1>1. ApiInv /\ Rev \in Nat /\ Rev >= 1
  BY ApiInvInit DEF Init, ApiInv, ApiTypeOK, Rev
<1>2. items \in Collection
  BY DEF Init, Collection, Absent
<1>3. TypeOK
  <2>1. ApiTypeOK /\ maxEvents \in Budget \union {Forever} /\ bare \in SUBSET Present(items)
    BY <1>1 DEF Init, ApiInv
  <2>2. /\ revision \in 0 .. MaxRevision /\ faults \in 0 .. MaxFaults
        /\ snap \in 0 .. Rev /\ rv \in 0 .. Rev /\ cursor \in 0 .. Rev
        /\ applied \in Nat /\ changes \in 0 .. applied
    BY <1>1, StoreAssumption DEF Init
  <2>3. pc \in Pc /\ listed \in SUBSET Object /\ jumped \in BOOLEAN
    BY DEF Init, Pc
  <2> QED  BY <1>2, <2>1, <2>2, <2>3 DEF TypeOK
<1> QED  BY <1>1, <1>3 DEF Init, StoreInv, SeedInv, StreamInv, Waiting, Streaming

\* Lemma: a step that leaves the cluster alone leaves its invariant alone.
LEMMA ApiKept ==
  ASSUME ApiInv, UNCHANGED <<etcd, oldest>>
  PROVE  ApiInv' /\ Rev' = Rev
BY DEF ApiInv, ApiTypeOK, OneWritePerRevision, VersionsBounded, Rev

\* Lemma: the cluster's steps leave the past the store relies on as it was.
LEMMA ClusterKeeps == StoreInv /\ Cluster => StoreInv'
<1> SUFFICES ASSUME StoreInv, Cluster PROVE StoreInv'
  OBVIOUS
<1>1. /\ ApiInv'
      /\ Rev' \in Nat /\ Rev' >= Rev
      /\ \A r \in 1 .. Rev : etcd'[r] = etcd[r]
  BY ApiFacts DEF StoreInv, Cluster
<1>2. UNCHANGED <<maxEvents, items, bare, revision, pc, snap, listed, rv, cursor, applied,
                  changes, jumped, faults>>
  BY DEF Cluster, store, watch
<1>3. TypeOK'
  BY <1>1, <1>2, TypeFacts DEF StoreInv, TypeOK, ApiInv, Present
<1>4. SeedInv'
  <2>1. snap # 0 => etcd'[snap] = etcd[snap]
    BY <1>1, TypeFacts
  <2> QED  BY <1>2, <2>1 DEF StoreInv, SeedInv, Present
<1>5. ASSUME NEW r \in 1 .. Rev, Ahead(r)
      PROVE  \A o \in Object : \E q \in r .. Rev' : items'[o] = etcd'[q][o]
  <2>1. ASSUME NEW o \in Object
        PROVE  \E q \in r .. Rev' : items[o] = etcd'[q][o]
    <3>1. PICK q \in r .. Rev : items[o] = etcd[q][o]
      BY <1>5 DEF Ahead
    <3>2. q \in r .. Rev' /\ etcd'[q] = etcd[q]
      BY <1>1, TypeFacts
    <3> QED  BY <3>1, <3>2
  <2> QED  BY <1>2, <2>1
<1>6. StreamInv'
  <2>1. /\ Waiting' = Waiting /\ Streaming' = Streaming
        /\ rv' = rv /\ cursor' = cursor /\ jumped' = jumped
    BY <1>2 DEF Waiting, Streaming
  <2>2. Waiting \/ Streaming => rv \in 1 .. Rev
    BY TypeFacts DEF StoreInv, StreamInv
  <2>3. Streaming => cursor \in 1 .. Rev
    BY <2>2, TypeFacts DEF StoreInv, StreamInv
  <2>4. Waiting /\ ~jumped =>
          \A o \in Object : \E q \in rv .. Rev' : items'[o] = etcd'[q][o]
    BY <1>5, <2>2 DEF StoreInv, StreamInv
  <2>5. Streaming /\ ~jumped =>
          \A o \in Object : \E q \in cursor .. Rev' : items'[o] = etcd'[q][o]
    BY <1>5, <2>3 DEF StoreInv, StreamInv
  <2> QED  BY <2>1, <2>4, <2>5 DEF StoreInv, StreamInv, Ahead
<1> QED  BY <1>1, <1>3, <1>4, <1>6 DEF StoreInv

\* Lemma: a page of the seeding list keeps the invariant, and the last one leaves the
\* store as the cluster was at the revision the watch opens at.
LEMMA SeedPageKeeps == StoreInv /\ SeedPage => StoreInv'
<1> SUFFICES ASSUME StoreInv, SeedPage PROVE StoreInv'
  OBVIOUS
<1> DEFINE r == ListRev
<1>1. PICK page \in SUBSET Unlisted(ListRev) :
        /\ items'  = [o \in Object |-> IF o \in page THEN etcd[ListRev][o] ELSE items[o]]
        /\ bare'   = bare \union page
        /\ listed' = listed \union page
        /\ IF Unlisted(ListRev) # page
           THEN snap' = ListRev /\ UNCHANGED <<pc, rv>>
           ELSE /\ snap' = 0
                /\ rv' = ListRev
                /\ pc' = IF maxEvents = 0 THEN "ended" ELSE "connect"
  BY DEF SeedPage
<1>2. /\ pc = "seed" /\ r \in 1 .. Rev /\ etcd[r] \in Collection
      /\ snap # 0 => r = snap
      /\ revision' = revision + 1 /\ revision < MaxRevision
      /\ UNCHANGED <<etcd, oldest, maxEvents, cursor, applied, changes, jumped, faults>>
  BY TypeFacts DEF SeedPage, ListRev, Bump, api
<1>3. ApiInv' /\ Rev' = Rev
  BY <1>2, ApiKept DEF StoreInv
<1>4. /\ listed \subseteq Present(etcd[r]) /\ listed \subseteq Object
      /\ \A o \in Object : items[o] = IF o \in listed THEN etcd[r][o] ELSE Absent
  BY <1>2, TypeFacts DEF StoreInv, SeedInv
<1>5. /\ page \subseteq Object /\ listed' \subseteq Present(etcd[r]) /\ listed' \subseteq Object
      /\ page \subseteq Present(etcd[r])
  BY <1>1, <1>4 DEF Unlisted, Present
<1>6. items' = [o \in Object |-> IF o \in listed' THEN etcd[r][o] ELSE Absent]
  BY <1>1, <1>4, <1>5 DEF Unlisted
<1> HIDE DEF r
<1>7. TypeOK'
  <2>1. ApiTypeOK' /\ Rev \in Nat /\ Rev >= 1
    BY <1>3, TypeFacts DEF ApiInv
  <2>2. items' \in Collection
    BY <1>2, <1>6 DEF Collection, Absent
  <2>3. bare' \subseteq Present(items')
    <3>1. \A o \in bare : o \in Object /\ items[o] # Absent
      BY TypeFacts DEF Present
    <3>2. \A o \in bare : o \in listed
      BY <1>4, <3>1
    <3>3. bare' \subseteq listed'
      BY <1>1, <3>2
    <3> QED  BY <1>5, <1>6, <3>3 DEF Present
  <2>4. revision' \in 0 .. MaxRevision
    BY <1>2, StoreAssumption DEF StoreInv, TypeOK
  <2>5. snap' \in 0 .. Rev /\ rv' \in 0 .. Rev /\ pc' \in Pc
    BY <1>1, <1>2, TypeFacts DEF Pc, r
  <2>6. /\ maxEvents' \in Budget \union {Forever} /\ cursor' \in 0 .. Rev /\ applied' \in Nat
        /\ changes' \in 0 .. applied' /\ jumped' \in BOOLEAN /\ faults' \in 0 .. MaxFaults
    BY <1>2 DEF StoreInv, TypeOK
  <2> QED  BY <1>3, <1>5, <2>1, <2>2, <2>3, <2>4, <2>5, <2>6 DEF TypeOK
<1>8. CASE Unlisted(ListRev) # page
  <2>1. pc' = "seed" /\ snap' = r /\ snap' # 0
    BY <1>1, <1>2, <1>8 DEF r
  <2>2. SeedInv'
    BY <1>2, <1>5, <1>6, <2>1 DEF SeedInv, Present
  <2>3. StreamInv'
    BY <2>1 DEF StreamInv, Waiting, Streaming
  <2> QED  BY <1>3, <1>7, <2>2, <2>3 DEF StoreInv
<1>9. CASE Unlisted(ListRev) = page
  <2>1. pc' \in {"ended", "connect"} /\ rv' = r
    BY <1>1, <1>9 DEF r
  <2>2. \A o \in Object : items'[o] = etcd[r][o]
    BY <1>1, <1>2, <1>6, <1>9 DEF Unlisted, Present, Collection, Absent, r
  <2>3. \A o \in Object : \E q \in r .. Rev : items'[o] = etcd[q][o]
    <3>1. r \in r .. Rev
      BY <1>2
    <3> QED  BY <2>2, <3>1
  <2>4. StreamInv'
    BY <1>2, <1>3, <2>1, <2>3 DEF StreamInv, Waiting, Streaming, Ahead
  <2>5. SeedInv'
    BY <2>1 DEF SeedInv
  <2> QED  BY <1>3, <1>7, <2>4, <2>5 DEF StoreInv
<1> QED  BY <1>8, <1>9

\* Lemma: applying an event brings the object it is about to the revision after the cursor,
\* and no other entry falls behind it.
LEMMA ApplyKeeps == StoreInv /\ Apply => StoreInv'
<1> SUFFICES ASSUME StoreInv, Apply PROVE StoreInv'
  OBVIOUS
<1> DEFINE o == Changed(cursor + 1)
<1>1. /\ pc = "watch" /\ cursor < Rev /\ cursor' = cursor + 1
      /\ items' = [items EXCEPT ![o] = etcd[cursor + 1][o]] /\ bare' = bare \ {o}
      /\ revision' = revision + 1 /\ revision < MaxRevision
      /\ changes' = (IF Bounded THEN changes + 1 ELSE changes)
      /\ applied' = (IF Bounded THEN applied + 1 ELSE applied)
      /\ pc' \in {"watch", "ended"}
      /\ UNCHANGED <<etcd, oldest, maxEvents, snap, listed, rv, jumped, faults>>
  BY DEF Apply, Count, Bump, api
<1>2. ApiInv' /\ Rev' = Rev
  BY <1>1, ApiKept DEF StoreInv
<1>3. /\ rv >= 1 /\ rv <= cursor /\ rv \in Nat /\ cursor \in Nat /\ Rev \in Nat
      /\ cursor + 1 \in 2 .. Rev /\ cursor \in 1 .. Rev
  BY <1>1, TypeFacts DEF StoreInv, StreamInv, Streaming
<1>4. /\ o \in Object
      /\ etcd[cursor + 1] = [etcd[(cursor + 1) - 1] EXCEPT ![o] = etcd[cursor + 1][o]]
  BY <1>3, ChangedFacts DEF StoreInv
<1>5. (cursor + 1) - 1 = cursor
  BY <1>3
<1>6. \A x \in Object : x # o => etcd[cursor + 1][x] = etcd[cursor][x]
  BY <1>3, <1>4, <1>5, TypeFacts DEF Collection
<1> HIDE DEF o
<1>7. etcd[cursor + 1] \in Collection /\ items \in Collection
  BY <1>3, TypeFacts
<1>8. /\ items' \in Collection /\ items'[o] = etcd[cursor + 1][o]
      /\ \A x \in Object : x # o => items'[x] = items[x]
  BY <1>1, <1>4, <1>7 DEF Collection
<1>9. TypeOK'
  <2>1. bare' \subseteq Present(items')
    BY <1>1, <1>8, TypeFacts DEF Present
  <2>2. revision' \in 0 .. MaxRevision
    BY <1>1, StoreAssumption DEF StoreInv, TypeOK
  <2>3. applied' \in Nat /\ changes' \in 0 .. applied'
    BY <1>1 DEF StoreInv, TypeOK
  <2>4. cursor' \in 0 .. Rev /\ pc' \in Pc
    BY <1>1, <1>3 DEF Pc
  <2>5. /\ maxEvents' \in Budget \union {Forever} /\ snap' \in 0 .. Rev /\ rv' \in 0 .. Rev
        /\ listed' \in SUBSET Object /\ jumped' \in BOOLEAN /\ faults' \in 0 .. MaxFaults
    BY <1>1 DEF StoreInv, TypeOK
  <2> QED  BY <1>2, <1>8, <2>1, <2>2, <2>3, <2>4, <2>5 DEF TypeOK, ApiInv
<1>10. ASSUME Ahead(cursor)
       PROVE  \A x \in Object : \E q \in cursor + 1 .. Rev : items'[x] = etcd[q][x]
  <2>1. cursor + 1 \in cursor + 1 .. Rev
    BY <1>3
  <2>2. ASSUME NEW x \in Object, x # o
        PROVE  \E q \in cursor + 1 .. Rev : items'[x] = etcd[q][x]
    <3>1. PICK q \in cursor .. Rev : items[x] = etcd[q][x]
      BY <1>10 DEF Ahead
    <3>2. CASE q = cursor
      BY <1>6, <1>8, <2>1, <2>2, <3>1, <3>2
    <3>3. CASE q # cursor
      <4>1. q \in cursor + 1 .. Rev
        BY <1>3, <3>3
      <4> QED  BY <1>8, <2>2, <3>1, <4>1
    <3> QED  BY <3>2, <3>3
  <2> QED  BY <1>8, <2>1, <2>2
<1>11. StreamInv'
  <2>1. rv' >= 1 /\ rv' <= cursor'
    BY <1>1, <1>3
  <2>2. ~jumped' => \A x \in Object : \E q \in cursor' .. Rev' : items'[x] = etcd'[q][x]
    BY <1>1, <1>2, <1>10 DEF StoreInv, StreamInv, Streaming
  <2> QED  BY <1>1, <2>1, <2>2 DEF StreamInv, Waiting, Streaming, Ahead
<1>12. SeedInv'
  BY <1>1 DEF SeedInv
<1> QED  BY <1>2, <1>9, <1>11, <1>12 DEF StoreInv

\* Lemma: falling back to where the watch was opened only puts entries further ahead.
LEMMA FurtherAhead ==
  ASSUME StoreInv, Streaming, Ahead(cursor)
  PROVE  Ahead(rv)
<1>1. rv \in Nat /\ cursor \in Nat /\ rv <= cursor /\ Rev \in Nat
  BY TypeFacts DEF StoreInv, StreamInv
<1>2. cursor .. Rev \subseteq rv .. Rev
  BY <1>1
<1> QED  BY <1>2 DEF Ahead

\* Lemma: the steps that store nothing.
LEMMA OthersKeep ==
  ASSUME StoreInv,
         \/ SeedFails \/ Connect \/ ConnectFails \/ Refetch \/ Wake
         \/ Notice \/ StreamEnd \/ StreamError \/ UNCHANGED vars
  PROVE  StoreInv'
<1>1. UNCHANGED <<etcd, oldest, maxEvents, items, bare, revision, snap, listed, changes>>
  BY DEF SeedFails, Connect, ConnectFails, Refetch, Wake, Notice, StreamEnd, StreamError,
         vars, api, store, watch
<1>2. ApiInv' /\ Rev' = Rev /\ Rev \in Nat /\ Rev >= 1
  BY <1>1, ApiKept, TypeFacts DEF StoreInv
<1>3. /\ pc' \in Pc /\ rv' \in 0 .. Rev /\ cursor' \in 0 .. Rev /\ jumped' \in BOOLEAN
      /\ faults' \in 0 .. MaxFaults
  <2>1. pc \in Pc /\ jumped \in BOOLEAN /\ faults \in 0 .. MaxFaults /\ MaxFaults \in Nat
    BY StoreAssumption DEF StoreInv, TypeOK
  <2>2. faults' \in 0 .. MaxFaults
    BY <2>1 DEF SeedFails, Connect, ConnectFails, Refetch, Wake, Notice, StreamEnd, StreamError, vars
  <2>3. pc' \in Pc
    BY <2>1 DEF SeedFails, Connect, ConnectFails, Refetch, Wake, Notice, Count, StreamEnd,
                StreamError, vars, Pc
  <2>4. (rv' = rv \/ rv' = Rev) /\ (cursor' = cursor \/ cursor' = rv)
        /\ (jumped' = jumped \/ jumped' = TRUE)
    BY DEF SeedFails, Connect, ConnectFails, Refetch, Wake, Notice, StreamEnd, StreamError,
           vars, watch
  <2>5. rv \in 0 .. Rev /\ cursor \in 0 .. Rev /\ Rev \in 0 .. Rev
    BY <1>2, TypeFacts
  <2>6. rv' \in 0 .. Rev /\ cursor' \in 0 .. Rev
    BY ONLY <2>4, <2>5
  <2>7. jumped' \in BOOLEAN
    BY ONLY <2>1, <2>4
  <2> QED  BY ONLY <2>2, <2>3, <2>6, <2>7
<1>4. applied' \in Nat /\ changes' \in 0 .. applied'
  <2>1. applied' = applied \/ applied' = applied + 1
    BY DEF SeedFails, Connect, ConnectFails, Refetch, Wake, Notice, Count, StreamEnd,
           StreamError, vars, watch
  <2>2. applied \in Nat /\ changes \in 0 .. applied
    BY DEF StoreInv, TypeOK
  <2> QED  BY <1>1, <2>1, <2>2
<1>5. TypeOK'
  <2>1. /\ maxEvents \in Budget \union {Forever} /\ items \in Collection
        /\ bare \in SUBSET Present(items) /\ revision \in 0 .. MaxRevision
        /\ snap \in 0 .. Rev /\ listed \in SUBSET Object
    BY DEF StoreInv, TypeOK
  <2>2. bare' \in SUBSET Present(items')
    BY <1>1, <2>1 DEF Present
  <2> QED  BY <1>1, <1>2, <1>3, <1>4, <2>1, <2>2 DEF TypeOK, ApiInv
<1>6. SeedInv'
  <2>1. pc' = "seed" => pc = "seed"
    BY DEF SeedFails, Connect, ConnectFails, Refetch, Wake, Notice, Count, StreamEnd,
           StreamError, vars
  <2> QED  BY <1>1, <2>1 DEF StoreInv, SeedInv, Present
<1>7. \A r \in Nat : Ahead(r) => \A o \in Object : \E q \in r .. Rev' : items'[o] = etcd'[q][o]
  BY <1>1, <1>2 DEF Ahead
<1>8. StreamInv'
  <2>1. /\ Waiting \/ Streaming => rv >= 1
        /\ Streaming => rv <= cursor
        /\ ~jumped /\ Waiting => Ahead(rv)
        /\ ~jumped /\ Streaming => Ahead(cursor) /\ Ahead(rv)
        /\ rv \in Nat /\ cursor \in Nat
    BY FurtherAhead, TypeFacts DEF StoreInv, StreamInv
  <2>2. CASE SeedFails \/ UNCHANGED vars
    <3>1. pc' = "ended" \/ UNCHANGED <<pc, rv, cursor, jumped>>
      BY <2>2 DEF SeedFails, vars
    <3> QED  BY <1>7, <2>1, <3>1 DEF StreamInv, Waiting, Streaming, Ahead
  <2>3. CASE Connect
    <3>1. /\ Waiting /\ ~Waiting' /\ Streaming' /\ cursor' = rv /\ rv' = rv /\ jumped' = jumped
      BY <2>3 DEF Connect, Waiting, Streaming
    <3> QED  BY <1>7, <2>1, <3>1 DEF StreamInv, Ahead
  <2>4. CASE Refetch
    <3>1. Waiting /\ Waiting' /\ ~Streaming' /\ ((jumped' /\ rv' = Rev) \/ UNCHANGED <<rv, jumped>>)
      BY <2>4 DEF Refetch, Waiting, Streaming
    <3> QED  BY <1>2, <1>7, <2>1, <3>1 DEF StreamInv, Ahead
  <2>5. CASE Notice
    <3>1. Streaming /\ (pc' = "ended" \/ pc' = pc) /\ UNCHANGED <<rv, cursor, jumped>>
      BY <2>5 DEF Notice, Count, Streaming
    <3> QED  BY <1>7, <2>1, <3>1 DEF StreamInv, Waiting, Streaming, Ahead
  <2>6. CASE ConnectFails \/ Wake \/ StreamEnd \/ StreamError
    <3>1. (Waiting \/ Streaming) /\ Waiting' /\ ~Streaming' /\ UNCHANGED <<rv, jumped>>
      BY <2>6 DEF ConnectFails, Wake, StreamEnd, StreamError, Waiting, Streaming, watch
    <3> QED  BY <1>7, <2>1, <3>1 DEF StreamInv, Ahead
  <2> QED  BY <2>2, <2>3, <2>4, <2>5, <2>6
<1> QED  BY <1>2, <1>5, <1>6, <1>8 DEF StoreInv

LEMMA Inductive == StoreInv /\ [Next]_vars => StoreInv'
BY SeedPageKeeps, ApplyKeeps, ClusterKeeps, OthersKeep DEF Next, Task

LEMMA StoreInvariant == Spec => []StoreInv
BY InitInv, Inductive, PTL DEF Spec

\* Theorem: until a watch call fails, a stream that has delivered everything leaves the
\* store equal to the cluster, however often it ended and its events were replayed.
THEOREM StoreFollowsCluster == Spec => []FollowsCluster
<1>1. ASSUME StoreInv
      PROVE  FollowsCluster
  <2>1. ASSUME CaughtUp, ~jumped
        PROVE  items = Latest
    <3>1. Ahead(Rev)
      BY <1>1, <2>1 DEF StoreInv, StreamInv, CaughtUp, Streaming
    <3>2. \A q \in Rev .. Rev : q = Rev
      BY <1>1, TypeFacts
    <3>3. \A o \in Object : items[o] = Latest[o]
      BY <3>1, <3>2 DEF Ahead, Latest
    <3>4. items \in Collection /\ Latest \in Collection
      BY <1>1, TypeFacts DEF Latest
    <3> QED  BY <3>3, <3>4 DEF Collection
  <2> QED  BY <1>1, <2>1 DEF FollowsCluster, CaughtUpIsCurrent, StoreInv
<1> QED  BY StoreInvariant, <1>1, PTL

\* Theorem: every change of the store's contents shows in the revision consumers poll.
THEOREM ChangesAlwaysBump == Spec => ChangesBumpRevision
<1>1. ASSUME StoreInv, [Next]_vars, items' # items
      PROVE  revision' > revision
  <2>1. Bump
    BY <1>1 DEF Next, Task, Cluster, SeedPage, SeedFails, Connect, ConnectFails, Refetch, Wake,
                Apply, Notice, StreamEnd, StreamError, vars, store
  <2> QED  BY <1>1, <2>1, StoreAssumption DEF Bump, StoreInv, TypeOK
<1>2. StoreInv /\ [Next]_vars => [items' # items => revision' > revision]_vars
  BY <1>1
<1> QED  BY StoreInvariant, <1>2, PTL DEF Spec, ChangesBumpRevision
================================================================================
