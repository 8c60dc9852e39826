----------------------------- MODULE InformerStore -----------------------------
(***************************************************************************)
(* The informer-backed store of kaptein-core (src/store.rs): run_informer  *)
(* seeds an InformerStore from a metadata-only paged list, then watches,   *)
(* for ever (watch_from) or for a number of events (watch_from_until).     *)
(*                                                                         *)
(* Unlike LivePlane it never relists after the seed: a failed watch call   *)
(* only fetches a new resourceVersion to watch from, and an ended stream   *)
(* is reopened at the revision the last one was opened at.                 *)
(***************************************************************************)
EXTENDS ApiServer, FiniteSets

CONSTANTS
  PageLimit,   \* the caller's `limit`
  Budget,      \* the values of Some(n) explored for max_events
  MaxRevision, \* bound on the store's revision
  MaxFaults    \* bound on transient failures of API calls

ASSUME StoreAssumption ==
  /\ PageLimit \in Nat \ {0}
  /\ Budget \subseteq Nat
  /\ MaxRevision \in Nat
  /\ MaxFaults \in Nat

VARIABLES
  maxEvents,   \* max_events: a number, or Forever
  items,       \* version stored for each key, or Absent
  bare,        \* keys stored from metadata only, with an empty status
  revision,    \* StoreRevision
  pc,          \* where run_informer is
  snap,        \* revision of the seeding list, 0 before its first page
  listed,      \* keys the seeding list has returned
  rv,          \* current_rv: where the next watch is opened
  cursor,      \* revision the open stream has delivered up to
  applied,     \* events counted against max_events
  changes,     \* history: Added, Modified and Deleted events applied
  jumped,      \* history: current_rv was fetched anew after a failed watch call
  faults       \* transient failures so far

store == <<items, bare, revision>>
watch == <<rv, cursor, applied, changes, jumped>>
vars  == <<etcd, oldest, maxEvents, items, bare, revision, pc, snap, listed,
           rv, cursor, applied, changes, jumped, faults>>
--------------------------------------------------------------------------------
Forever == -1
Bounded == maxEvents # Forever
Pc == {"seed", "connect", "watch", "expired", "refetch", "sleep", "ended"}
Minimum(a, b) == IF a <= b THEN a ELSE b

TypeOK ==
  /\ ApiTypeOK
  /\ maxEvents \in Budget \union {Forever}
  /\ items     \in Collection
  /\ bare      \in SUBSET Present(items)
  /\ revision  \in 0 .. MaxRevision
  /\ pc        \in Pc
  /\ snap      \in 0 .. Rev
  /\ listed    \in SUBSET Object
  /\ rv        \in 0 .. Rev
  /\ cursor    \in 0 .. Rev
  /\ applied   \in Nat
  /\ changes   \in 0 .. applied
  /\ jumped    \in BOOLEAN
  /\ faults    \in 0 .. MaxFaults

Init ==
  /\ ApiInit
  /\ maxEvents \in Budget \union {Forever}
  /\ items     = [o \in Object |-> Absent]
  /\ bare      = {}
  /\ revision  = 0
  /\ pc        = "seed"
  /\ snap      = 0
  /\ listed    = {}
  /\ rv        = 0
  /\ cursor    = 0
  /\ applied   = 0
  /\ changes   = 0
  /\ jumped    = FALSE
  /\ faults    = 0

Bump == revision < MaxRevision /\ revision' = revision + 1
--------------------------------------------------------------------------------
ListRev == IF snap = 0 THEN Rev ELSE snap
Unlisted(r) == Present(etcd[r]) \ listed

\* One page of the metadata list goes into the store; the last one starts the watch.
SeedPage ==
  /\ pc = "seed"
  /\ snap = 0 \/ snap >= oldest
  /\ \E page \in SUBSET Unlisted(ListRev) :
       /\ Cardinality(page) = Minimum(PageLimit, Cardinality(Unlisted(ListRev)))
       /\ items'  = [o \in Object |-> IF o \in page THEN etcd[ListRev][o] ELSE items[o]]
       /\ bare'   = bare \union page
       /\ listed' = listed \union page
       /\ IF Unlisted(ListRev) # page
          THEN snap' = ListRev /\ UNCHANGED <<pc, rv>>
          ELSE /\ snap' = 0
               /\ rv' = ListRev
               /\ pc' = IF maxEvents = 0 THEN "ended" ELSE "connect"
  /\ Bump
  /\ UNCHANGED <<api, maxEvents, cursor, applied, changes, jumped, faults>>

\* A failed list call ends run_informer with its error.
SeedFails ==
  /\ pc = "seed"
  /\ \/ faults < MaxFaults /\ faults' = faults + 1
     \/ snap # 0 /\ snap < oldest /\ UNCHANGED faults
  /\ pc' = "ended"
  /\ UNCHANGED <<api, maxEvents, store, snap, listed, watch>>

\* The watch call opens a stream at current_rv; if that revision is compacted the stream
\* only carries a 410.
Connect ==
  /\ pc = "connect"
  /\ cursor' = rv
  /\ pc' = IF rv >= oldest THEN "watch" ELSE "expired"
  /\ UNCHANGED <<api, maxEvents, store, snap, listed, rv, applied, changes, jumped, faults>>

\* The watch call fails: sleep, then fetch a resourceVersion.
ConnectFails ==
  /\ pc = "connect"
  /\ \/ faults < MaxFaults /\ faults' = faults + 1
     \/ rv < oldest /\ UNCHANGED faults
  /\ pc' = "refetch"
  /\ UNCHANGED <<api, maxEvents, store, snap, listed, watch>>

\* A list of one object, used only for its resourceVersion; a failure keeps the old one.
Refetch ==
  /\ pc = "refetch"
  /\ pc' = "connect"
  /\ \/ rv' = Rev /\ jumped' = TRUE /\ UNCHANGED faults
     \/ faults < MaxFaults /\ faults' = faults + 1 /\ UNCHANGED <<rv, jumped>>
  /\ UNCHANGED <<api, maxEvents, store, snap, listed, cursor, applied, changes>>

\* Counting an event may finish a bounded watch.
Count ==
  /\ applied' = IF Bounded THEN applied + 1 ELSE applied
  /\ pc' = IF Bounded /\ applied + 1 >= maxEvents THEN "ended" ELSE pc

\* Defect: a Deleted event leaves the revision alone.
Apply_SilentDelete ==
  /\ pc = "watch"
  /\ cursor < Rev
  /\ cursor' = cursor + 1
  /\ LET o == Changed(cursor + 1)
     IN /\ items' = [items EXCEPT ![o] = etcd[cursor + 1][o]]
        /\ bare'  = bare \ {o}
        /\ IF etcd[cursor + 1][o] = Absent THEN UNCHANGED revision ELSE Bump
  /\ changes' = IF Bounded THEN changes + 1 ELSE changes
  /\ Count
  /\ UNCHANGED <<api, maxEvents, snap, listed, rv, jumped, faults>>

\* store.apply of an Added, Modified or Deleted event.
Apply ==
  /\ pc = "watch"
  /\ cursor < Rev
  /\ cursor' = cursor + 1
  /\ LET o == Changed(cursor + 1)
     IN /\ items' = [items EXCEPT ![o] = etcd[cursor + 1][o]]
        /\ bare'  = bare \ {o}
  /\ Bump
  /\ changes' = IF Bounded THEN changes + 1 ELSE changes
  /\ Count
  /\ UNCHANGED <<api, maxEvents, snap, listed, rv, jumped, faults>>

\* A bookmark, or the error status of an expired stream: nothing is stored, but a bounded
\* watch counts it.
Notice ==
  /\ pc \in {"watch", "expired"}
  /\ Bounded
  /\ Count
  /\ UNCHANGED <<api, maxEvents, store, snap, listed, rv, cursor, changes, jumped, faults>>

\* Defect: a reconnect resumes where the stream stopped being read, one event too far.
StreamEnd_Skips ==
  /\ pc \in {"watch", "expired"}
  /\ rv' = Minimum(cursor + 1, Rev)
  /\ pc' = IF Bounded THEN "sleep" ELSE "connect"
  /\ UNCHANGED <<api, maxEvents, store, snap, listed, cursor, applied, changes, jumped, faults>>

\* The server closes the stream.  watch_from reconnects at once, watch_from_until sleeps.
StreamEnd ==
  /\ pc \in {"watch", "expired"}
  /\ pc' = IF Bounded THEN "sleep" ELSE "connect"
  /\ UNCHANGED <<api, maxEvents, store, snap, listed, watch, faults>>

\* The stream yields a transport error: both forms sleep.
StreamError ==
  /\ pc \in {"watch", "expired"}
  /\ faults < MaxFaults
  /\ faults' = faults + 1
  /\ pc' = "sleep"
  /\ UNCHANGED <<api, maxEvents, store, snap, listed, watch>>

Wake ==
  /\ pc = "sleep"
  /\ pc' = "connect"
  /\ UNCHANGED <<api, maxEvents, store, snap, listed, watch, faults>>

Cluster ==
  /\ ApiNext
  /\ UNCHANGED <<maxEvents, store, pc, snap, listed, watch, faults>>

Task == SeedPage \/ Connect \/ ConnectFails \/ Refetch \/ Apply \/ Wake

Next == Task \/ SeedFails \/ Notice \/ StreamEnd \/ StreamError \/ Cluster

Spec == Init /\ [][Next]_vars
--------------------------------------------------------------------------------
CaughtUp == pc = "watch" /\ cursor = Rev

\* While no watch call has failed, a stream that has delivered everything leaves the store
\* equal to the cluster, however often it ended and replayed its events.
CaughtUpIsCurrent == CaughtUp /\ ~jumped => items = Latest

\* What a consumer of the store relies on: its types, and contents that are the cluster's
\* once the stream has delivered everything and no watch call has failed.
FollowsCluster == TypeOK /\ CaughtUpIsCurrent

\* A consumer polling the revision sees every change of the store's contents.
ChangesBumpRevision == [][items' # items => revision' > revision]_vars

\* store.rs:155-156, 303: "relisting on watch expiry/410, so the store never goes stale".
NeverStale == CaughtUp => items = Latest

\* store.rs:155: "reconnecting with backoff".  An ended stream is not reopened at once.
ReconnectsWithBackoff ==
  [][(pc \in {"watch", "expired"} /\ pc' # pc) => pc' \in {"sleep", "ended"}]_vars

\* store.rs:158-159: Some(n) "returns after applying `n` change events".
ReturnsAfterChanges ==
  (pc = "ended" /\ maxEvents > 0 /\ applied >= maxEvents) => changes >= maxEvents

\* store.rs:175-177: the watch after the metadata-only seed "carries full objects so status
\* is available for the current view".
StatusAvailable == CaughtUp => bare = {}
================================================================================
