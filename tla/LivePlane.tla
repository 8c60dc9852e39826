------------------------------- MODULE LivePlane -------------------------------
(***************************************************************************)
(* One live view: LivePlane of kaptein-integration (src/lib.rs).  The view *)
(* is seeded by a paged list; its watch task then relists, reconciles the  *)
(* rows both ways, watches from the list's revision, and on any end of the *)
(* stream backs off and relists.                                           *)
(*                                                                         *)
(* The API calls are the await points; a row is upserted or removed under  *)
(* the MemPlane's lock, one row at a time, so a reader may see any prefix. *)
(***************************************************************************)
EXTENDS ApiServer, FiniteSets

CONSTANTS
  PageLimit,   \* objects per list page (500 in the code)
  BackoffMin,  \* first backoff (100 ms)
  BackoffMax,  \* largest backoff (5000 ms)
  MaxFaults    \* bound on transient failures of API calls

ASSUME PlaneAssumption ==
  /\ PageLimit \in Nat \ {0}
  /\ BackoffMin \in Nat \ {0}
  /\ BackoffMax \in Nat
  /\ BackoffMin <= BackoffMax
  /\ MaxFaults \in Nat

VARIABLES
  rows,        \* the MemPlane: version shown for each object, or Absent
  asOf,        \* history: the revision each row's content was read at
  mode,        \* "seed" until registered, then "live" or "oneshot" (Denied)
  pc,          \* where the view's task is
  snap,        \* revision of the list in progress, 0 before its first page
  pending,     \* objects of the received page not yet upserted
  listed,      \* live_ids: objects upserted by the list in progress
  cursor,      \* revision the watch stream has delivered up to
  backoff,     \* backoff_ms
  faults       \* transient failures so far

view == <<rows, asOf>>
list == <<snap, pending, listed>>
vars == <<etcd, oldest, rows, asOf, mode, pc, snap, pending, listed, cursor, backoff, faults>>
--------------------------------------------------------------------------------
Mode  == {"seed", "live", "oneshot"}
Pc    == {"list", "upsert", "drop", "register", "connect", "watch", "expired", "sleep", "ended"}
Minimum(a, b) == IF a <= b THEN a ELSE b

TypeOK ==
  /\ ApiTypeOK
  /\ rows    \in Collection
  /\ asOf    \in [Object -> 0 .. Rev]
  /\ mode    \in Mode
  /\ pc      \in Pc
  /\ snap    \in 0 .. Rev
  /\ pending \in SUBSET Object
  /\ listed  \in SUBSET Object
  /\ cursor  \in 0 .. Rev
  /\ backoff \in BackoffMin .. BackoffMax
  /\ faults  \in Nat

\* with_shared_informers makes an empty plane; the TUI seeds it before the task starts.
Init ==
  /\ ApiInit
  /\ rows    = [o \in Object |-> Absent]
  /\ asOf    = [o \in Object |-> 0]
  /\ mode    = "seed"
  /\ pc      = "list"
  /\ snap    = 0
  /\ pending = {}
  /\ listed  = {}
  /\ cursor  = 0
  /\ backoff = BackoffMin
  /\ faults  = 0
--------------------------------------------------------------------------------
\* The revision the next page is read from: the continue token pins the first page's.
ListRev == IF snap = 0 THEN Rev ELSE snap

Unlisted(r) == Present(etcd[r]) \ listed

\* A page of the list in progress arrives (seed, or relist_and_reconcile).
ListPage ==
  /\ pc = "list"
  /\ snap = 0 \/ snap >= oldest
  /\ snap' = ListRev
  /\ \E page \in SUBSET Unlisted(ListRev) :
       /\ Cardinality(page) = Minimum(PageLimit, Cardinality(Unlisted(ListRev)))
       /\ pending' = page
  /\ pc' = "upsert"
  /\ UNCHANGED <<api, view, mode, listed, cursor, backoff, faults>>

\* A list call fails.  A seed or a one-shot list propagates the error; the watch loop
\* sleeps and starts over.
ListFails ==
  /\ pc = "list"
  /\ pc' = IF mode = "live" THEN "sleep" ELSE "ended"
  /\ UNCHANGED <<api, view, mode, list, cursor, backoff>>

ListError   == ListFails /\ faults < MaxFaults /\ faults' = faults + 1
ListExpired == ListFails /\ snap # 0 /\ snap < oldest /\ UNCHANGED faults

\* mem.upsert for one object of the page.
Upsert(o) ==
  /\ pc = "upsert"
  /\ o \in pending
  /\ rows'    = [rows EXCEPT ![o] = etcd[snap][o]]
  /\ asOf'    = [asOf EXCEPT ![o] = snap]
  /\ pending' = pending \ {o}
  /\ listed'  = listed \union {o}
  /\ UNCHANGED <<api, mode, pc, snap, cursor, backoff, faults>>

\* The page is done: follow the continue token, or finish the list.
PageDone ==
  /\ pc = "upsert"
  /\ pending = {}
  /\ pc' = IF Unlisted(snap) # {} THEN "list"
           ELSE IF mode = "seed" THEN "register" ELSE "drop"
  /\ UNCHANGED <<api, view, mode, list, cursor, backoff, faults>>

\* Defect: the registered loop trusts the seed and watches without a relist of its own,
\* from whatever the collection's newest revision is by then.
Register_NoRelist ==
  /\ pc = "register"
  /\ mode' \in {"live", "oneshot"}
  /\ cursor' = Rev
  /\ pc' = "connect"
  /\ UNCHANGED <<api, view, list, backoff, faults>>

\* watch_loop starts: the manager grants a slot, or denies it and the view degrades to
\* one list.
Register ==
  /\ pc = "register"
  /\ mode' \in {"live", "oneshot"}
  /\ pc'     = "list"
  /\ snap'   = 0
  /\ listed' = {}
  /\ UNCHANGED <<api, view, pending, cursor, backoff, faults>>

\* Rows of the plane the finished list did not name.
Missing == {o \in Object : rows[o] # Absent} \ listed

Drop(o) ==
  /\ pc = "drop"
  /\ o \in Missing
  /\ rows' = [rows EXCEPT ![o] = Absent]
  /\ asOf' = [asOf EXCEPT ![o] = snap]
  /\ UNCHANGED <<api, mode, pc, list, cursor, backoff, faults>>

\* Defect: a reconnect keeps the first cursor instead of the relist's revision.
Reconciled_OldCursor ==
  /\ pc = "drop"
  /\ Missing = {}
  /\ cursor' = IF cursor = 0 THEN snap ELSE cursor
  /\ pc' = IF mode = "live" THEN "connect" ELSE "ended"
  /\ UNCHANGED <<api, view, mode, list, backoff, faults>>

Reconciled ==
  /\ pc = "drop"
  /\ Missing = {}
  /\ cursor' = snap
  /\ pc' = IF mode = "live" THEN "connect" ELSE "ended"
  /\ UNCHANGED <<api, view, mode, list, backoff, faults>>
--------------------------------------------------------------------------------
\* api.watch opens a stream; from a compacted revision the stream only carries a 410.
Connect ==
  /\ pc = "connect"
  /\ pc' = IF cursor >= oldest THEN "watch" ELSE "expired"
  /\ UNCHANGED <<api, view, mode, list, cursor, backoff, faults>>

\* api.watch fails, either for a passing reason or because the revision is gone.
ConnectFails ==
  /\ pc = "connect"
  /\ pc' = "sleep"
  /\ UNCHANGED <<api, view, mode, list, cursor, backoff>>

ConnectError   == ConnectFails /\ faults < MaxFaults /\ faults' = faults + 1
ConnectExpired == ConnectFails /\ cursor < oldest /\ UNCHANGED faults

\* An Added, Modified or Deleted event becomes an upsert or a remove, and resets backoff.
Deliver ==
  /\ pc = "watch"
  /\ cursor < Rev
  /\ cursor' = cursor + 1
  /\ LET o == Changed(cursor + 1)
     IN /\ rows' = [rows EXCEPT ![o] = etcd[cursor + 1][o]]
        /\ asOf' = [asOf EXCEPT ![o] = cursor + 1]
  /\ backoff' = BackoffMin
  /\ UNCHANGED <<api, mode, pc, list, faults>>

\* A bookmark or an in-stream error status: no patch, but it counts as healthy.
Notice ==
  /\ pc \in {"watch", "expired"}
  /\ backoff' = BackoffMin
  /\ UNCHANGED <<api, view, mode, pc, list, cursor, faults>>

\* The server closes the stream (its timeout, or after a 410).
StreamEnd ==
  /\ pc \in {"watch", "expired"}
  /\ pc' = "sleep"
  /\ UNCHANGED <<api, view, mode, list, cursor, backoff, faults>>

\* The stream yields a transport error.
StreamError ==
  /\ pc \in {"watch", "expired"}
  /\ faults < MaxFaults
  /\ faults' = faults + 1
  /\ pc' = "sleep"
  /\ UNCHANGED <<api, view, mode, list, cursor, backoff>>

\* Defect: reconnect at the old revision without relisting.
Wake_NoRelist ==
  /\ pc = "sleep"
  /\ pc' = IF cursor = 0 THEN "list" ELSE "connect"
  /\ backoff' = Minimum(2 * backoff, BackoffMax)
  /\ UNCHANGED <<api, view, mode, list, cursor, faults>>

\* The backoff elapses: double it and relist from scratch.
Wake ==
  /\ pc = "sleep"
  /\ pc'      = "list"
  /\ snap'    = 0
  /\ pending' = {}
  /\ listed'  = {}
  /\ backoff' = Minimum(2 * backoff, BackoffMax)
  /\ UNCHANGED <<api, view, mode, cursor, faults>>

\* The view is switched away: the task is aborted, which takes effect at an await.
Abort ==
  /\ mode # "seed"
  /\ pc \in {"list", "connect", "watch", "expired", "sleep"}
  /\ pc' = "ended"
  /\ UNCHANGED <<api, view, mode, list, cursor, backoff, faults>>

Cluster == ApiNext /\ UNCHANGED <<view, mode, pc, list, cursor, backoff, faults>>

Task ==
  \/ ListPage \/ ListExpired \/ PageDone \/ Register \/ Reconciled
  \/ \E o \in Object : Upsert(o) \/ Drop(o)
  \/ Connect \/ ConnectExpired \/ Deliver \/ Wake

Environment ==
  \/ ListError \/ ConnectError \/ Notice \/ StreamEnd \/ StreamError \/ Abort
  \/ Cluster

Next == Task \/ Environment

Spec == Init /\ [][Next]_vars

\* The runtime polls the task, answers arrive, and a 410 stream is closed by the server.
\* Transient failures are bounded by MaxFaults: an outage ends.
Fairness == WF_vars(Task) /\ WF_vars(pc = "expired" /\ StreamEnd)

FairSpec == Spec /\ Fairness
--------------------------------------------------------------------------------
\* Whenever the task watches (or is about to), the plane holds exactly the collection at
\* the watch cursor: no ghost of an object deleted during an outage (issue #20), none
\* created during it missing (finding O), whatever failed or was compacted before.
ShowsCursor == pc \in {"connect", "watch", "expired"} => rows = etcd[cursor]
MirrorsCursor == TypeOK /\ ShowsCursor

\* The plane implements the abstract mirror: a row, also halfway through a relist, shows
\* what the object was at some revision, and never goes back to an older one.
Mirror == INSTANCE LiveMirror
ImplementsMirror == Mirror!MirrorSpec

\* Once writes and outages stop, a view that is neither closed nor denied shows the
\* cluster as it is, for good.
Converges == <>[](rows = Latest) \/ <>(pc = "ended")
================================================================================
