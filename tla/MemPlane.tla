-------------------------------- MODULE MemPlane --------------------------------
(***************************************************************************)
(* The in-memory data plane of kaptein-viewmodel (src/mem_plane.rs): rows  *)
(* in a vector with an index by identity, a revision, a bounded history of *)
(* patches and the channels of the live subscribers.                       *)
(*                                                                         *)
(* `state` and `live` are two mutexes, and no operation holds both: a      *)
(* write records its patch under one and broadcasts it under the other; a  *)
(* query sorts under the lock, lets go, and clones the window under it; a  *)
(* subscription copies the history and then attaches.  Each locked section *)
(* is an action.  A row's content is the revision that wrote it, and the   *)
(* sort column orders rows by identity.                                    *)
(***************************************************************************)
EXTENDS Integers, Sequences, FiniteSets, SequencesExt

CONSTANTS
  Ids,         \* row identities, numbers in the order of the sort column
  Writer,      \* threads that upsert and remove (one watch task per plane)
  Reader,      \* threads that query
  Subscriber,  \* calls of subscribe
  Windows,     \* the [start, end) windows queries ask for, as records
  HistoryCap,  \* history_cap (1024 in the code)
  MaxRevision  \* bound on the revision

ASSUME MemAssumption ==
  /\ Ids \subseteq Nat
  /\ Windows \subseteq [start : Nat, end : Nat]
  /\ HistoryCap \in Nat
  /\ MaxRevision \in Nat

VARIABLES
  rows,        \* Vec<Row>
  index,       \* RowId -> position in rows, 0 when absent
  revision,    \* the atomic counter
  history,     \* the last patches, each with its revision
  poisoned,    \* a thread panicked while it held `state`
  unsent,      \* the recorded patch each writer has yet to broadcast, or NoPatch
  query,       \* the query each reader is in, or its last page
  sub,         \* each subscription: phase, the revision held, the patches yielded
  past         \* history: the contents of the plane after each revision

store == <<rows, index, revision, history, poisoned, past>>
vars  == <<rows, index, revision, history, poisoned, unsent, query, sub, past>>
--------------------------------------------------------------------------------
NoPatch == [id |-> 0, ver |-> 0, rev |-> 0]
\* ver = 0 is RowPatch::Remove.
Patch   == [id : Ids, ver : 0 .. MaxRevision, rev : 1 .. MaxRevision]
Row     == [id : Ids, ver : 1 .. MaxRevision]

\* The plane as a function of identity, 0 for a row that is not there.
Contents == [i \in Ids |-> IF index[i] = 0 THEN 0 ELSE rows[index[i]].ver]

ApplyPatch(c, p) == [c EXCEPT ![p.id] = p.ver]

\* A consumer that held the contents c and applied the patches in order: of each row it
\* has what the last patch about it says.
Replayed(c, patches) ==
  [i \in Ids |->
     LET about == {k \in DOMAIN patches : patches[k].id = i}
     IN IF about = {} THEN c[i] ELSE patches[Max(about)].ver]

NoQuery == [phase |-> "none"]
NoSub   == [phase |-> "none"]

TypeOK ==
  /\ rows     \in Seq(Row)
  /\ index    \in [Ids -> 0 .. Len(rows)]
  /\ revision \in 0 .. MaxRevision
  /\ history  \in Seq(Patch) /\ Len(history) <= HistoryCap
  /\ poisoned \in BOOLEAN
  /\ unsent   \in [Writer -> Patch \union {NoPatch}]
  /\ \A r \in Reader : query[r].phase \in {"none", "sort", "clone", "page", "panic"}
  /\ \A s \in Subscriber : sub[s].phase \in {"none", "copied", "live", "gone"}
  /\ Len(past) = revision + 1

Init ==
  /\ rows     = <<>>
  /\ index    = [i \in Ids |-> 0]
  /\ revision = 0
  /\ history  = <<>>
  /\ poisoned = FALSE
  /\ unsent   = [w \in Writer |-> NoPatch]
  /\ query    = [r \in Reader |-> NoQuery]
  /\ sub      = [s \in Subscriber |-> NoSub]
  /\ past     = << [i \in Ids |-> 0] >>
--------------------------------------------------------------------------------
\* Defect: a full history drops the newest patch.
Remembered_DropsNewest(p) ==
  LET h == Append(history, p)
  IN IF Len(h) > HistoryCap THEN SubSeq(h, 1, HistoryCap) ELSE h

\* history.push_back, then pop_front over the cap.
Remembered(p) ==
  LET h == Append(history, p)
  IN IF Len(h) > HistoryCap THEN Tail(h) ELSE h

\* The tail of a write's locked section: a new revision with its patch.
Record(w, id, ver) ==
  LET p == [id |-> id, ver |-> ver, rev |-> revision + 1]
  IN /\ revision < MaxRevision
     /\ revision' = revision + 1
     /\ history'  = Remembered(p)
     /\ unsent'   = [unsent EXCEPT ![w] = p]
     /\ past'     = Append(past, ApplyPatch(Contents, p))

\* Every locked section panics on a poisoned mutex; a thread in a write does nothing else.
Free(w) == unsent[w] = NoPatch /\ ~poisoned

UpsertPresent(w, id) ==
  /\ Free(w)
  /\ index[id] # 0
  /\ rows' = [rows EXCEPT ![index[id]].ver = revision + 1]
  /\ Record(w, id, revision + 1)
  /\ UNCHANGED <<index, poisoned, query, sub>>

UpsertNew(w, id) ==
  /\ Free(w)
  /\ index[id] = 0
  /\ rows'  = Append(rows, [id |-> id, ver |-> revision + 1])
  /\ index' = [index EXCEPT ![id] = Len(rows) + 1]
  /\ Record(w, id, revision + 1)
  /\ UNCHANGED <<poisoned, query, sub>>

\* rows.swap_remove(i): the last row takes the place of the removed one.
SwapRemoved(i) ==
  [j \in 1 .. Len(rows) - 1 |-> IF j = i THEN rows[Len(rows)] ELSE rows[j]]

\* Defect: the row that moved keeps its old index.
Reindexed_Stale(id) == [index EXCEPT ![id] = 0]

\* The index without `id`, and with the new position of the row that moved.
Reindexed(id) ==
  [j \in Ids |-> IF j = id THEN 0
                 ELSE IF index[j] = Len(rows) THEN index[id]
                 ELSE index[j]]

\* Removing an absent row is a no-op with no revision and no patch.
RemoveRow(w, id) ==
  /\ Free(w)
  /\ index[id] # 0
  /\ rows'  = SwapRemoved(index[id])
  /\ index' = Reindexed(id)
  /\ Record(w, id, 0)
  /\ UNCHANGED <<poisoned, query, sub>>

\* Prune the subscribers that went away, send the patch to the others.
Broadcast(w) ==
  /\ unsent[w] # NoPatch
  /\ unsent' = [unsent EXCEPT ![w] = NoPatch]
  /\ sub' = [s \in Subscriber |->
               CASE sub[s].phase = "live" -> [sub[s] EXCEPT !.patches = Append(@, unsent[w])]
                 [] sub[s].phase = "copied" -> [sub[s] EXCEPT !.raced = TRUE]
                 [] OTHER -> sub[s]]
  /\ UNCHANGED <<store, query>>
--------------------------------------------------------------------------------
\* The order of a page: positions by identity, or as they lie in the vector.
Order(rs, sorted) ==
  IF sorted THEN SetToSortSeq(DOMAIN rs, LAMBDA i, j : rs[i].id < rs[j].id)
  ELSE SetToSortSeq(DOMAIN rs, LAMBDA i, j : i < j)

\* The positions of the rows a query matches, in its order.
Matching(rs, sorted, shown) == SelectSeq(Order(rs, sorted), LAMBDA i : rs[i].id \in shown)

\* The part [start, end) of a sequence, clamped to its length.
WindowOf(s, w) ==
  LET start == IF w.start < Len(s) THEN w.start ELSE Len(s)
      end   == IF w.end < Len(s) THEN w.end ELSE Len(s)
  IN SubSeq(s, start + 1, end)

\* `let revision = self.revision()`, no lock held.
BeginQuery(r) ==
  /\ query[r].phase \in {"none", "page"}
  /\ query' = [query EXCEPT ![r] = [phase |-> "sort", rev |-> revision]]
  /\ UNCHANGED <<store, unsent, sub>>

\* First locked section: sort and filter an index permutation, and fix the window.
SortRows(r, sorted, shown, w) ==
  /\ query[r].phase = "sort"
  /\ ~poisoned
  /\ LET order == Matching(rows, sorted, shown)
     IN query' = [query EXCEPT ![r] =
          [phase |-> "clone", rev |-> query[r].rev, total |-> Len(order),
           picks |-> WindowOf(order, w), asked |-> <<sorted, shown, w>>]]
  /\ UNCHANGED <<store, unsent, sub>>

\* Defect: the page is stamped with the revision of the second section.
CloneRows_LateRevision(r) ==
  /\ query[r].phase = "clone"
  /\ ~poisoned
  /\ \A k \in DOMAIN query[r].picks : query[r].picks[k] \in DOMAIN rows
  /\ query' = [query EXCEPT ![r] =
       [phase |-> "page", rev |-> revision, total |-> query[r].total,
        page  |-> [k \in DOMAIN query[r].picks |-> rows[query[r].picks[k]]],
        asked |-> query[r].asked]]
  /\ UNCHANGED <<store, unsent, sub>>

\* Second locked section: clone the rows that are now at those positions.
CloneRows(r) ==
  /\ query[r].phase = "clone"
  /\ ~poisoned
  /\ \A k \in DOMAIN query[r].picks : query[r].picks[k] \in DOMAIN rows
  /\ query' = [query EXCEPT ![r] =
       [phase |-> "page", rev |-> query[r].rev, total |-> query[r].total,
        page  |-> [k \in DOMAIN query[r].picks |-> rows[query[r].picks[k]]],
        asked |-> query[r].asked]]
  /\ UNCHANGED <<store, unsent, sub>>

\* A position beyond the end panics with the lock held.
ClonePanics(r) ==
  /\ query[r].phase = "clone"
  /\ ~poisoned
  /\ \E k \in DOMAIN query[r].picks : query[r].picks[k] \notin DOMAIN rows
  /\ query' = [query EXCEPT ![r] = [phase |-> "panic"]]
  /\ poisoned' = TRUE
  /\ UNCHANGED <<rows, index, revision, history, past, unsent, sub>>
--------------------------------------------------------------------------------
\* The elements at some positions of a sequence, in their order.
At(s, positions) ==
  [n \in 1 .. Cardinality(positions) |->
     s[CHOOSE k \in positions : Cardinality({j \in positions : j <= k}) = n]]

\* Defect: the patch of the held revision's successor is skipped (`>` on from + 1).
Newer_OffByOne(from) == At(history, {k \in DOMAIN history : history[k].rev > from + 1})

\* The patches of a history filtered by `rev > from`.
Newer(from) == At(history, {k \in DOMAIN history : history[k].rev > from})

\* subscribe, first half: copy the patches after the revision the consumer holds.
CopyHistory(s, from) ==
  /\ sub[s].phase = "none"
  /\ ~poisoned
  /\ sub' = [sub EXCEPT ![s] =
       [phase |-> "copied", from |-> from, patches |-> Newer(from), raced |-> FALSE,
        complete |-> from + Len(history) >= revision]]
  /\ UNCHANGED <<store, unsent, query>>

\* subscribe, second half: attach to the live patches.
Attach(s) ==
  /\ sub[s].phase = "copied"
  /\ sub' = [sub EXCEPT ![s].phase = "live"]
  /\ UNCHANGED <<store, unsent, query>>

Leave(s) ==
  /\ sub[s].phase = "live"
  /\ sub' = [sub EXCEPT ![s].phase = "gone"]
  /\ UNCHANGED <<store, unsent, query>>

Next ==
  \/ \E w \in Writer :
       \/ \E id \in Ids : UpsertPresent(w, id) \/ UpsertNew(w, id) \/ RemoveRow(w, id)
       \/ Broadcast(w)
  \/ \E r \in Reader :
       \/ BeginQuery(r)
       \/ \E sorted \in BOOLEAN, shown \in SUBSET Ids, w \in Windows :
            SortRows(r, sorted, shown, w)
       \/ CloneRows(r) \/ ClonePanics(r)
  \/ \E s \in Subscriber :
       \/ \E from \in 0 .. revision : CopyHistory(s, from)
       \/ Attach(s) \/ Leave(s)

Spec == Init /\ [][Next]_vars
--------------------------------------------------------------------------------
\* swap_remove moves a row without telling the index: whatever sequence of upserts and
\* removes, the index names every row's position and nothing else.
IndexAgrees ==
  /\ \A i \in DOMAIN rows : index[rows[i].id] = i
  /\ \A id \in Ids : index[id] # 0 => rows[index[id]].id = id

\* What every other operation relies on: a bounded history, and an index in step with the
\* rows, after any sequence of upserts and removes.
PlaneAgrees == TypeOK /\ IndexAgrees

\* From any revision the bounded history still reaches back to, replaying its later
\* patches rebuilds the plane as it is, removals included.
HistoryReplays ==
  \A r \in (revision - Len(history)) .. revision :
    Replayed(past[r + 1], Newer(r)) = Contents

\* A page is the window the query asked for, whole and in order, whenever no write
\* happened while it was built: the revision on it is then still the plane's.
PageExactWhenCurrent ==
  \A r \in Reader :
    (query[r].phase = "page" /\ query[r].rev = revision) =>
      LET match == Matching(rows, query[r].asked[1], query[r].asked[2])
          picks == WindowOf(match, query[r].asked[3])
      IN /\ query[r].total = Len(match)
         /\ query[r].page = [k \in DOMAIN picks |-> rows[picks[k]]]

Quiet == \A w \in Writer : unsent[w] = NoPatch

\* A subscriber that held a revision the history reached back to, and that no broadcast
\* overtook while it attached, follows the plane: its patches, duplicates included,
\* rebuild the rows once everything recorded is sent.
SubscriberFollows ==
  \A s \in Subscriber :
    (sub[s].phase = "live" /\ sub[s].complete /\ ~sub[s].raced /\ Quiet) =>
      Replayed(past[sub[s].from + 1], sub[s].patches) = Contents

\* mem_plane.rs:201-203: "a consumer holding an old revision never misses the deltas in
\* between".  The history still reaches back to the revision it holds.
MissesNoDelta ==
  \A s \in Subscriber :
    (sub[s].phase = "live" /\ sub[s].complete /\ Quiet) =>
      Replayed(past[sub[s].from + 1], sub[s].patches) = Contents

\* mem_plane.rs:47: the "cap bounds memory, not correctness".  A subscription from a
\* revision older than the history would still rebuild the rows.
CapKeepsCorrectness ==
  \A s \in Subscriber :
    (sub[s].phase = "live" /\ ~sub[s].raced /\ Quiet) =>
      Replayed(past[sub[s].from + 1], sub[s].patches) = Contents

\* mem_plane.rs:7-8: "A `query` filters, sorts, and windows the rows into a bounded `Page`".
\* Every row of a page would match the filter, and come in the order asked for.
PageMatchesQuery ==
  \A r \in Reader :
    query[r].phase = "page" =>
      LET page == query[r].page
      IN /\ \A k \in DOMAIN page : page[k].id \in query[r].asked[2]
         /\ query[r].asked[1] =>
              \A j, k \in DOMAIN page : j < k => page[j].id < page[k].id

\* mem_plane.rs:88, 187: `.expect("mem plane poisoned")` states that no thread panics while
\* it holds the rows.
NeverPoisoned == ~poisoned
================================================================================
