------------------------------ MODULE WatchRing ------------------------------
(***************************************************************************)
(* The watch ring of kaptein-core (src/watchring.rs): a bounded buffer of  *)
(* change records, filled from a list (watch_into_ring, snapshot_into_ring *)
(* record what exists as Added) and then, by watch_into_ring only, from a  *)
(* watch of that list's revision.  A record is the event's name and the    *)
(* object; the wall-clock time it bears decides nothing and is left out.   *)
(*                                                                         *)
(* `kaptein watch` makes the ring as large as the number of records it     *)
(* asks for, the landing view takes 50 of 50; the module lets both vary.   *)
(***************************************************************************)
EXTENDS ApiServer, FiniteSets

CONSTANTS
  Capacities,  \* the capacities explored, before `capacity.max(1)`
  Limits,      \* the values of max_events explored
  MaxQuiet     \* bound on bookmarks and error events

ASSUME RingAssumption ==
  /\ Capacities \subseteq Nat
  /\ Limits \subseteq Nat
  /\ MaxQuiet \in Nat

VARIABLES
  mode,        \* which of the two functions runs: "watch" or "snapshot"
  capacity,    \* the ring's capacity
  max,         \* max_events
  ring,        \* the records held, oldest first
  pushed,      \* the count the function returns
  pc,          \* where the function is
  rv,          \* the list's revision, 0 before the list
  items,       \* the list's items not yet pushed
  cursor,      \* revision the stream has delivered up to
  quiet,       \* bookmarks and error events delivered so far
  seen         \* history: every record pushed

call == <<mode, capacity, max>>
vars == <<etcd, oldest, mode, capacity, max, ring, pushed, pc, rv, items, cursor,
          quiet, seen>>
--------------------------------------------------------------------------------
Record == [event : {"Added", "Modified", "Deleted"}, object : Object]
Pc     == {"list", "baseline", "connect", "watch", "done", "failed"}

Larger(a, b) == IF a >= b THEN a ELSE b

TypeOK ==
  /\ ApiTypeOK
  /\ mode     \in {"watch", "snapshot"}
  /\ capacity \in Nat \ {0}
  /\ max      \in Nat
  /\ ring     \in Seq(Record)
  /\ seen     \in Seq(Record)
  /\ pushed   = Len(seen)
  /\ pc       \in Pc
  /\ rv       \in 0 .. Rev
  /\ items    \in SUBSET Object
  /\ cursor   \in 0 .. Rev
  /\ quiet    \in 0 .. MaxQuiet
  /\ (pc \in {"connect", "watch"} => rv >= 1 /\ items = {} /\ mode = "watch")

Init ==
  /\ ApiInit
  /\ mode     \in {"watch", "snapshot"}
  /\ capacity \in {Larger(c, 1) : c \in Capacities}
  /\ max      \in Limits
  /\ ring     = <<>>
  /\ pushed   = 0
  /\ pc       = "list"
  /\ rv       = 0
  /\ items    = {}
  /\ cursor   = 0
  /\ quiet    = 0
  /\ seen     = <<>>
--------------------------------------------------------------------------------
\* Defect: a full ring drops the record it is given.
Push_DropsNewest(record) ==
  /\ ring' = IF Len(ring) >= capacity THEN ring ELSE Append(ring, record)
  /\ seen' = Append(seen, record)
  /\ pushed' = pushed + 1

\* push: at capacity, the oldest record makes room.
Push(record) ==
  /\ ring' = Append(IF Len(ring) >= capacity THEN Tail(ring) ELSE ring, record)
  /\ seen' = Append(seen, record)
  /\ pushed' = pushed + 1

Observed(event, o) == [event |-> event, object |-> o]

\* The event that revision r of the collection sends.
EventOf(r) ==
  LET o == Changed(r)
  IN  Observed(IF etcd[r - 1][o] = Absent THEN "Added"
               ELSE IF etcd[r][o] = Absent THEN "Deleted" ELSE "Modified", o)

\* The list: one call, the newest revision.
List ==
  /\ pc = "list"
  /\ rv' = Rev
  /\ items' = Present(Latest)
  /\ pc' = "baseline"
  /\ UNCHANGED <<api, call, ring, pushed, cursor, quiet, seen>>

\* One item of the list; max_events is looked at after it has been pushed.
PushItem ==
  /\ pc = "baseline"
  /\ \E o \in items :
       /\ Push(Observed("Added", o))
       /\ items' = IF pushed + 1 >= max THEN {} ELSE items \ {o}
  /\ pc' = IF pushed + 1 >= max THEN "done" ELSE pc
  /\ UNCHANGED <<api, call, rv, cursor, quiet>>

\* Nothing left of the list.
BaselineDone ==
  /\ pc = "baseline"
  /\ items = {}
  /\ pc' = IF mode = "watch" THEN "connect" ELSE "done"
  /\ UNCHANGED <<api, call, ring, pushed, rv, items, cursor, quiet, seen>>

\* Defect: the stream starts at the newest revision, not at the list's.
Connect_Now ==
  /\ pc = "connect"
  /\ pc' = "watch"
  /\ cursor' = Rev
  /\ UNCHANGED <<api, call, ring, pushed, rv, items, quiet, seen>>

\* The watch call opens a stream at the list's revision.
Connect ==
  /\ pc = "connect"
  /\ pc' = "watch"
  /\ cursor' = rv
  /\ UNCHANGED <<api, call, ring, pushed, rv, items, quiet, seen>>

\* The list or the watch call fails: the function returns the error.
CallFails ==
  /\ pc \in {"list", "connect"}
  /\ pc' = "failed"
  /\ UNCHANGED <<api, call, ring, pushed, rv, items, cursor, quiet, seen>>

\* max_events is looked at after every event of the stream.
Stops(count) == IF count >= max THEN "done" ELSE "watch"

\* The next change; a stream whose revision is compacted sends none.
Deliver ==
  /\ pc = "watch"
  /\ cursor < Rev
  /\ cursor >= oldest
  /\ Push(EventOf(cursor + 1))
  /\ cursor' = cursor + 1
  /\ pc' = Stops(pushed + 1)
  /\ UNCHANGED <<api, call, rv, items, quiet>>

\* A bookmark or an error event: no record, but the limit is looked at.
Quiet ==
  /\ pc = "watch"
  /\ quiet < MaxQuiet
  /\ quiet' = quiet + 1
  /\ pc' = Stops(pushed)
  /\ UNCHANGED <<api, call, ring, pushed, rv, items, cursor, seen>>

\* The stream ends or breaks: either way the function returns its count.
StreamEnds ==
  /\ pc = "watch"
  /\ pc' = "done"
  /\ UNCHANGED <<api, call, ring, pushed, rv, items, cursor, quiet, seen>>

Cluster == ApiNext /\ UNCHANGED <<call, ring, pushed, pc, rv, items, cursor, quiet, seen>>

Next ==
  \/ List \/ PushItem \/ BaselineDone \/ Connect \/ CallFails
  \/ Deliver \/ Quiet \/ StreamEnds \/ Cluster

Spec == Init /\ [][Next]_vars
--------------------------------------------------------------------------------
\* The ring holds the most recent records, as many as it has room for: what a landing
\* view reads from it is an unbroken end of what was pushed (push, watchring.rs).
RingIsRecent ==
  ring = SubSeq(seen, Larger(Len(seen) - capacity, 0) + 1, Len(seen))

\* What came over the stream is every change since the list, in order: no change
\* between the list call and the watch call is missing or recorded twice.
Streamed == SubSeq(seen, Len(seen) - (cursor - rv) + 1, Len(seen))

RecordsAreTheChanges ==
  pc = "watch" =>
    /\ cursor - rv <= Len(seen)
    /\ \A k \in 1 .. (cursor - rv) :
         /\ Streamed[k].object = Changed(rv + k)
         /\ (Streamed[k].event = "Deleted") <=> (etcd[rv + k][Streamed[k].object] = Absent)

\* A caller that gives the ring room for max_events records, as both commands do, loses
\* none of them, although one record may be pushed when none was asked for.
CallersLoseNothing == capacity >= Larger(max, 1) => ring = seen

\* What a reader of the ring relies on, at any capacity and limit: an unbroken end of what
\* was recorded, and all of it when there is room for what was asked.
RingIsWhole == TypeOK /\ RingIsRecent /\ CallersLoseNothing
================================================================================
