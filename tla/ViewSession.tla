------------------------------ MODULE ViewSession ------------------------------
(***************************************************************************)
(* A TUI session's views and their watch slots: rebuild_plane of           *)
(* kaptein-tui (src/lib.rs), the life of the watch task it spawns          *)
(* (watch_loop and WatchSlotGuard of kaptein-integration), and the         *)
(* InformerManager they share.                                             *)
(*                                                                         *)
(* The session shows one view at a time.  Switching aborts the old task    *)
(* without waiting for it: the runtime drops it, and with it the guard     *)
(* that releases its slot, some time later.  What a task reads from the    *)
(* API is LivePlane's subject; here a task only holds a slot or a stream.  *)
(***************************************************************************)
EXTENDS InformerManager

CONSTANTS
  Task,        \* the watch tasks of the session, in no order: bounds the rebuilds
  Tui          \* the thread of the event loop

\* The manager's callers are the tasks and the event loop, its keys the views the operator
\* switches between; "none" names neither a view nor a task.
ASSUME SessionAssumption ==
  /\ Caller = Task \union {Tui}
  /\ Tui \notin Task
  /\ "none" \notin WatchKey \union Task

VARIABLES
  shown,       \* the view on screen
  handle,      \* the JoinHandle held in `watch`, or None
  key,         \* the view each task serves
  state,       \* where each task is
  aborted      \* tasks whose abort() has been called

tasks       == <<handle, key, state, aborted>>
sessionVars == <<vars, shown, tasks>>
--------------------------------------------------------------------------------
None      == "none"
TaskState == {"unborn", "spawned", "registering", "streaming", "dropped"}

SessionTypeOK ==
  /\ TypeOK
  /\ shown   \in WatchKey
  /\ handle  \in Task \union {None}
  /\ key     \in [Task -> WatchKey \union {None}]
  /\ state   \in [Task -> TaskState]
  /\ aborted \in SUBSET Task
  /\ handle \notin aborted
  /\ \A t \in Task : key[t] = None <=> state[t] = "unborn"

\* The event loop starts with a seeded plane and one spawned task.  The policy comes from
\* the config file, which clamps both knobs to at least one.
SessionInit ==
  /\ Init
  /\ policy.max_watches >= 1
  /\ policy.idle_ttl >= 1
  /\ shown \in WatchKey
  /\ handle \in Task
  /\ key = [t \in Task |-> IF t = handle THEN shown ELSE None]
  /\ state = [t \in Task |-> IF t = handle THEN "spawned" ELSE "unborn"]
  /\ aborted = {}
--------------------------------------------------------------------------------
\* rebuild_plane up to its await: abort the old task and turn to the new view, which may
\* be the same one (Ctrl-R).
SwitchView(k) ==
  /\ handle # None
  /\ call[Tui] = NoCall
  /\ \E t \in Task : state[t] = "unborn"
  /\ shown'   = k
  /\ aborted' = aborted \union {handle}
  /\ handle'  = None
  /\ UNCHANGED <<vars, key, state>>

\* The rest of rebuild_plane, once the new plane is seeded: spawn its watch task.
SpawnWatch(t) ==
  /\ handle = None
  /\ state[t] = "unborn"
  /\ handle' = t
  /\ key'    = [key EXCEPT ![t] = shown]
  /\ state'  = [state EXCEPT ![t] = "spawned"]
  /\ UNCHANGED <<vars, shown, aborted>>

\* The query on screen refreshes the view's recency, if it holds a slot.
BeginQuery ==
  /\ handle # None
  /\ ReadClock(Tui, "touch", shown)
  /\ UNCHANGED <<shown, tasks>>

EndQuery == Touch(Tui) /\ UNCHANGED <<shown, tasks>>

\* The first poll of a task: make the guard, then call register().
StartTask(t) ==
  /\ state[t] = "spawned"
  /\ ReadClock(t, "register", key[t])
  /\ state' = [state EXCEPT ![t] = "registering"]
  /\ UNCHANGED <<shown, handle, key, aborted>>

\* register() returns, and the task goes on to stream.  It is never Denied: that takes a
\* zero cap, which the configuration rules out.
RegisterTask(t) ==
  /\ state[t] = "registering"
  /\ RegisterLive(t) \/ RegisterNew(t)
  /\ state' = [state EXCEPT ![t] = "streaming"]
  /\ UNCHANGED <<shown, handle, key, aborted>>

\* Defect: the guard is forgotten and a dropped task keeps its slot.
DropTask_Leaks(t) ==
  /\ t \in aborted
  /\ state[t] = "streaming"
  /\ state' = [state EXCEPT ![t] = "dropped"]
  /\ UNCHANGED <<vars, shown, handle, key, aborted>>

\* The runtime drops an aborted task at one of its awaits; WatchSlotGuard::drop releases
\* the slot of its key.
DropTask(t) ==
  /\ t \in aborted
  /\ state[t] = "streaming"
  /\ Release(t, key[t])
  /\ state' = [state EXCEPT ![t] = "dropped"]
  /\ UNCHANGED <<shown, handle, key, aborted>>

\* A task that was aborted before its first poll never made a guard.
DropUnstarted(t) ==
  /\ t \in aborted
  /\ state[t] = "spawned"
  /\ state' = [state EXCEPT ![t] = "dropped"]
  /\ UNCHANGED <<vars, shown, handle, key, aborted>>

Clock == Tick /\ UNCHANGED <<shown, tasks>>

SessionNext ==
  \/ \E k \in WatchKey : SwitchView(k)
  \/ \E t \in Task : \/ SpawnWatch(t)
                     \/ StartTask(t) \/ RegisterTask(t)
                     \/ DropTask(t) \/ DropUnstarted(t)
  \/ BeginQuery \/ EndQuery
  \/ Clock

SessionSpec == SessionInit /\ [][SessionNext]_sessionVars

\* The runtime polls every task that can run and drops every task that was aborted.
Fairness ==
  \A t \in Task :
    WF_sessionVars(StartTask(t) \/ RegisterTask(t) \/ DropTask(t) \/ DropUnstarted(t))

FairSessionSpec == SessionSpec /\ Fairness
--------------------------------------------------------------------------------
Streaming(t) == state[t] = "streaming"

\* No slot outlives the tasks that hold it (finding N): the key of every live slot belongs
\* to a task that has not been dropped, whatever order aborts, evictions and drops take.
NoSlotLeak == \A k \in Live(watches) : \E t \in Task : Streaming(t) /\ key[t] = k

\* The count of the shared manager is made of live tasks: the types, and no leaked slot.
SlotsAreHeld == SessionTypeOK /\ NoSlotLeak

\* Every slot held for a view the operator left is given back, or taken over by another
\* task of the same view.
LeftViewsRelease ==
  \A k \in WatchKey :
    [](k \in Live(watches) /\ (\A t \in Task : key[t] = k => t \in aborted) =>
       <>(k \notin Live(watches) \/ \E t \in Task \ aborted : key[t] = k))

\* lib.rs:569-572 (kaptein-integration): the guard "keeps the shared manager's count accurate
\* across view switches".  The view on screen would then hold its slot while it streams.
ShownViewHoldsSlot ==
  \A t \in Task : (Streaming(t) /\ t \notin aborted) => key[t] \in Live(watches)

\* informer.rs:11-13: "a hard cap on concurrent watches".
StreamsWithinCap == Cardinality({t \in Task : Streaming(t)}) <= policy.max_watches
================================================================================
