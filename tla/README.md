# Kaptein in TLA+

Kaptein is a Kubernetes terminal client in Rust: a read-mostly TUI with live tables, a CLI
with governed writes, and an MCP server. This directory holds TLA+ models of its concurrent
and failure-handling parts and of the computations they show, the TLC configurations that
check them, and TLAPS proofs of the properties that matter most. Paths below are relative to the repository (`crates/...`).

## 1. Inventory

### Layers

`kaptein-core` talks to Kubernetes (lists, watches, writes, port-forwards) and owns the local
state files. `kaptein-viewmodel` is the render contract: tables, pages, the in-memory data
plane. `kaptein-integration` joins the two in `LivePlane`, one live view. `kaptein-tui` draws
pages of a `LivePlane` and rebuilds it on navigation. `kaptein-cli` hosts the TUI, the
one-shot commands, and the MCP server. `main` runs on tokio's multi-threaded runtime, so
tasks of one session do run in parallel.

### Components

| Component | State it keeps | Operations | Talks to |
|---|---|---|---|
| Informer manager (`core/informer.rs`) | policy; last-touched instant of every watched key, under one mutex | `register`, `touch`, `release`, `evict_idle` | shared by all views of a session |
| Live view (`integration/lib.rs`, `LivePlane`) | a MemPlane, the watch task, its list revision, ids, backoff | seed, `watch_loop`, `relist_and_reconcile`, `query`, `subscribe` | API server, manager, MemPlane |
| In-memory data plane (`viewmodel/mem_plane.rs`) | rows, index, revision, bounded patch history (one mutex); live channels (another) | `upsert`, `remove`, `query`, `subscribe` | written by a watch task, read by the TUI |
| Informer store (`core/store.rs`) | items and revision under one mutex | `run_informer`, `apply`, seed, snapshot | API server |
| View session (`tui/lib.rs` event loop) | shown view, watch handle, table position, filters, history of views | key handlers, `rebuild_plane`, `refresh` | LivePlane, manager |
| TUI table window (`tui/lib.rs`) | rows of the window, selection, scroll, total, last revision | navigation, jump, palette, refresh | LivePlane queries |
| Port-forward (`core/portforward.rs`) | listener, pod stream, cancel channel; a JSON file of named forwards | `forward`, `start_named_forward`, `upsert`, `remove` | API server, local clients, other processes |
| Watch ring (`core/watchring.rs`) | a ring of change records, its capacity | `push`, `watch_into_ring`, `snapshot_into_ring` | API server |
| Governed writes (`cli/main.rs`, `core/guardrails.rs`, `core/config.rs`) | configuration file, kube context, audit file | gate, write, audit, validate, explain | API server, other processes |
| MCP server (`cli/mcp.rs`, `core/discovery.rs`) | policy, audit file | start-up, `call_tool`: scope, governance, preflight, dry run, write, audit | agents, API server |
| Authorization and actions (`core/auth.rs`, `viewmodel/semantic.rs`) | none | preflight, `can`, greyed actions, contract versions | API server |
| Workload and node actions (`core/workloads.rs`, `nodes.rs`, ...) | none | scale, restart, drain, delete, exec | API server |
| Edit and apply (`cli/edit.rs`, `core/apply.rs`) | one temporary manifest per object name | fetch, editor, dry run, diff | API server, the operator's editor, other sessions |
| Extensions (`core/extension.rs`, `config.rs`) | a tree of manifests and lenses; the list of disabled ids | discover, validate, list, enable, disable | the file system, the TUI's kinds |
| Tables and lenses (`viewmodel/table.rs`, `lens.rs`) | none | sort, filter, window; validate, status, health, rows | data plane, `get`, redaction |
| Redaction (`core/redact.rs`) | none | `redact_object`, `redact_line` | every view of an object or a log |
| Diffs, fuzzy search (`viewmodel/diff.rs`, `fuzzy.rs`) | none | edit script, hunks; scores, ranks | edit, apply; jump mode, palette |
| Diagnostics and overviews (`core/diagnostics.rs`, `events.rs`, `overview.rs`, `moat.rs`) | none | diagnose, recent events, landing view, blast radius | API server, CLI, MCP |
| Describe and logs (`core/describe.rs`, `viewmodel/logparse.rs`) | none | read, filter, mask, tabulate | API server |
| External tools, pod list, completion, schema, sinks | none | subprocesses, one list call, text | |

### What is hard, and what would make each part correct

- **Manager.** The clock is read before the mutex is taken, the cap is checked, enforced and
  consumed by one call. Correct: never more keys than the cap; admitting a key evicts idle
  ones first, then only one, the coldest, and nothing while there is room.
- **Live view.** Lists come in pages of one revision that may expire between pages; events
  are lost whenever the stream ends; objects deleted in an outage send no event. Correct: a
  view that follows a stream shows the collection at the stream's revision; no row goes back
  to an older version; the view converges when the cluster and the network calm down.
- **Data plane.** Two mutexes and no operation holds both; a query lets go of its lock
  between finding positions and reading rows; subscriptions copy history and attach in two
  steps; the history is bounded. Correct: index and rows agree, pages match their query,
  a subscriber's patches rebuild the rows.
- **Informer store.** Seeds once, then reconnects from a revision of its choosing. Correct:
  once caught up, the store is the cluster, and every change is visible in the revision.
- **View session.** A rebuild aborts a task that is dropped some time later, on any thread,
  while its successor for the same key may already be registered. Correct: slots are neither
  leaked nor lost by the view on screen.
- **Port-forward.** Streams die in any phase, the pod goes and returns, clients come and go,
  a cancellation may arrive anywhere. Correct: bytes reach the connection they belong to, a
  dropped stream is replaced, a cancelled forward stops, every connection gets its turn.
- **Table window.** Selection and scroll are absolute positions, the rows a window fetched
  earlier; deltas, sorts, resizes, fuzzy jump and rebuilds move them separately. Correct: a key
  acts on the row drawn highlighted; a change the table does not show is noticed.
- **Governed writes, MCP, local files.** Checks against a context that may have switched; steps
  that fail half-way; files rewritten in place by several processes. Correct: no dangerous
  cluster is changed without a reason, the audit log tells the truth and is complete, updates
  of the files are neither lost nor mixed.
- **Watch ring.** Filled from a list, then from a watch of that list's revision, up to a limit
  that is looked at after each push. Correct: the records held are an unbroken end of those
  pushed, those of the stream are every change since the list, each once.
- **The operator's files.** `kaptein edit` names its temporary manifest for the object's name
  alone; `extension enable` and `disable` read, change and rewrite `config.toml`, from which
  every other process reads the gate. There is no lock and a process may die anywhere.
  Correct: an edit previews its own text and takes its manifest away again wherever it gets that
  far; no interleaving of toggles loosens the gate.
- **Computations.** Ties, short rows, absent fields and values of other types in tables and
  lenses; secrets at any depth, below any column; a scan that makes hunks and one that never
  goes back to match; several causes at once in a diagnosis; two event APIs that tell the same
  event; three ways to read a log; patterns that do not compile. Correct: each agrees with what
  it is for, said without its algorithm.

## 2. Modules

```
ApiServer  (external: etcd revisions, consistent lists, watches, compaction)
  |-- LiveMirror      abstract: what a live view promises
  |-- LivePlane       one live view           implements LiveMirror
  |-- InformerStore   run_informer
  `-- WatchRing       watch_into_ring, snapshot_into_ring
InformerManager       the slot table
  `-- ViewSession     TUI rebuilds + watch tasks, around the manager's operations
MemPlane              rows, history, queries, subscriptions
PortForward           forward and reconnect_loop
TuiTable              the table window of the TUI over a live plane
Governance            commands and tool calls over contexts, files and the audit log
OperatorFiles         edit sessions and toggles of extensions over the shared files
Navigation            keys that choose kinds, namespaces and sort columns
  |-- Browser         what `[` and `]` promise; Navigation implements it
Policy                what is denied, gated or warned of: reviews, guardrails, start of the MCP server
Algorithms            one computation at a time, over any of its inputs:
  |-- JsonValue (external: serde_json) -- TableQuery -- Lens -- LensDiscovery
  |-- Redaction, PodLogs                      what may be shown
  |-- UnifiedDiff, FuzzyJump                  previews and search
  |-- Diagnostics, Activity, BlastRadius      findings and reports
  `-- Policy                                  its calls, and the preview of a drain
*_proofs              theorems and their proofs
MC_*                  model-checking instances
```

Each module parameterises what the code leaves open (identities, threads, caps, page sizes)
as CONSTANTS with named assumptions. Operators whose names carry a suffix after an underscore
(`Wake_NoRelist`) and are headed *Defect* are deliberate bugs: replacing the definition they
are named after by one of them makes TLC violate a property, which shows that the property
depends on that line of code.

### InformerManager

`watches` maps every key to its last-touched instant or `NotLive`. Each public method takes
one mutex, so its locked part is one action; `register` and `touch` read `Instant::now()`
before locking, which is the action `ReadClock` before `RegisterLive`, `RegisterNew` or
`Touch`. `MakeRoom` is the eviction of `register`: idle keys, then one coldest (any of them
when several tie, as `min_by_key` over a `HashMap` picks by iteration order). Bounds: the
cap, the TTL and the clock (`MaxCap`, `MaxTtl`, `MaxTime`).

### ApiServer, LiveMirror, LivePlane

`etcd[r]` is the collection at resourceVersion `r`; an object's version is the revision of
its last write, which stands for all its content. `LivePlane` is one view from the empty
plane on: `ListPage`, `Upsert`, `PageDone`, `Drop` and `Reconciled` are
`relist_and_reconcile` (and `seed`, in mode "seed"); `Register` is the slot registration
after the seed; `Connect`, `Deliver`, `Notice`, `StreamEnd`, `StreamError` and `Wake` are
`watch_loop`; every `await` of the code is a boundary between actions. The rows are written
one at a time, as the code does, so a reader between two actions sees any prefix. `asOf` is
a history variable: the revision each row's content was read at. `LiveMirror` is the abstract
specification: a row shows what its object was at some revision and never goes back.

### InformerStore

`run_informer` with `max_events` unbounded or `n`: the paged metadata seed, `watch_from`
and `watch_from_until` with their different retry rules, and `apply`, whole, as one action.
`bare` are the keys stored from metadata alone. `jumped` records that `current_rv` was
fetched anew after a failed watch call, which is where the store loses changes.

### ViewSession

The life of watch tasks across view rebuilds: `SwitchView` aborts the old task, `SpawnWatch`
starts the new one, `DropTask` is the runtime dropping an aborted task at one of its awaits
and its `WatchSlotGuard` calling `release`. The module extends the manager's, and its actions
call the manager's operations; `SessionAssumption` makes the tasks and the TUI thread its
callers, so all its interleavings are there, and its policy is what
`config.rs` allows (both knobs at least 1, so `Denied` cannot happen).

### MemPlane

One action per locked section: `UpsertPresent`, `UpsertNew` and `RemoveRow` (with
`swap_remove` and the repair of the index) under `state`, then `Broadcast` under `live`; a
query is `BeginQuery` (the revision), `SortRows` (positions of the window), `CloneRows` or
`ClonePanics`; a subscription is `CopyHistory`, then `Attach`. A row's content is the
revision that wrote it. `Matching` is the filter of a query; `Replayed` says of patches in a row
what they leave of each row: what the last patch about it says. `past` is a history variable with
the contents after each revision.

### PortForward

`kind = "plain"` is `forward` (a fresh stream per accepted connection), `kind = "named"` is
`reconnect_loop`. A connection carries one request and its answer, each known by the client
it belongs to: that is enough to see bytes of one connection reach another. The pod, the
streams' deaths and the clients are the environment.

### TuiTable

One iteration of `run_event_loop` is `LoopIdle` or `LoopChanged` and `Refresh`, then `Draw`,
then one key. Each query of the plane is an action of its own where a delta may come between
it and what is computed with it (`NavigateQuery` and `NavigateRevision`, `AcceptJump` and
`AcceptWindow`, `PaletteNavigate` and `PaletteQuery`). A row is its identity, which is also its
place in the sort order; `Name` is its name cell, by which Enter looks a jump's choice up, and
`KindOf` the kind of a view. What a key acts on is named by the kind on screen and the row
(`Target`): Tab in jump mode changes the kind and keeps the jump list, so that the highlighted
name is then looked up among objects of the new kind (`JumpIsOfOldKind`; `KeyActsOnHighlighted`
asks for the name only there, `JumpActsOnItsKind` for the object, and is violated).
`fetched` is a history variable (what the plane held when the window was fetched) and `raced`
another: the window may be older than `lastRevision`. Quitting, help and the action list change
nothing in the table; the `[` `]` stacks are in `Navigation`, and here going back is a `Navigate`.

### Governance

Each member of `Procs` is one command of the CLI (`Start`) or one tool call of the MCP server
(`Receive`), and runs to its end once. The gate is two reads, of the configuration
(`ReadPolicy`) and of the kubeconfig's current context (`Gate`), both after the client was
built from that same kubeconfig (`Start`); the audit record reads the context once more
(`Reply`). What an API call does is `Accept`, `Refuse` and `Lost`: it may take effect and its
answer still not arrive. An update of a local file is `ReadFile`, `Truncate`, `WriteFile` or
`WriteFails`; an audit record is a line and a line end. A process may be killed between any
two of these, `disk` is ok, full or read-only throughout. `Class` is what the guardrails'
patterns make of each context, given; which patterns those are is not modelled. The writes
differ in what the properties tell apart (dry run on the server, locally, or none; a read
between gate and write); their payloads do not matter. A file is the set of names it holds
(`Name`: forwards and extensions);
an unreadable one counts as the defaults, as in the code. `effects`, `answer`, `switched`,
`clean` and `expected` are history variables.

### WatchRing

`List`, `PushItem`, `BaselineDone`, `Connect`, `Deliver`, `Quiet` and `StreamEnds` are one call
of `watch_into_ring`, or of `snapshot_into_ring`, which ends at `BaselineDone`; `CallFails` is
its `?`. Both callers give the ring room for what they ask for; here capacity and limit vary
on their own. `seen` is a history variable with every record pushed.

### OperatorFiles

An edit is `Fetch` (the live object), `WriteTemp`, the editor (`EditorSaves`, `EditorQuits`,
`EditorFails`), `ReadBack`, `RemoveTemp` and `DryRun`, with the other sessions and the cluster in
between. Every step of them may fail, and several failures leave the manifest on disk, which has
the object's values in the clear: writing it (edit.rs:40, which may leave a part of it), starting
the editor (48-59), reading it back (66-67: what was saved is no UTF-8, for one), a kill, and a
removal that fails, which is ignored (61, 68). `leaked` is true while such a file is there;
`NothingLeftBehind` says that there is no other way, with any number of sessions on the one file,
and that a session that removes the file ends it. A
toggle is `Load`, `Truncate`, `Write`; what is on disk is a config and how many of its sections
are written, so that a truncated file reads as the defaults, or as a part. `leaked`, `raced` and
`intended`, and what an edit remembers of its own work, are history variables. That the server
applies nothing of a dry run is taken for granted: no property speaks of it.

### Navigation

A key is one step: `Tab`, `Namespace` (`n`), `Back` and `Forward` (`[` and `]`), the sort keys
`CycleSort` and `NamedSort`, and the palette's four commands. Each is the whole handler: what is
recorded, the namespaces listed (`RebuildNextNamespace`), the view rebuilt (`Rebuild`). Any error
of either ends the event loop (tui lib.rs:1717-1720), whatever key asked for the list: a kind that
is not installed (a lens over a missing CRD), a list that is forbidden, no answer. That may happen
at every key. One list is refused by every server, that of a namespace of a kind without them
(`~Listable`); `NamespacesOnlyByChoice` says which keys may ask for it, and that `[` and `]` do
not. A kind has two such attributes, `scoped` for what the TUI takes it for and `clustered` for
what it is: the TUI takes a kind that comes from a lens as namespaced when the lens has a
namespace column, whatever the kind is. `streak` is a history variable, `MaxKeys` bounds the keys. `Browser` is one trail and a place in it; the refinement reads the trail off the
stack `back`, the view and the stack `forward` from its top down.

### Policy

One call at a time, over any review, configuration or environment: `CheckAccess` is `kaptein can`
and the greyed actions, `ExplainGate` `config explain` and `validate`, `ServeAgent` the start of
the MCP server with the contract version of a client. `Permits` is what the API server makes of a rule, and the other side of
`GreyedIsRefused`. `Algorithms` extends it by the calls that no theorem is about.

### Algorithms and its modules

The pure modules hold the operators, translated function by function; `Algorithms` has one
action for each entry point (`Look` is a table query, `RenderView` a lens over an object, `Preview`
a diff, ...), which picks inputs and records the answer; `Return` makes room for the next. Data is abstracted to what the code tells apart: a text is its words and its place
in the lexical order, a line of a log what masking makes of it, a pattern the contexts it
matches and whether it compiles. The references of the properties are written from what an
answer is for: subsets of positions for subsequences and common subsequences, a closure for
dependents. An object's kind is "" where the object carries none, as the items of a list of a
built-in kind do: `redact_object` then knows no Secret. `KnownSecrets` are the texts it can tell:
those under sensitive names (`Secrets`), and, of a Secret that says it is one, all its data and
its sensitive annotations (`KindSecrets`). `SecretsStayMasked` is about these;
`NoSecretReachesARow` asks it of all and is violated. The module has no state between calls, hence
no type invariant; the first calls of each kind are enough, every input being among them.
The run checks the properties in eight conjunctions, one for each group of users, with those of
`Policy` and `Navigation`: keys and calls share no state, and `MCNext` takes any call before the
first key only.

## 3. Runs

| Run | Instance | Shows |
|---|---|---|
| `manager` | 3 keys, 2 threads, caps 0..2, TTLs 0..2, clock 0..3 | cap, eviction order, eviction only under pressure |
| `plane` | 2 objects whose names may be reused, pages of 1, 4 revisions, 1 transient fault | `MirrorsCursor`, the implementation of `LiveMirror`, convergence |
| `store` | 2 keys, pages of 1, 4 revisions, budgets 0, 2 and unbounded | replayed streams leave the store current; every change bumps the revision |
| `session` | 2 keys, 3 tasks (the first view and two rebuilds), caps 1..2 | no slot leaks; slots of left views are given back |
| `mem` | 3 rows, 1 writer, 1 reader, 1 subscriber, history of 2, 4 revisions | index, pages of an undisturbed query, history, subscription |
| `forward` | 2 clients, 1 outage of the pod | own answers only, turns, cancellation |
| `forward_reconnect` | as `forward` | **violated**: a dead stream is kept for ever |
| `tui` | 3 views of 2 kinds with no or 3 rows of one name, tables of 1 and 2 lines, 1 delta | keys act on the highlighted row (in a jump list of another kind: on its name); unseen deltas are noticed |
| `governance` | 2 commands or tool calls of 23 forms, 3 contexts, 1 switch, disk ok, full or read-only | gate, records that are true and complete, updates of files kept |
| `ring` | 2 objects, 5 revisions, capacities 0, 2 and 3, limits 0 and 3, 1 quiet event | the ring is the recent end of what was recorded; the stream's records are the changes |
| `files` | 2 processes, 2 objects of one name, 2 extensions, 1 context, 1 revision, 1 save by hand | edits preview their own text, and leave it on disk in the named ways only; toggles add up and never loosen the gate |
| `algorithms` | the inputs of `MC_Algorithms` and of `Policy`; 7 keys over 4 kinds and 2 lists of namespaces; 207,742 states | every computation agrees with what it is for; a browser's trail, the last sort key wins, a list no server has is asked for by named keys only |

The violated run states what a comment of the code says (quoted in the property's comment and
in `PROJECT.json`), and the trace is what the code does instead. Most modules check their
type invariant together with a first safety property (`CapHolds`, `MirrorsCursor`, `FollowsCluster`, `SlotsAreHeld`,
`PlaneAgrees`, `OneClientAtATime`, `WindowIsWatched`, `RecordsAreTrue`, `RingIsWhole`,
`EditsAreOwn`); those of `Navigation` are part of its inductive invariant. `CHECK_DEADLOCK FALSE` stands where a call, a session or a bounded history ends.

Why these bounds. Two threads and three keys are the least with which a call overtakes
another and evicting one key leaves a choice. Two objects in pages of one give a list with a
middle; four revisions leave room for a create, a delete and a recreate within one outage and
one more change after it. Three tasks are two rebuilds: away and back, or Ctrl-R twice. Three rows are
the least in which `swap_remove` moves a row past another; a history of two with four
revisions overflows. The `mem` run's `OneAtATime` constraint keeps a query and a subscription
from being under way together: neither writes what the other reads. Two clients and one
outage let a connection follow another on a stream, and find it dead. Three rows over a table
of one or two lines scroll, and a resize moves the edge; one delta is enough to make rows,
total and revision disagree, and it may come at any point. Two processes are what it takes to
interleave two updates of a file, or a gate with one; a command that is confirmed and one that
is not, with every kind of reason, reaches every branch. A ring of two or three overflows with
five revisions, a limit of three stops it in the list or in the stream, and 0 is the value that
both `max(1)` and the late look at the limit are about. Two sessions over two objects of one
name share a manifest, two toggles of two ids may undo each other, and one context is enough to
be gated or not. Seven keys visit three views, undo two and visit another, with a sort key pressed
twice; of the four kinds two share a gvk and two have no namespaces, one of them unknown to the
TUI, and a namespace that is gone from one of two lists may be the current one. The inputs of
`algorithms` are small lists of every shape its properties tell
apart: ties, absent and foreign values, both orders, secrets above and below a column, texts of
up to three lines, each way for a list to fail. `TypeOK` of every
module also states the relations between control and data that its code relies on.

### Fairness

`LivePlane`: the runtime polls the task and answers arrive (`WF(Task)`), and the server
closes a stream it answered with 410. Faults are bounded, since nothing converges in an
outage without end; writes are bounded by `MaxRev`. `ViewSession`: the runtime polls or drops
every task. `PortForward`: the task is polled and clients do not hold their connection for
ever; for the reconnect run also, strongly, that connects to a pod that is back succeed in
the end and that `select!` is not for ever unlucky, so that its counterexample owes nothing
to bad luck. The tokio runtime and `select!` (which picks a ready branch at random) justify
the task's fairness; the clients' is an assumption about them and matters: a cancelled
forward does wait for the connection being served. The other modules state no liveness.

### Further configurations

These exhibit further differences between comments and code. Each is a configuration above with
the named property in place of its own ones (an action property under `PROPERTY`), and such
constants as are given here; TLC then finds one trace.

| Configuration | Property | What the code does |
|---|---|---|
| `MC_InformerManager` | `DeniedAtCap` | a full table evicts; it does not answer `Denied`, as informer.rs:12-13 says |
| `MC_InformerManager` | `RecencyNeverRegresses` | a late caller moves a recency back: time is read before the lock |
| `MC_InformerStore`, `Budget = {}` | `NeverStale` | a failed watch call fetches `current_rv` anew (store.rs:308) and skips the changes in between, where store.rs:155-156 says it relists "so the store never goes stale" |
| `MC_InformerStore`, `Budget = {2}` | `ReturnsAfterChanges` | bookmarks count as change events |
| `MC_InformerStore`, `Budget = {}` | `StatusAvailable` | an object nobody changes keeps the seed's empty status |
| `MC_InformerStore`, `Budget = {}` | `ReconnectsWithBackoff` | an ended stream is reopened with no pause, after a 410 event for ever |
| `MC_ViewSession`, `SPECIFICATION SessionSpec` | `ShownViewHoldsSlot` | a task dropped late releases the slot of its successor (lib.rs:702 of the integration), whose guard "keeps the shared manager's count accurate" (569-572) |
| `MC_ViewSession`, `SPECIFICATION SessionSpec` | `StreamsWithinCap` | an evicted key's task streams on, beyond the cap |
| `MC_MemPlane`, `Subscriber = {}` | `PageMatchesQuery` | rows move between the two locks of a query (mem_plane.rs:186): a page may hold rows that do not match, or out of order |
| `MC_MemPlane`, `Subscriber = {}` | `NeverPoisoned` | a query panics with the lock held when the rows shrank meanwhile |
| `MC_MemPlane`, `Reader = {}` | `CapKeepsCorrectness` | a subscription older than the history misses patches without notice |
| `MC_MemPlane`, `Reader = {}` | `MissesNoDelta` | a patch between a subscription's copy of the history and its attachment is lost |
| `MC_PortForward`, `LuckyForwardSpec` | `DroppingStops` | dropping the cancel sender does not stop a forward whose connects fail |
| `MC_PortForward`, `ForwardSpec` | `StreamsAreSingleUse` | a named forward serves two connections over one stream, "single-use" in portforward.rs:36 |
| `MC_TuiTable`, `Heights = {2}` | `RowsMatchViewport` | `G` leaves the window one row before the viewport |
| `MC_TuiTable`, `Heights = {2}` | `NoDeltaIsMissed` | after a rebuild the revision is read after the query |
| `MC_TuiTable`, `Heights = {2}` | `PaletteActsOnHighlighted` | the palette takes the absolute selection for a place in the window; tui lib.rs:1624 has "the same actions as the single-key bindings" |
| `MC_TuiTable`, `Heights = {2}` | `JumpActsOnItsKind` | `/`, Tab, then a key: the highlighted name is looked up in the new kind; tui lib.rs:1240-1241 has "the selected resource's owners + dependents" |
| `MC_Governance` | `EffectsAreAudited` | a write whose reply is lost, or an exec whose command fails, leaves no record |
| `MC_Governance` | `GateSeesTarget` | the gate classifies the context of now, the client is that of the start |
| `MC_Governance` | `RecordsNameTheCluster` | a record names the context of when it is written |
| `MC_Governance` | `AuditIsJsonl` | two processes' records share a line |
| `MC_Governance` | `UpdatesAreSaved` | of two configuration updates at once, one is lost |
| `MC_Algorithms` | `ChangesShownOnce` | the leading context of a hunk may show the end of the hunk before it again (diff.rs:19 has "a contiguous run of changes plus surrounding context") |
| `MC_Algorithms` | `NoSecretReachesARow` | a Secret from a list has no kind (redact.rs:58-63), and a sensitive annotation of another kind is left (81-94), so that a lens may show either; integration lib.rs:250-253 has that a lens bound to "a `Secret`'s `data.*`" "never reaches a `Row` as plaintext" |
| `MC_Algorithms` | `NoStatusIsQuiet` | a pod without status gets the finding `no_status`; diagnostics.rs:19 has "an empty list if the pod is ready or has no status" |

Read off the code while it was translated, and kept in the models as they are:

- `diagnostics.rs:19` says the findings are empty for a pod that is ready or has no status; a ready
  one that was once killed for want of memory has one, and so has one without status
  (`NoStatusIsQuiet`, above), which the landing view then lists. Pods of completed Jobs count as
  not ready.
- `diagnostics.rs:57-60`: of a pending pod whose container waits for another reason than an image
  pull (`CreateContainerConfigError`, `InvalidImageName`) it says that "no specific reason is
  recorded".
- `events.rs`: an event that recurs is dated by its `eventTime` where it has one, so that a
  recent series may be outside the window.
- `guardrails.rs`: a production pattern that does not compile is skipped, and a staging one that
  matches then decides; `config validate` reports it, a write does not.
- `config.rs:20-22` calls unknown extensions "disabled by default"; `is_enabled` is true of every
  id that is not listed.
- `semantic.rs:60-61`: actions are greyed by the verb `update`, where `workloads.rs` patches; a
  rule for `pods/*` counts as one for `pods`.
- `discovery.rs`: with the environment of a pod but no mounted token, the identity reported is the
  pod's and the client's the operator's.
- `fuzzy.rs:23-24`: the jump and the table filter break ties differently.
- `table.rs:45`: cells of two kinds compare by text, those of one kind by value: a column with
  mixed kinds (an IntOrString) need not have a sorted order.
- `lens.rs`: a lens with no columns validates. `kaptein lenses` lists lenses that the TUI rejects
  when it loads them; `extension list` says nothing of manifests it could not read.
- `--json` prints no line at all when none is JSON (`logparse.rs:10` speaks of a `_raw` column),
  and ignores `--follow`; one pod's log is filtered after masking, a selector's before.
- TUI: any list that fails ends the program; `n` on a kind without namespaces always does; `next-kind` and `next-namespace` of the palette leave no history; history knows a kind by
  its gvk, so that going back from a lens over a built-in kind leads to the built-in one.

## 4. Proofs

Checked by TLAPS, for every value of the constants that meets the named assumptions
(`ManagerAssumption`, `ApiAssumption`, `PlaneAssumption`, `StoreAssumption`, `MemAssumption`,
`GovernanceAssumption`, `RingAssumption`, `FilesAssumption`, `SessionAssumption`,
`TuiAssumption`, `ForwardAssumption`, `NavigationAssumption`, `AccessAssumption`). One theorem assumes more, `OneWriter`, and says so. Every
inductive invariant below was also checked by TLC as an invariant of its configuration.

- **Session_proofs** is about what runs inside one process: it extends `ViewSession` (and with it
  the manager), `TuiTable` and `PortForward`, whose names and variables are apart from each
  other's. The manager's theorems cite the manager's assumption only, so that they do not
  depend on who calls it; the table's and the forward's cite their own.
  - The manager: `TypeCorrect`, `CapAlwaysHolds`, `ColdestGoFirst`, `EvictionUnderPressure`. The
    cap's proof goes by cardinalities: `MakeRoomFacts` says what `register` keeps of a full table,
    `RoomForOne` that one more key fits. `TypeOK` is the inductive invariant; the two action
    properties follow from it and from what one step of `register` does (`RegistersFacts`,
    `EvictionFacts`). They hold whatever the order in which threads read the clock and take the
    lock.
  - The session: `SlotsAreAlwaysHeld`, `SessionImplementsManager`, `SessionKeepsCap`. That a slot's
    key has a streaming task (`SlotsInv`) survives a registration because the call a task is in is
    a `register` for the view it was born for (`CallsInv`), and a late drop because it gives back
    its own view's slot only. `SessionStep` also says that each step is the manager's or none, so
    that the session implements the manager's specification and has its theorems.
    `SessionAssumption` names the callers: the tasks and the event loop.
  - The table: `WindowIsAlwaysWatched`, `KeysActOnHighlighted` (in a jump list of another kind than the one
    on screen, of the name only). `JumpInv` keeps the scroll of jump
    mode at or above its selection and the selection in the ranked list; without it the frame
    and the handler could mean different rows, since the frame counts from the scroll and the
    handler from the top. `WatchInv` relates what the window shows to the revision it is
    remembered under: never newer than the plane's, and equal only if the window is fresh, but
    for the two steps of a rebuild, where it says what the revision read in between is worth.
    `SortedFacts` (a sorted set has each element's place, by `Places`), `SliceFacts` and
    `ClampFacts` are about the operators; `MoveFacts` and `RequeryFacts` about what all keys share.
  - The port-forward: `OneClientAlways`. `SocketInv` says when the task holds a socket (`Holds`)
    and that it is one client's, and that a fresh stream carries only what that client asked.
- **ApiServer_proofs**: lemmas about the external collection (every revision writes one
  object, the past never changes). They are facts about the model of the API server.
- **LivePlane_proofs**: `PlaneInvariant`, `TypeCorrect`, `AlwaysMirrorsCursor`,
  `PlaneImplementsMirror`. `MirrorsCursor` alone is not inductive: that the rows equal the
  collection when the reconciliation ends depends on what happened page by page.
  `PlaneInv` adds `ListInv` (what the list has named is in the plane as the list's revision
  has it, the pending page is not yet named, and in the removal pass everything has been
  named), `FollowInv` (`MirrorsCursor` with a cursor that exists) and `AgeInv` (each row is
  its object at `asOf`, never newer than the list or stream that would replace it). The proof
  has one step per action. The last theorem maps every step to a `Refresh` of one row, a step
  of the cluster, or a stutter.

- **InformerStore_proofs**: `StoreFollowsCluster`, `ChangesAlwaysBump`. That every entry is the
  cluster's at some revision from `rv` on (`Ahead`) is what survives the replay of a stream, which
  may take an entry back before it brings it up to date. `StreamInv` has it from the list's
  revision while waiting for a stream, from the cursor while on one, unless `current_rv` was
  fetched anew; `SeedInv` is the list in progress.
- **MemPlane_proofs**: `PlaneAlwaysAgrees`, `HistoryAlwaysReplays`, `PagesExactWhenCurrent`,
  `SubscribersFollow`. `UpsertPresentWrites`, `UpsertNewWrites` and `RemoveRowWrites` say of each
  locked section, `swap_remove` and the repair of the index included, that it changes one row,
  keeps the index and tells the truth in its patch; `RememberedFacts` that the ring keeps the
  last patches, one for each revision (`Numbered`). `ReplayOneMore` lets one more patch be
  replayed at the end, which `HistoryReplays` and the subscribers need. `QueryInv` has the two
  halves of a query agree as long as the revision stays. The subscribers' theorem assumes
  `OneWriter`, as one watch task writes a plane: with two, their broadcasts may overtake each
  other and it is false (mem_plane.rs:109).
- **Governance_proofs**: `GatedWrites`, `RecordsAlwaysTrue`, `SequentialUpdatesAlwaysKept`. What
  changed a cluster has to be known permitted when it happens, long after the gate: `GateInv`
  carries the permission from the gate to the call (and, before the gate, that client and current
  context agree unless they were seen to differ), `EffectInv` keeps it for what has happened.
  `GateSound` is the gate itself: whatever is left of the configuration, only a staging context
  passes without a reason. For the audit log, `LineInv` follows a process from its effect to its
  line: the record it is about to write says what happened, there is one, and what comes after it
  are a line end and serving; `LengthInv` counts lines and their ends. For the files, `CleanInv`
  says that a file no update overlapped on or died over has one updater at most, that what this
  one read is what the file should hold, and so is the file until it has been emptied.
- **Operator_proofs** is about what an operator does and is told: it extends `OperatorFiles`,
  `Policy` and `Navigation`, whose names and variables are apart from each other's.
  - Edits and toggles: `GateIsNeverLoosened`, `TogglesAlwaysAddUp`, `EditsAreAlwaysOwn`,
    `NothingIsLeftBehind`. `ParsedText` and `Places` say what a reader makes of a file cut short: the
    production patterns are written before those of staging, so that a part of the file never
    passes what the whole does not. `GateInv` has that of the file and of every text on its way
    there, `SumInv` that an undisturbed toggle works on what is intended. `EditInv` says of a
    session what it knows to be its operator's (`Own`), of the temporary file while nobody else
    edits, and who may be holding it: if nobody is, someone left it (`leaked`).
  - Policies: `PoliciesAlwaysMean`. There is one step from a question to its answer, so that the
    work is in the lemmas on the operators: the pattern shown is the first that matches
    (`FirstMatch`; that a set of numbers has a least one is `MinOfSome`), an action
    greyed out has no rule that grants it (`GreyedOnAccess`), a class is what its patterns say
    (`GatedOnExplain`), credentials are warned of and majors decide (`WarnedOnServe`).
  - Navigation: `NavigationIsBrowser`, `LastSortKeyAlwaysWins`, `NamespacesAlwaysByChoice`.
    `NavigationIInv` has that every point of the stacks is of a view that is `Listable` (`Route`),
    without which going back could ask for a list that no server has; it survives because a view
    that is not ends the program before it can be recorded. `FindKindIn` rests on the assumption that a gvk decides
    whether a kind has namespaces. `SameTrail` moves a view from one stack to the other and finds
    the same trail, `TrailCut` is what a new view makes of it. `LastSortKeyWins` is inductive.
- **WatchRing_proofs**: `RingAlwaysWhole`, `RecordsAlwaysTheChanges`. `RingInv` says of each
  position of the ring where its record stands among all those pushed (`Recent`), that a record
  may be pushed only while there is room for it within the limit (`Counted`; the one record over
  a limit of 0 is the first), and of each revision that the stream has sent which record tells it
  (`Told`, from the list's revision on). `PushFacts` is the push itself, at and below capacity;
  `EventFacts` that the event of a revision says what it did, which rests on one write per
  revision; that the past of the collection stays is `ApiFacts`.

Only model-checked:

- All liveness (`Converges`, `LeftViewsRelease`, `CancelledStops`, `PlainServes`): the prover
  handles neither fairness nor `ENABLED`.
- The eight properties of Algorithms: they are about `RECURSIVE` operators and about what recursive
  computations yield for every input (`RedactValue`, the edit script), which takes induction over
  data; neither is in the prover's reach.

## 5. Not modelled

- Text: formatting, colours, messages and layout, and the drawing of the TUI; help, breadcrumbs
  and the context picker, which change no state that the tables see.
- What a regular expression matches, in guardrails, in `--regex` and in the two expressions of
  `redact_line`: the models are given the set that matches.
- Transport: errors are a bounded nondeterministic choice; TLS, authentication and the kube
  client's own retries are not distinguished. API requests of one call are one step each.
- External tools (`external.rs`) run a subprocess and hand on its output; the pod list and API
  discovery are one call each; shell completion, command schemas and output sinks keep no state.
- How the arguments of an MCP tool name a resource for the preflight: it is a choice.

## 6. Plan

1. `InformerManager`, `LivePlane`, `LiveMirror`, `ApiServer`, their proofs (done).
2. `InformerStore`, `ViewSession`, `MemPlane`, `PortForward`, `TuiTable`, `Governance` and its
   first theorem (done).
3. The pure algorithms against reference definitions; the watch ring with its proofs; the edit
   loop and the toggles of extensions (done).
4. Proofs of `InformerStore`, `MemPlane`, `Governance` and `OperatorFiles`, with the inductive
   invariants they need (done).
5. Proofs of `ViewSession` over the manager's theorems, of `TuiTable` and of `PortForward` (done).
6. Navigation and access as specifications of their own, with `Browser`, and their proofs (done).
