----------------------------- MODULE Algorithms ------------------------------
(***************************************************************************)
(* The computations of the program that run no protocol: what a command, a *)
(* key of the TUI or a tool of the MCP server is given, and what it        *)
(* answers; those of Policy among them.  One call is under way at a time,  *)
(* with any of the inputs; the properties compare what the code computes   *)
(* with what it is for.                                                    *)
(***************************************************************************)
EXTENDS Lens, Redaction, Diagnostics, Activity, BlastRadius, Policy, UnifiedDiff, FuzzyJump,
        LensDiscovery, PodLogs

CONSTANTS
  RowLists, Queries, ColumnIds,        \* a table and what is asked of it
  Listings, SortFlags,                 \* rows of the standard columns, texts of --sort
  Lenses, Resources,
  Secrets,                             \* texts that only sensitive names hold
  KindSecrets,                         \* texts that only the data of a Secret, and
                                       \* sensitive annotations of any object, hold
  Files, Contexts,                     \* the texts of a diff, its lines of context
  Candidates, JumpQueries,
  Statuses, PodLists,
  CoreEvents, ModernEvents, Windows, Now,
  Owners,                              \* lists of [replicaSets, jobs, pods]
  Evictables,
  Trees, DisabledSets,                 \* directories of extensions
  PodGroups, Regexes, Tails            \* pods a selector matches

-----------------------------------------------------------------------------
(* The calls.                                                              *)

(* A window of a table, as the TUI asks for it.                            *)
Look ==
  \E rows \in RowLists, query \in Queries :
    Ask("table", [rows |-> rows, ids |-> ColumnIds, query |-> query],
        Query(rows, ColumnIds, query))

StandardColumns == <<"name", "namespace", "status", "created">>

\* --sort knows three columns; any other text sorts by none.
SortFlag(flag) ==
  CASE flag = "name" -> "name"
    [] flag \in {"namespace", "ns"} -> "namespace"
    [] flag \in {"created", "age"} -> "created"
    [] OTHER -> "none"

(* `kaptein get`: the whole list, sorted, then filtered.                   *)
Get ==
  \E rows \in Listings, flag \in SortFlags, q \in Queries :
    LET query == [q EXCEPT !.sort.column = SortFlag(flag), !.start = 0, !.end = Len(rows)]
    IN Ask("table", [rows |-> rows, ids |-> StandardColumns, query |-> query],
           Query(rows, StandardColumns, query))

(* An object as its JSON value: its data beside its metadata.              *)
AsJson(o) ==
  Obj([k \in DOMAIN o.data.obj \cup {<<"metadata">>} |->
         IF k = <<"metadata">> THEN Obj([a \in {<<"annotations">>} |-> Obj(o.annotations)])
         ELSE o.data.obj[k]])

(* What a lens sees of an object.                                          *)
Shown(o) == AsJson(RedactObject(o))

(* map_object_with: redacted first, then rendered.                         *)
MapObjectWith(vd, o) == RenderRow(vd, Shown(o))

RenderView ==
  \E vd \in Lenses, o \in Resources :
    Ask("view", [lens |-> vd, object |-> o],
        [valid  |-> ValidViewdef(vd),
         row    |-> MapObjectWith(vd, o),
         level  |-> EvaluateStatus(vd, Shown(o)),
         failed |-> EvaluateHealth(vd, Shown(o))])

(* What was fetched by name has a kind (describe_dynamic).                 *)
Describe ==
  \E o \in {r \in Resources : r.kind # ""} : Ask("describe", o, RedactObject(o))

Preview ==
  \E old, new \in Files, context \in Contexts :
    Ask("diff", [old |-> old, new |-> new, context |-> context], Diff(old, new, context))

Jump ==
  \E candidates \in Candidates, query \in JumpQueries :
    Ask("jump", [candidates |-> candidates, query |-> query],
        [jump    |-> FuzzyJumpTo(candidates, query),
         rank    |-> FuzzyRankIndices(candidates, query),
         palette |-> PaletteMatches(candidates, query)])

DiagnosePod ==
  \E status \in Statuses : Ask("diagnose", status, Diagnose(status))

WhyIsJobPending ==
  \E pods \in PodLists : Ask("job", pods, JobPodLines(pods))

Events ==
  \E core \in CoreEvents, modern \in ModernEvents, since \in Windows :
    Ask("events", [core |-> core, modern |-> modern, since |-> since],
        RecentEvents(core, modern, since, Now))

Overview ==
  \E core \in CoreEvents, modern \in ModernEvents, since \in Windows \ {NoTime}, pods \in PodLists :
    Ask("overview", [core |-> core, modern |-> modern, since |-> since, pods |-> pods],
        Summarize(RecentEvents(core, modern, since, Now), << >>, UnhealthyPods(pods),
                  MisconfiguredPods(pods)))

WhatChanged ==
  \E core \in CoreEvents, modern \in ModernEvents, from, to \in Windows \ {NoTime} :
    Ask("changed", [core |-> core, modern |-> modern, from |-> from, to |-> to],
        WhatChangedBetween(core, modern, from, to, Now))

ExplainPodFailure ==
  \E core \in CoreEvents, modern \in ModernEvents, window \in Windows \ {NoTime} :
    \E pod \in {e.key.object : e \in UNION {ToSet(l) : l \in CoreEvents \ {Failed}}} :
      Ask("explain", [core |-> core, modern |-> modern, pod |-> pod, window |-> window],
          RelatedEvents(core, modern, pod, window, Now))

WhatGoes ==
  \E o \in Owners :
    Ask("blast", o, Dependents("target", o.replicaSets, o.jobs, o.pods))

DrainNode ==
  \E pods \in Evictables, node \in {"n1", "n2"} :
    Ask("drain", [pods |-> pods, node |-> node], DrainPreview(pods, node))

FindLenses ==
  \E tree \in Trees, disabled \in DisabledSets :
    Ask("lenses", [tree |-> tree, disabled |-> disabled],
        [offered |-> DiscoverLensKinds(tree, disabled),
         listed  |-> EnabledLenses(tree, disabled),
         valid   |-> Discover(tree).problems = {}])

(* `kaptein logs` of the first pod in each of its forms, and of them all.  *)
ReadLogs ==
  \E pods \in PodGroups, regex \in Regexes, tail \in Tails :
    LET single == SinglePod(pods[1], regex, tail)
    IN Ask("logs", [pods |-> pods, regex |-> regex, tail |-> tail],
           [single   |-> single,
            follow   |-> FollowLogs(pods[1], regex, tail),
            selector |-> MultiPodLogs(pods, regex, tail),
            table    |-> JsonTable(IF single = Refused THEN << >> ELSE single)])

Next ==
  \/ /\ call = NoCall
     /\ \/ Look \/ Get \/ RenderView \/ Describe \/ Preview \/ Jump \/ DiagnosePod
        \/ WhyIsJobPending \/ Events \/ Overview \/ WhatChanged \/ ExplainPodFailure
        \/ WhatGoes \/ DrainNode \/ FindLenses \/ ReadLogs
  \/ AccessNext

Spec == AccessInit /\ [][Next]_accessVars

Given_(op, Holds(_)) == call # NoCall /\ call.op = op => Holds(call.given)
-----------------------------------------------------------------------------
(* Tables.                                                                 *)

(* Whether row a goes before row b in the order asked for.                 *)
Before(a, b, c, descending) ==
  LET less(x, y) == \/ c \notin DOMAIN x /\ c \in DOMAIN y
                    \/ c \in DOMAIN x \cap DOMAIN y /\ CmpCells(x[c], y[c]) < 0
  IN IF descending THEN less(b, a) ELSE less(a, b)

OneKind(rows, c) ==
  \A i, j \in DOMAIN rows :
    c \in DOMAIN rows[i] /\ c \in DOMAIN rows[j] => rows[i][c].kind = rows[j][c].kind

(* A table sorted by a column whose cells are of one kind is in that order *)
(* from any row to any later one, in both directions, and rows that tie    *)
(* keep the order they came in (sort_indices).                             *)
SortIsStable == Given_("table", LAMBDA g :
  LET order == QueryIndices(g.rows, g.ids, g.query)
      c == Position(g.ids, g.query.sort.column)
  IN c # 0 /\ OneKind(g.rows, c) =>
       \A i, j \in DOMAIN order : i < j =>
         LET a == g.rows[order[i]]  b == g.rows[order[j]]
         IN \/ Before(a, b, c, g.query.sort.descending)
            \/ ~ Before(b, a, c, g.query.sort.descending) /\ order[i] < order[j])

(* Any two pages that meet hold, one after the other, what one page of     *)
(* both would: no matching row is shown twice or skipped (query, `get`).   *)
PagesTile == Given_("table", LAMBDA g :
  \A cut \in g.query.start .. g.query.end :
    LET page(from, to) == Query(g.rows, g.ids, [g.query EXCEPT !.start = from, !.end = to])
    IN page(g.query.start, cut).rows \o page(cut, g.query.end).rows = answer.rows)

-----------------------------------------------------------------------------
(* Lenses and redaction.                                                   *)

Cells(row) == {row[c] : c \in DOMAIN row}

(* Asking to sort a valid lens by one of its columns sorts by that column: *)
(* no other column answers to its id (validate_viewdef, sort_indices).     *)
SortColumnIsItself == Given_("view", LAMBDA g :
  answer.valid => LET ids == [c \in DOMAIN g.lens.columns |-> g.lens.columns[c].id]
                  IN \A c \in DOMAIN ids : Position(ids, ids[c]) = c)

(* The status of a resource is that of a rule or condition that holds and  *)
(* that no rule before it overrides, rules going before conditions; it is  *)
(* unknown only if none holds (evaluate_status).                           *)
StatusIsFirstMatch == Given_("view", LAMBDA g :
  LET holds == {r \in DOMAIN g.lens.status : PredicateHolds(g.lens.status[r], Shown(g.object))}
      conds == {r \in DOMAIN g.lens.conditions :
                  ConditionMatches(g.lens.conditions[r], Shown(g.object))}
  IN /\ \A r \in holds : (\A q \in holds : r <= q) => answer.level = g.lens.status[r].level
     /\ holds = {} => \A r \in conds : (\A q \in conds : r <= q)
                         => answer.level = g.lens.conditions[r].level
     /\ answer.level = "none" <=> holds \cup conds = {})

(* What a resource does not say is never held for it: a health check of a  *)
(* field that is absent fails, whatever its operator (evaluate_health).    *)
AbsentIsUnhealthy == Given_("view", LAMBDA g :
  \A h \in DOMAIN g.lens.health :
    ResolveField(Shown(g.object), g.lens.health[h].field) = Absent
      => \E f \in DOMAIN answer.failed : answer.failed[f] = g.lens.health[h])

(* The secrets that redaction can tell: those under a sensitive name, and, *)
(* where the object says that it is a Secret, the others.                  *)
KnownSecrets(o) == Secrets \cup (IF o.kind \in SecretKinds THEN KindSecrets ELSE {})

(* No row of a lens shows what redaction masks, wherever the lens points   *)
(* its columns: at the value, at its parent, into a list (map_object_with). *)
NoMaskedValueShown == Given_("view", LAMBDA g :
  \A cell \in Cells(answer.row) : Scalars(CellText(cell)) \cap KnownSecrets(g.object) = {})

(* integration lib.rs:250-253 has it that neither "a lens that binds a     *)
(* column to a secret-shaped field" nor "a `Secret`'s `data.*`" ever       *)
(* "reaches a `Row` as plaintext".  A Secret that came in a list, without  *)
(* its kind, is not known for one (redact.rs:59).                          *)
NoSecretReachesARow == Given_("view", LAMBDA g :
  \A cell \in Cells(answer.row) : Scalars(CellText(cell)) \cap (Secrets \cup KindSecrets) = {})

(* A column that points at a masked value shows it as masked, which a      *)
(* frontend tells from a text that happens to read alike (cell_for_value). *)
MaskedIsMarked == Given_("view", LAMBDA g :
  \A c \in DOMAIN g.lens.columns :
    ResolveField(AsJson(g.object), g.lens.columns[c].field) \in KnownSecrets(g.object)
      => answer.row[c] = Redacted)

(* Redaction masks every secret it can tell, touches no other value and    *)
(* keeps every key (redact_object).                                        *)
OnlySecretsAreMasked == Given_("describe", LAMBDA o :
  LET before == UNION {Scalars(v) : v \in {o.data} \cup Range(o.annotations)}
      after  == UNION {Scalars(v) : v \in {answer.data} \cup Range(answer.annotations)}
  IN /\ after \cap KnownSecrets(o) = {}
     /\ before \ KnownSecrets(o) \subseteq after
     /\ DOMAIN answer.data.obj = DOMAIN o.data.obj
     /\ DOMAIN answer.annotations = DOMAIN o.annotations
     /\ RedactObject(answer) = answer)

(* Every lens on disk is offered as a kind, or its directory is reported,  *)
(* or the operator disabled it; what is reported is not offered as well.   *)
(* `kaptein lenses` lists what is offered, in the order of the kinds       *)
(* (discover_lenses, discover_lens_kinds).                                 *)
LensesAreAccounted == Given_("lenses", LAMBDA g :
  LET offered == [k \in DOMAIN answer.offered.kinds |-> answer.offered.kinds[k].dir]
      listed  == [k \in DOMAIN answer.listed |-> answer.listed[k].dir]
      gone    == Dirs(g.tree, LAMBDA e : IsLens(e) /\ e.id \in g.disabled)
      other   == Dirs(g.tree, LAMBDA e : e.manifest = "valid" /\ e.kind # "lens")
  IN /\ {g.tree[e].dir : e \in DOMAIN g.tree}
          = ToSet(offered) \cup answer.offered.reported \cup gone \cup other
     /\ ToSet(offered) \cap (answer.offered.reported \cup gone) = {}
     /\ offered = SelectSeq(listed, LAMBDA d : d \notin answer.offered.reported))

-----------------------------------------------------------------------------
(* Logs.                                                                   *)

Lines(answered) == {answered[k].line : k \in DOMAIN answered}

(* --regex means the same to the three ways of reading the log of a pod,   *)
(* each of which filters for itself: if masking hides no line from it, the *)
(* same lines are printed, in the same order (Command::Logs).              *)
RegexIsOneFilter == Given_("logs", LAMBDA g :
  LET pod == g.pods[1]
      alike == \A k \in DOMAIN pod.logs : pod.logs[k] # Unread =>
                 \A l \in ToSet(pod.logs[k]) : Passes(g.regex, l) = Passes(g.regex, RedactLine(l))
  IN alike /\ answer.selector # Refused =>
       /\ answer.single = SelectSeq(answer.selector, LAMBDA l : l.pod = pod.name)
       /\ answer.follow \in {answer.single, Refused})

(* A line is printed masked, whichever way it was read and filtered        *)
(* (redact_line of every path).                                            *)
LinesAreMasked == Given_("logs", LAMBDA g :
  \A read \in {answer.single, answer.follow, answer.selector} \ {Refused} :
    \A l \in Lines(read) : RedactLine(l) = l)

(* The table of --json holds each line that is printed without it, in its  *)
(* place, and no cell of a column it does not have; without any JSON line  *)
(* there is no table (parse_log_stream, infer_columns).                    *)
TableKeepsLines == Given_("logs", LAMBDA g :
  answer.single # Refused =>
    LET rows == answer.table.rows
    IN IF \E l \in Lines(answer.single) : JsonKeys(l) # {}
       THEN /\ [k \in DOMAIN rows |-> rows[k].line]
                 = [k \in DOMAIN answer.single |-> answer.single[k].line]
            /\ UNION {rows[k].keys : k \in DOMAIN rows} = answer.table.columns
       ELSE rows = << >>)

-----------------------------------------------------------------------------
(* Diffs.                                                                  *)

Texts(lines, tags) ==
  LET kept == SelectSeq(lines, LAMBDA l : l.tag \in tags)
  IN [k \in DOMAIN kept |-> kept[k].text]

(* The longest common subsequence, by what it is.                          *)
CommonLength(old, new) ==
  LET picks(seq) == {[k \in 1..Cardinality(S) |-> seq[SetToSortSeq(S, <)[k]]] :
                       S \in SUBSET DOMAIN seq}
      lengths == {Len(s) : s \in picks(old) \cap picks(new)}
  IN CHOOSE n \in lengths : \A m \in lengths : m <= n

(* The edit script turns the old text into the new one, and no shorter one *)
(* does: an apply is never made to look larger than it is (unified_diff).  *)
DiffIsShortest == Given_("diff", LAMBDA g :
  LET lines == EditScript(g.old, g.new)
  IN /\ Texts(lines, {" ", "-"}) = g.old
     /\ Texts(lines, {" ", "+"}) = g.new
     /\ answer.added = Len(g.new) - CommonLength(g.old, g.new)
     /\ answer.removed = Len(g.old) - CommonLength(g.old, g.new))

Changes(lines) == SelectSeq(lines, IsChanged)

(* The last run of changes of a hunk, the one it was made for.             *)
OwnRun(hunk) ==
  LET last == SelectLastInSeq(hunk, IsChanged)
      before == SelectLastInSeq(SubSeq(hunk, 1, last), LAMBDA l : ~ IsChanged(l))
  IN SubSeq(hunk, before + 1, last)

(* No change is lost between two hunks: the runs the hunks are made for    *)
(* are all the changes, in order, whatever their context (group_hunks).    *)
HunksCoverChanges == Given_("diff", LAMBDA g :
  /\ FlattenSeq([k \in DOMAIN answer.hunks |-> OwnRun(answer.hunks[k])])
       = Changes(EditScript(g.old, g.new))
  /\ SelectSeq(RenderUnified(answer), LAMBDA l : l.tag \in {"+", "-"})
       = Changes(FlattenSeq(answer.hunks)))

(* What diff.rs:19 says of hunks, "each a contiguous run of changes plus   *)
(* surrounding context": no change is shown by two of them.  The context   *)
(* before a run may hold the run before it, which is then shown again.     *)
ChangesShownOnce == Given_("diff", LAMBDA g :
  Changes(FlattenSeq(answer.hunks)) = Changes(EditScript(g.old, g.new)))

-----------------------------------------------------------------------------
(* Fuzzy jump.                                                             *)

IsSubsequence(query, chars) ==
  \E S \in SUBSET DOMAIN chars :
    /\ Cardinality(S) = Len(query)
    /\ \A k \in DOMAIN query : chars[SetToSortSeq(S, <)[k]].letter = query[k]

(* A candidate is offered iff the letters of the query occur in it in that *)
(* order, in any case, although the one pass never goes back for a better  *)
(* place; the table filter offers the same (fuzzy_score).                  *)
OfferedIffSubsequence == Given_("jump", LAMBDA g :
  LET offered == {k \in DOMAIN g.candidates : IsSubsequence(g.query, g.candidates[k].chars)}
  IN ToSet(answer.jump) = offered /\ ToSet(answer.rank) = offered)

(* Nothing offered scores higher than what stands before it, nothing is    *)
(* offered twice, and the palette offers its commands in that order        *)
(* (fuzzy_jump, fuzzy_rank_indices, palette_matches).                      *)
BestIsFirst == Given_("jump", LAMBDA g :
  LET score(k) == FuzzyScore(g.candidates[k].chars, g.query)
      best(order) == \A i, j \in DOMAIN order :
        i < j => order[i] # order[j] /\ score(order[i]) >= score(order[j])
  IN /\ g.query # << >> => best(answer.jump) /\ best(answer.rank)
     /\ answer.palette = answer.jump)

-----------------------------------------------------------------------------
(* Diagnostics and reports.                                                *)

Names(findings) == {findings[f].of : f \in DOMAIN findings}
Codes(findings) == {findings[f].code : f \in DOMAIN findings}
Unready(containers) == {containers[c].name : c \in {d \in DOMAIN containers : ~ containers[d].ready}}

(* Past the scheduler, every container that is not ready is named by some  *)
(* finding: a stronger finding about one container hides no other one      *)
(* (diagnose).                                                             *)
UnreadyContainersAreNamed == Given_("diagnose", LAMBDA s :
  s.phase \notin {"none", "Pending"} =>
    Unready(s.containers) \cup Unready(s.init) \subseteq Names(answer))

(* A pending pod has one finding, the most specific: an init container     *)
(* that holds it up before any verdict of the scheduler, a named cause of  *)
(* that verdict before the verdict, and "pending" only if neither the       *)
(* scheduler nor an image pull holds it up: any other reason a container   *)
(* waits for reads as "pending" too (diagnose).                            *)
SpecificBeforeGeneric == Given_("diagnose", LAMBDA s :
  s.phase = "Pending" =>
    LET code == answer[1].code
        pulls == \E c \in DOMAIN s.containers :
                   /\ s.containers[c].state.is = "waiting"
                   /\ s.containers[c].state.reason \in ImagePullReasons
    IN /\ Len(answer) = 1
       /\ Unready(s.init) # {} <=> code \in {"init_container_error", "init_container_waiting"}
       /\ code = "unschedulable" => s.scheduled.mentions = {}
       /\ code = "pending" => s.scheduled.is # "False" /\ ~ pulls)

(* A pod without findings is ready; a pod that is ready has none, unless a *)
(* container of it was last ended for want of memory (diagnose).           *)
QuietMeansReady == Given_("diagnose", LAMBDA s :
  s.phase \notin {"none", "Pending"} =>
    LET killed == {c \in DOMAIN s.containers : s.containers[c].last = Terminated(OomExit)}
    IN /\ answer = << >> => IsReady(s) /\ Unready(s.containers) = {}
       /\ IsReady(s) /\ Unready(s.init) = {} =>
            /\ Codes(answer) \subseteq {"oom_killed"}
            /\ Names(answer) = {s.containers[c].name : c \in killed})

(* diagnostics.rs:19: "Returns an empty list if the pod is ready or has no *)
(* status."  Of a pod without a status it says no_status.                  *)
NoStatusIsQuiet == Given_("diagnose", LAMBDA s : s = NoStatus => answer = << >>)

(* The landing view lists each pod whose status says that it is not ready, *)
(* in whatever phase, no pod twice, and names the namespace of every       *)
(* warning of the window that has one, and no other (overview_with_health, *)
(* summarize).                                                             *)
LandingViewIsComplete == Given_("overview", LAMBDA g :
  LET known(list, TimeOf(_)) ==
        IF list = Failed THEN {}
        ELSE {e \in ToSet(list) : e.type = "Warning" /\ TimeOf(e) >= g.since}
      warned == known(g.core, CoreTime) \cup known(g.modern, ModernTime)
      listed == [k \in DOMAIN answer.unhealthy |-> answer.unhealthy[k].name]
  IN /\ answer.affected = {e.namespace : e \in warned} \ {""}
     /\ IsInjective(listed)
     /\ \A k \in DOMAIN g.pods :
          g.pods[k].status # NoStatus /\ ~ IsReady(g.pods[k].status)
            => g.pods[k].name \in ToSet(listed))

(* Every event of either API whose time is in the window is reported once, *)
(* though both APIs may report it, newest first, and nothing else is: the  *)
(* lists that fail aside (recent_events, what_changed_between).            *)
WindowIsComplete == Given_("changed", LAMBDA g :
  LET timed(list, TimeOf(_)) ==
        IF list = Failed THEN {}
        ELSE {<<e.key, TimeOf(e)>> : e \in {x \in ToSet(list) :
                TimeOf(x) # NoTime /\ g.from <= TimeOf(x) /\ TimeOf(x) <= g.to}}
      told == [k \in DOMAIN answer |-> <<answer[k].key, answer[k].time>>]
  IN /\ ToSet(told) = timed(g.core, CoreTime) \cup timed(g.modern, ModernTime)
     /\ IsInjective(told)
     /\ \A i, j \in DOMAIN answer : i < j => answer[i].time >= answer[j].time)

(* What goes with a resource is what a chain of owners leads from to it,   *)
(* each item once: the kinds are listed one after the other, in an order   *)
(* that finds the owners before what they own (blast_radius).              *)
BlastIsClosure == Given_("blast", LAMBDA o :
  Unserved \notin {o.replicaSets, o.jobs} =>
    LET items == ToSet(o.replicaSets \o o.jobs \o o.pods)
        owned(uids) == {i.uid : i \in {x \in items : IsOwned(x, uids)}}
        one == owned({"target"})
        two == one \cup owned(one)
        all == two \cup owned(two)
    IN ToSet(answer) = all /\ IsInjective(answer))

(* A drain previews each pod of the node once, and of no other node, and   *)
(* leaves to their owners those that a drain would only bring back         *)
(* (drain_preview).                                                        *)
DrainIsTheNode == Given_("drain", LAMBDA g :
  LET mine == SelectSeq(g.pods, LAMBDA p : p.node = g.node)
      kept == {k \in DOMAIN answer : answer[k].skip = ""}
      held == {k \in DOMAIN mine : mine[k].owners # << >>
                                   /\ mine[k].owners[1] \in {"DaemonSet", "Node"}}
  IN /\ Len(answer) = Len(mine)
     /\ {<<answer[k].namespace, answer[k].name>> : k \in DOMAIN answer}
          = {<<mine[k].namespace, mine[k].name>> : k \in DOMAIN mine}
     /\ \A k \in held : <<mine[k].namespace, mine[k].name>>
          \notin {<<answer[j].namespace, answer[j].name>> : j \in kept})

-----------------------------------------------------------------------------
(* What the computations promise, one invariant for each of their users.   *)

(* A table shows the matching rows, each once, in the order asked for,     *)
(* however it is paged (query, sort_indices).                              *)
TablesAreExact == SortIsStable /\ PagesTile

(* A lens says of a resource what its first rule that holds says, holds    *)
(* nothing of a field that is not there, sorts by the column asked for,    *)
(* and is offered or reported (lens.rs, extension.rs).                     *)
LensesAreExact == SortColumnIsItself /\ StatusIsFirstMatch /\ AbsentIsUnhealthy /\ LensesAreAccounted

(* No secret that redaction can tell reaches a frontend, nothing else is   *)
(* hidden from it, and what is hidden says so (redact_object before        *)
(* map_object_with).                                                       *)
SecretsStayMasked == NoMaskedValueShown /\ MaskedIsMarked /\ OnlySecretsAreMasked

(* The ways to read a log agree on which lines match, mask each of them,   *)
(* and make a table of all of them or of none (Command::Logs).             *)
LogPathsAgree == RegexIsOneFilter /\ LinesAreMasked /\ TableKeepsLines

(* A preview shows the whole difference and no more than it: a shortest    *)
(* script, each change of it in a hunk (unified_diff).                     *)
PreviewsAreWhole == DiffIsShortest /\ HunksCoverChanges

(* The one-pass search offers what a full search would, best first         *)
(* (fuzzy_score and its three users).                                      *)
JumpsAreBest == OfferedIffSubsequence /\ BestIsFirst

(* A diagnosis misses no container that is not ready, gives the specific   *)
(* cause first, and is silent exactly of what is ready (diagnose).         *)
DiagnosesAreSpecific == UnreadyContainersAreNamed /\ SpecificBeforeGeneric /\ QuietMeansReady

(* A report lists all that it is about, each item once: pods that are not  *)
(* ready, events of a window, what goes with a resource, what a drain      *)
(* would evict (overview.rs, events.rs, moat.rs, nodes.rs).                *)
ReportsAreComplete == LandingViewIsComplete /\ WindowIsComplete /\ BlastIsClosure /\ DrainIsTheNode

=============================================================================
