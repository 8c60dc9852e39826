----------------------------- MODULE Navigation -----------------------------
(***************************************************************************)
(* The operator's way through kinds, namespaces and sort columns in the    *)
(* TUI (kaptein-tui, lib.rs): Tab, n, [ and ], the sort keys and the       *)
(* commands of the palette, in any order.  One key is one step: the loop   *)
(* handles it to its end before it reads the next.                         *)
(*                                                                         *)
(* A view is a kind (its place in the list) and a namespace, or all of     *)
(* them.  What the history keeps of it is a point: the kind's gvk, which   *)
(* several kinds may share (a lens over a built-in kind), and the          *)
(* namespace.                                                              *)
(***************************************************************************)
EXTENDS Integers, Sequences, SequencesExt

CONSTANTS
  Kinds,        \* the kinds in Tab order: [label, gvk, scoped, clustered, columns, name,
                \* namespace, status, created]: whether the TUI takes it for
                \* cluster-scoped, whether it is, its number of columns and the one (or
                \* 0) of each meaning
  NameLists,    \* the namespaces the cluster may have, in order
  MaxKeys       \* bound on the keys pressed

AllNamespaces == ""
Targets == {"name", "namespace", "status", "created"}

(* Every kind has a column for the name; whether a kind is cluster-scoped  *)
(* is a matter of its gvk.                                                 *)
ASSUME NavigationAssumption ==
  /\ Kinds # << >>
  /\ Kinds \in Seq([label : STRING, gvk : STRING, scoped : BOOLEAN, clustered : BOOLEAN,
                    columns : Nat, name : Nat \ {0}, namespace : Nat, status : Nat,
                    created : Nat])
  /\ \A j, k \in DOMAIN Kinds :
       Kinds[j].gvk = Kinds[k].gvk => Kinds[j].clustered = Kinds[k].clustered
  /\ NameLists \subseteq Seq(STRING)
  /\ MaxKeys \in Nat

VARIABLES
  view,               \* [kind, namespace]
  back, forward,      \* the history, two stacks of points
  sort, descending,   \* the column sorted by and the direction
  running,            \* the event loop has not ended
  streak,             \* history: the sort key pressed last, if none but it was since:
                      \* [target, times] and the sort and descending it found
  pressed             \* keys so far

stacks  == <<back, forward>>
sorting == <<sort, descending, streak>>
navigationVars == <<view, stacks, sorting, running, pressed>>

NoStreak == [target |-> "none"]
-----------------------------------------------------------------------------
(* The first kind of the list with that label and gvk is where Tab counts  *)
(* from, so that it is the first of two alike that is left.                *)
NextKind(k) ==
  LET i == SelectInSeq(Kinds, LAMBDA x : x.label = Kinds[k].label /\ x.gvk = Kinds[k].gvk)
  IN (i % Len(Kinds)) + 1

(* A point names the kind by its gvk; an unknown one is the first.         *)
FindKind(gvk) ==
  LET i == SelectInSeq(Kinds, LAMBDA x : x.gvk = gvk) IN IF i = 0 THEN 1 ELSE i

(* All namespaces, then the names in order, and round again; a name that   *)
(* is gone counts as "all".                                                *)
CycleNamespace(names, current) ==
  LET ring == <<AllNamespaces>> \o names
      i == SelectInSeq(ring, LAMBDA n : n = current)
  IN ring[((IF i = 0 THEN 1 ELSE i) % Len(ring)) + 1]

NavPoint(v) == [gvk |-> Kinds[v.kind].gvk, namespace |-> v.namespace]
ViewOf(point) == [kind |-> FindKind(point.gvk), namespace |-> point.namespace]

\* Defect: a kind without namespaces is asked for those of the kind before it.
ToNextKind_KeepsNamespace(v) == [v EXCEPT !.kind = NextKind(v.kind)]

(* next_kind, with the namespace cleared for a kind known to have none.    *)
ToNextKind(v) ==
  LET k == NextKind(v.kind)
  IN [kind |-> k, namespace |-> IF Kinds[k].scoped THEN AllNamespaces ELSE v.namespace]

ToNextNamespace(names, v) == [v EXCEPT !.namespace = CycleNamespace(names, @)]

(* A kind without namespaces has no list of a namespace, on any server.    *)
Listable(v) == Kinds[v.kind].clustered => v.namespace = AllNamespaces

NavigationInit ==
  /\ view = [kind |-> 1, namespace |-> AllNamespaces]
  /\ back = << >> /\ forward = << >>
  /\ sort = 1 /\ descending = FALSE
  /\ running = TRUE
  /\ streak = NoStreak
  /\ pressed = 0
-----------------------------------------------------------------------------
(* Keys that choose a view.                                                *)

Key == running /\ pressed < MaxKeys /\ pressed' = pressed + 1

(* rebuild_plane lists the view, and every error of the list ends the      *)
(* event loop: the server has no such list, does not know the kind (a lens *)
(* over a resource that is not installed), forbids it, or does not answer. *)
Rebuild(v) ==
  /\ view' = v
  /\ running' \in {FALSE, Listable(v)}
  /\ streak' = NoStreak /\ UNCHANGED <<sort, descending>>

(* cycle_namespace lists the namespaces first, and that may fail as well.  *)
RebuildNextNamespace ==
  \/ \E names \in NameLists : Rebuild(ToNextNamespace(names, view))
  \/ running' = FALSE /\ UNCHANGED <<view, sorting>>

\* Defect: a new navigation keeps the views that `]` would bring back.
RecordNav_KeepsForward == back' = Append(back, NavPoint(view)) /\ UNCHANGED forward

(* record_nav: the view that is left can be returned to, what was undone   *)
(* cannot be redone.                                                       *)
RecordNav == back' = Append(back, NavPoint(view)) /\ forward' = << >>

Tab       == Key /\ RecordNav /\ Rebuild(ToNextKind(view))
Namespace == Key /\ RecordNav /\ RebuildNextNamespace

Back ==       \* [
  /\ Key
  /\ back # << >>
  /\ back' = Front(back) /\ forward' = Append(forward, NavPoint(view))
  /\ Rebuild(ViewOf(Last(back)))

Forward ==    \* ]
  /\ Key
  /\ forward # << >>
  /\ forward' = Front(forward) /\ back' = Append(back, NavPoint(view))
  /\ Rebuild(ViewOf(Last(forward)))

(* execute_command, next-kind and next-namespace.                          *)
PaletteKind      == Key /\ UNCHANGED stacks /\ Rebuild(ToNextKind(view))
PaletteNamespace == Key /\ UNCHANGED stacks /\ RebuildNextNamespace
-----------------------------------------------------------------------------
(* Keys that choose an order.  The column is kept when the view changes,   *)
(* whatever it means there.                                                *)

SortKey == Key /\ UNCHANGED <<view, stacks, running>>

(* SortColumn::next.                                                       *)
NextSortKey == LET columns == Kinds[view.kind].columns
               IN IF columns = 0 THEN 1 ELSE (sort % columns) + 1

CycleSort ==  \* O, and cycle-sort of the palette, which keeps the direction
  /\ SortKey
  /\ sort' = NextSortKey
  /\ descending' \in {FALSE, descending}
  /\ streak' = NoStreak

ToggleDirection ==
  /\ SortKey
  /\ descending' = ~descending
  /\ streak' = NoStreak /\ UNCHANGED sort

\* Defect: a key pressed again does not turn the rows round.
Turned_Never(column, target) == target = "created"

(* named_sort: turned round if it is the column sorted by, else the newest *)
(* first for a time.                                                       *)
Turned(column, target) == IF sort = column THEN ~descending ELSE target = "created"

NamedSort(target) ==  \* N, P, S and A
  LET column == Kinds[view.kind][target]
  IN /\ SortKey
     /\ IF column = 0 THEN UNCHANGED sorting
        ELSE /\ sort' = column
             /\ descending' = Turned(column, target)
             /\ streak' = IF streak.target = target THEN [streak EXCEPT !.times = @ + 1]
                          ELSE [target |-> target, times |-> 1, sort |-> sort,
                                descending |-> descending]

NavigationNext ==
  \/ Tab \/ Namespace \/ Back \/ Forward \/ PaletteKind \/ PaletteNamespace
  \/ CycleSort \/ ToggleDirection \/ \E target \in Targets : NamedSort(target)

NavigationSpec == NavigationInit /\ [][NavigationNext]_navigationVars
-----------------------------------------------------------------------------
(* Back and forward are a browser's, whatever the palette does in between: *)
(* the two stacks and the view are one trail and a place in it, a new view *)
(* drops what was undone and nothing else does (record_nav, the keys `[`   *)
(* and `]`).                                                               *)
Points == [gvk : {Kinds[k].gvk : k \in DOMAIN Kinds},
           namespace : {AllNamespaces} \cup UNION {Range(names) : names \in NameLists}]
B == INSTANCE Browser WITH Point <- Points,
                           trail <- Append(back, NavPoint(view)) \o Reverse(forward),
                           at    <- Len(back) + 1
IsBrowser == B!BrowserSpec

(* Any error of a list ends the TUI; the one that no server can spare it,  *)
(* of a namespace of a kind that has none, is met only where the operator  *)
(* chose a namespace over such a kind, or stepped to one that the TUI does *)
(* not know to be such.  Going back or forward, through whatever the keys  *)
(* and the palette left in the stacks, never meets it (record_nav,         *)
(* next_kind, rebuild_plane).                                              *)
NamespacesOnlyByChoice ==
  [][running /\ ~Listable(view') =>
       \/ (Namespace \/ PaletteNamespace) /\ Kinds[view.kind].clustered
       \/ (Tab \/ PaletteKind) /\ ~Kinds[view'.kind].scoped]_navigationVars

(* The last sort key the kind has a column for decides the column; pressed *)
(* again in a row it turns the rows round each time, starting from the     *)
(* direction it found if it found its column sorted by, whatever keys came *)
(* before it (named_sort).                                                 *)
LastSortKeyWins ==
  streak # NoStreak =>
    LET column == Kinds[view.kind][streak.target]
        found  == streak.sort = column
        turns  == IF found THEN streak.times ELSE streak.times - 1
    IN /\ sort = column
       /\ descending <=> (turns % 2 = 1)
                           # (IF found THEN streak.descending ELSE streak.target = "created")
=============================================================================
