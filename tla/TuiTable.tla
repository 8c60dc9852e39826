-------------------------------- MODULE TuiTable --------------------------------
(***************************************************************************)
(* The table of the TUI (kaptein-tui/src/lib.rs, run_event_loop): a window *)
(* of the live plane's rows with a selection, re-queried when the plane's  *)
(* revision moved or a key asks for it, while the watch task changes the   *)
(* plane from another thread.  One iteration of the loop is: look at the   *)
(* revision, perhaps re-query, draw, take one key.                         *)
(*                                                                         *)
(* A row is its identity, and the identities are in the order of the sort  *)
(* column; Name gives the name cell, which rows of two namespaces may      *)
(* share.  Help, breadcrumbs, the action list and the [ ] history do not   *)
(* touch the table and are left out.                                       *)
(***************************************************************************)
EXTENDS Integers, Sequences, FiniteSets, SequencesExt

CONSTANTS
  View,        \* (kind, namespace) views
  KindOf,      \* the kind of each view
  Ids,         \* row identities, numbers
  Contents,    \* what the cluster may have of a view when a plane is built
  Name,        \* the name of each row
  Heights,     \* table heights the terminal may give
  MaxDeltas    \* bound on the changes of the planes while they are on screen

ASSUME TuiAssumption ==
  /\ Ids \subseteq Nat /\ IsFiniteSet(Ids) /\ View # {}
  /\ Contents \subseteq SUBSET Ids /\ Contents # {}
  /\ DOMAIN Name = Ids /\ DOMAIN KindOf = View
  /\ Heights \subseteq Nat \ {0} /\ Heights # {}
  /\ MaxDeltas \in Nat

VARIABLES
  view, present, revision,     \* the plane: what it is of, its rows, its revision
  descending,                  \* sort direction
  rows, total,                 \* the fetched window and the number of matching rows
  selected, scroll,            \* absolute positions, counted from 0
  height,                      \* page_height, set by each draw
  lastRevision,                \* last_revision
  jump,                        \* fuzzy jump: [on, master, order] and, history, the view `of`
                               \* which the master is
  palette,                     \* is the palette open
  detail,                      \* the object the detail pane is about, or Nothing
  pc,                          \* where the loop is
  seen,                        \* the revision read before a query, for as long as it is used
  fetched,                     \* history: the plane's rows when `rows` was fetched
  raced,                       \* history: lastRevision may be newer than `rows`
  deltas                       \* changes so far

plane == <<view, present, revision>>
window == <<rows, total, fetched>>
viewport == <<selected, scroll>>
tableVars == <<plane, descending, window, viewport, height, lastRevision, jump, palette,
               detail, pc, seen, raced, deltas>>
--------------------------------------------------------------------------------
Nothing == [of |-> {}, id |-> -1]
RowOf(v, id) == [of |-> {KindOf[v]}, id |-> id]
NoJump == [on |-> FALSE, master |-> <<>>, of |-> {}, order |-> <<>>]
Normal == ~jump.on /\ ~palette

Least(a, b)    == IF a <= b THEN a ELSE b
SatSub(a, b)   == IF a >= b THEN a - b ELSE 0

\* The sort of a query: each place has the element that as many others precede.
Sorted(S, desc) ==
  LET Before(x) == {y \in S : IF desc THEN y > x ELSE y < x}
  IN [k \in 1 .. Cardinality(S) |-> CHOOSE x \in S : Cardinality(Before(x)) = k - 1]

Slice(s, start, end) == SubSeq(s, start + 1, Least(end, Len(s)))

\* query_plane of the plane as it is.
Query(start, end) ==
  LET all == Sorted(present, descending')
  IN /\ rows' = Slice(all, start, end)
     /\ total' = Len(all)
     /\ fetched' = present

\* clamp_viewport, its two results.
ClampSelected(n, sel) == IF n = 0 THEN 0 ELSE Least(sel, n - 1)
ClampScroll(n, sel, scr, h) ==
  LET s == Least(scr, SatSub(n, 1)) cs == ClampSelected(n, sel)
  IN IF n = 0 THEN 0
     ELSE IF cs < s THEN cs
     ELSE IF cs >= s + h THEN SatSub(cs + 1, h)
     ELSE s

\* requery_window: fetch at the scroll asked for, then clamp selection and scroll.
Requery(sel, scr) ==
  /\ Query(scr, scr + height)
  /\ selected' = ClampSelected(total', sel)
  /\ scroll' = ClampScroll(total', sel, scr, height)

TableInit ==
  /\ view \in View /\ present \in Contents /\ revision = Cardinality(present)
  /\ descending = FALSE
  /\ height \in Heights
  /\ rows = Slice(Sorted(present, FALSE), 0, height)
  /\ total = Cardinality(present)
  /\ selected = 0 /\ scroll = 0
  /\ lastRevision = revision
  /\ jump = NoJump /\ palette = FALSE
  /\ detail = Nothing
  /\ pc = "loop" /\ seen = 0
  /\ fetched = present /\ raced = FALSE /\ deltas = 0
--------------------------------------------------------------------------------
\* The top of the loop: nothing new, or jump mode or the palette holds the rows still.
LoopIdle ==
  /\ pc = "loop"
  /\ ~Normal \/ revision = lastRevision
  /\ pc' = "draw"
  /\ UNCHANGED <<plane, descending, window, viewport, height, lastRevision, jump, palette,
                 detail, seen, raced, deltas>>

\* The top of the loop: the revision moved.  It is read before the query.
LoopChanged ==
  /\ pc = "loop"
  /\ Normal /\ revision # lastRevision
  /\ seen' = revision
  /\ pc' = "refresh"
  /\ UNCHANGED <<plane, descending, window, viewport, height, lastRevision, jump, palette,
                 detail, raced, deltas>>

\* Defect: the revision is remembered and the window is not fetched.
Refresh_NoQuery ==
  /\ pc = "refresh"
  /\ lastRevision' = seen /\ raced' = FALSE /\ seen' = 0
  /\ pc' = "draw"
  /\ UNCHANGED <<plane, descending, window, viewport, height, jump, palette, detail, deltas>>

\* requery_window, and the revision read before it is remembered.
Refresh ==
  /\ pc = "refresh"
  /\ UNCHANGED descending
  /\ Requery(selected, scroll)
  /\ lastRevision' = seen /\ raced' = FALSE /\ seen' = 0
  /\ pc' = "draw"
  /\ UNCHANGED <<plane, height, jump, palette, detail, deltas>>

\* A frame; the terminal may have been resized.
Draw ==
  /\ pc = "draw"
  /\ height' \in Heights
  /\ pc' = "key"
  /\ UNCHANGED <<plane, descending, window, viewport, lastRevision, jump, palette, detail,
                 seen, raced, deltas>>

\* No key within 100 ms, or one that does nothing to the table.
NoKey ==
  /\ pc = "key" /\ pc' = "loop"
  /\ UNCHANGED <<plane, descending, window, viewport, height, lastRevision, jump, palette,
                 detail, seen, raced, deltas>>

\* What every key below does: it is taken at "key" and the loop starts over at `next`.
Key(next) == pc = "key" /\ pc' = next /\ UNCHANGED <<height, seen>>

\* The table's part of a movement: jump mode only moves, else the window is re-queried.
Move(sel, scr) ==
  IF jump.on THEN selected' = sel /\ scroll' = scr /\ UNCHANGED window
             ELSE Requery(sel, scr)
ListLen == IF jump.on THEN Len(jump.order) ELSE total
Still == UNCHANGED <<plane, lastRevision, jump, palette, detail, raced, deltas>>

Down ==       \* j
  /\ ~palette /\ Key("loop")
  /\ UNCHANGED descending
  /\ LET sel == Least(selected + 1, SatSub(ListLen, 1))
     IN Move(sel, IF sel >= scroll + height THEN SatSub(sel + 1, height) ELSE scroll)
  /\ Still

Up ==         \* k
  /\ ~palette /\ Key("loop")
  /\ UNCHANGED descending
  /\ LET sel == SatSub(selected, 1) IN Move(sel, Least(scroll, sel))
  /\ Still

Top ==        \* g
  /\ ~palette /\ Key("loop")
  /\ UNCHANGED descending
  /\ Move(0, 0)
  /\ Still

Bottom ==     \* G: scrolls to one row before the window that ends at the selection
  /\ ~palette /\ Key("loop")
  /\ UNCHANGED descending
  /\ LET sel == SatSub(ListLen, 1) IN Move(sel, SatSub(sel, height))
  /\ Still

Sort ==       \* O N A P S
  /\ ~palette /\ Key("loop")
  /\ descending' \in BOOLEAN
  /\ Move(0, 0)
  /\ Still

\* rebuild_plane: a new plane, seeded with what the cluster has of the view.
Rebuilt(v) ==
  /\ view' = v
  /\ present' \in Contents
  /\ revision' = Cardinality(present')

\* Ctrl-R, [ and ] leave jump mode to itself, Tab and n do not.
Navigate(v) ==
  /\ ~palette /\ (v # view \/ ~jump.on)
  /\ Key("query")
  /\ Rebuilt(v)
  /\ UNCHANGED <<descending, window, viewport, lastRevision, jump, palette, detail, raced, deltas>>

NavigateQuery ==
  /\ pc = "query" /\ pc' = "revision"
  /\ UNCHANGED descending
  /\ Query(0, height)
  /\ selected' = 0 /\ scroll' = 0
  /\ seen' = revision
  /\ UNCHANGED <<plane, height, lastRevision, jump, palette, detail, raced, deltas>>

\* The revision is read after the query; a delta may have come between.
NavigateRevision ==
  /\ pc = "revision" /\ pc' = "loop"
  /\ lastRevision' = revision
  /\ raced' = (revision # seen) /\ seen' = 0
  /\ detail' = Nothing
  /\ UNCHANGED <<plane, descending, window, viewport, height, jump, palette, deltas>>
--------------------------------------------------------------------------------
\* Defect: the selection's absolute position is used in the window.
Target_Absolute ==
  IF jump.on THEN IF selected + 1 \in DOMAIN jump.order
                  THEN RowOf(view, jump.master[jump.order[selected + 1]]) ELSE Nothing
  ELSE IF selected + 1 \in DOMAIN rows THEN RowOf(view, rows[selected + 1]) ELSE Nothing

\* The object a key acts on: the name in selected_row or jump_selected_row, of the kind
\* that is on screen.
Target ==
  IF jump.on THEN IF selected + 1 \in DOMAIN jump.order
                  THEN RowOf(view, jump.master[jump.order[selected + 1]]) ELSE Nothing
  ELSE LET k == SatSub(selected, scroll) + 1
       IN IF k \in DOMAIN rows THEN RowOf(view, rows[k]) ELSE Nothing

\* d i h y l B W: the detail pane shows the row, or nothing when the call fails.
Act ==
  /\ ~palette /\ Key("loop")
  /\ Target # Nothing
  /\ detail' \in {Target, Nothing}
  /\ UNCHANGED <<plane, descending, window, viewport, lastRevision, jump, palette, raced, deltas>>

OpenJump ==   \* /
  /\ ~palette /\ Key("loop")
  /\ LET all == Sorted(present, descending)
     IN /\ jump' = [on |-> TRUE, master |-> all, of |-> {view},
                    order |-> [k \in DOMAIN all |-> k]]
        /\ total' = Len(all)
  /\ selected' = 0 /\ scroll' = 0
  /\ UNCHANGED <<plane, descending, rows, fetched, lastRevision, palette, detail, raced, deltas>>

\* A typed character or a backspace: fuzzy_rerank gives any choice of the master's rows.
Rerank ==
  /\ jump.on /\ ~palette /\ Key("loop")
  /\ \E S \in SUBSET DOMAIN jump.master, best \in BOOLEAN :
       jump' = [jump EXCEPT !.order = Sorted(S, best)]
  /\ selected' = 0 /\ scroll' = 0
  /\ UNCHANGED <<plane, descending, window, lastRevision, palette, detail, raced, deltas>>

CancelJump == \* Esc: the window is fetched at the scroll jump mode left
  /\ jump.on /\ ~palette /\ Key("loop")
  /\ jump' = NoJump
  /\ UNCHANGED descending
  /\ Query(scroll, scroll + height)
  /\ selected' = Least(selected, SatSub(total', 1))
  /\ UNCHANGED <<plane, scroll, lastRevision, palette, detail, raced, deltas>>

\* Enter on an empty list only leaves jump mode.
AcceptNone ==
  /\ jump.on /\ ~palette /\ Key("loop")
  /\ selected + 1 \notin DOMAIN jump.order
  /\ jump' = NoJump
  /\ UNCHANGED <<plane, descending, window, viewport, lastRevision, palette, detail, raced, deltas>>

\* Enter: look the chosen row up in the whole store, by its name.
AcceptJump ==
  /\ jump.on /\ ~palette /\ Key("window")
  /\ selected + 1 \in DOMAIN jump.order
  /\ jump' = NoJump
  /\ LET name == Name[Target.id]
         full == Sorted(present, descending)
         same == {k \in DOMAIN full : Name[full[k]] = name}
     IN /\ total' = Len(full)
        /\ selected' = IF same = {} THEN selected
                       ELSE (CHOOSE k \in same : \A j \in same : k <= j) - 1
        /\ scroll' = ClampScroll(total', selected', 0, height)
  /\ UNCHANGED <<plane, descending, rows, fetched, lastRevision, palette, detail, raced, deltas>>

AcceptWindow ==
  /\ pc = "window" /\ pc' = "loop"
  /\ UNCHANGED descending
  /\ Query(scroll, scroll + height)
  /\ UNCHANGED <<plane, viewport, height, lastRevision, jump, palette, detail, seen, raced, deltas>>
--------------------------------------------------------------------------------
OpenPalette ==
  /\ Normal /\ Key("loop")
  /\ palette' = TRUE
  /\ UNCHANGED <<plane, descending, window, viewport, lastRevision, jump, detail, raced, deltas>>

ClosePalette == \* Esc, or Enter on a query that matches no command
  /\ palette /\ Key("loop")
  /\ palette' = FALSE
  /\ UNCHANGED <<plane, descending, window, viewport, lastRevision, jump, detail, raced, deltas>>

\* execute_command, next kind or namespace: the old plane's revision stays in lastRevision.
PaletteNavigate(v) ==
  /\ palette /\ Key("command")
  /\ Rebuilt(v) /\ raced' = TRUE
  /\ UNCHANGED <<descending, window, viewport, lastRevision, jump, palette, detail, deltas>>

\* execute_command, cycle sort and toggle direction.
PaletteSort ==
  /\ palette /\ Key("command")
  /\ descending' \in BOOLEAN
  /\ UNCHANGED <<plane, window, viewport, lastRevision, jump, palette, detail, raced, deltas>>

\* The end of both: the first window, without its total.
PaletteQuery ==
  /\ pc = "command" /\ pc' = "loop"
  /\ rows' = Slice(Sorted(present, descending), 0, height)
  /\ fetched' = present
  /\ selected' = 0 /\ scroll' = 0 /\ detail' = Nothing /\ palette' = FALSE
  /\ UNCHANGED <<plane, descending, total, height, lastRevision, jump, seen, raced, deltas>>

\* execute_command, describe and diagnose: rows.get(*selected).
PaletteAct ==
  /\ palette /\ Key("loop")
  /\ palette' = FALSE
  /\ selected + 1 \in DOMAIN rows
  /\ detail' \in {RowOf(view, rows[selected + 1]), Nothing}
  /\ UNCHANGED <<plane, descending, window, viewport, lastRevision, jump, raced, deltas>>

\* The watch task upserts or removes a row.
Delta(id) ==
  /\ deltas < MaxDeltas /\ deltas' = deltas + 1
  /\ revision' = revision + 1
  /\ present' = IF id \in present THEN present \ {id} ELSE present \union {id}
  /\ UNCHANGED <<view, descending, window, viewport, height, lastRevision, jump, palette,
                 detail, pc, seen, raced>>

TableNext ==
  \/ LoopIdle \/ LoopChanged \/ Refresh \/ Draw \/ NoKey
  \/ Down \/ Up \/ Top \/ Bottom \/ Sort
  \/ \E v \in View : Navigate(v) \/ PaletteNavigate(v)
  \/ NavigateQuery \/ NavigateRevision
  \/ Act
  \/ OpenJump \/ Rerank \/ CancelJump \/ AcceptNone \/ AcceptJump \/ AcceptWindow
  \/ OpenPalette \/ ClosePalette \/ PaletteSort \/ PaletteQuery \/ PaletteAct
  \/ \E id \in Ids : Delta(id)

TableSpec == TableInit /\ [][TableNext]_tableVars
--------------------------------------------------------------------------------
\* Types; the jump list ranks rows of its master; the window is never longer than the
\* tallest table.
TableTypeOK ==
  /\ view \in View /\ present \subseteq Ids /\ revision \in Nat
  /\ descending \in BOOLEAN
  /\ rows \in Seq(Ids) /\ \E h \in Heights : Len(rows) <= h
  /\ total \in 0 .. Cardinality(Ids)
  /\ selected \in 0 .. Cardinality(Ids) /\ scroll \in 0 .. Cardinality(Ids)
  /\ height \in Heights /\ lastRevision \in Nat /\ seen \in Nat
  /\ jump.on \in BOOLEAN /\ jump.master \in Seq(Ids) /\ jump.of \subseteq View
  /\ Range(jump.order) \subseteq DOMAIN jump.master
  /\ palette \in BOOLEAN /\ ~(palette /\ jump.on)
  /\ detail.id \in Ids \union {-1}
  /\ pc \in {"loop", "refresh", "draw", "key", "query", "revision", "window", "command"}
  /\ fetched \subseteq Ids /\ raced \in BOOLEAN /\ deltas \in 0 .. MaxDeltas

\* The row drawn in reverse video, if one is: row `selected - scroll` of the frame, which is
\* one of what was listed when jump mode began.
Highlighted ==
  LET shown == IF jump.on THEN Slice(jump.order, scroll, scroll + height) ELSE rows
      k == SatSub(selected, scroll) + 1
  IN IF k \notin DOMAIN shown \/ k > height THEN Nothing
     ELSE IF jump.on THEN [of |-> {KindOf[v] : v \in jump.of}, id |-> jump.master[shown[k]]]
     ELSE RowOf(view, shown[k])

\* Tab in jump mode leaves the list of another kind than the one on screen.
JumpIsOfOldKind == jump.on /\ {KindOf[v] : v \in jump.of} # {KindOf[view]}

\* A key acts on the row the operator sees highlighted, in the table and in jump mode,
\* whatever moves, deltas, resizes and rebuilds came before; with a jump list of another
\* kind than the one on screen, on the object of the highlighted name.
KeyActsOnHighlighted ==
  [][(Act /\ detail' # Nothing /\ Highlighted # Nothing) =>
       /\ detail'.id = Highlighted.id
       /\ ~JumpIsOfOldKind => detail' = Highlighted]_tableVars

\* A change of the plane that the table does not show yet is one the next look at the
\* revision notices, unless a rebuild read the revision late or not at all.
UnseenDeltaIsNoticed ==
  (pc = "loop" /\ Normal /\ ~raced /\ present # fetched) => revision # lastRevision

\* What the loop relies on between two keys: positions within the lists they index, and a
\* remembered revision that tells every change the table does not show.
WindowIsWatched == TableTypeOK /\ UnseenDeltaIsNoticed

\* lib.rs:1240-1241: "the selected resource's owners + dependents" are shown, whose row is the
\* highlighted one: of the kind it is of, not the kind on screen.
JumpActsOnItsKind ==
  [][(Act /\ detail' # Nothing /\ Highlighted # Nothing) => detail' = Highlighted]_tableVars

\* lib.rs:1624: palette commands are "the same actions as the single-key bindings".
PaletteActsOnHighlighted ==
  [][(PaletteAct /\ detail' # Nothing /\ Highlighted # Nothing) => detail' = Highlighted]_tableVars

\* lib.rs:1905-1906: "`rows` always matches `[scroll, scroll+page_height)`", of the rows
\* the plane had when they were fetched.
RowsMatchViewport ==
  (pc = "loop" /\ Normal) => rows = Slice(Sorted(fetched, descending), scroll, scroll + height)

\* lib.rs:793-794: "The informer keeps the view live on its own".
NoDeltaIsMissed ==
  (pc = "loop" /\ Normal /\ present # fetched) => revision # lastRevision
================================================================================
