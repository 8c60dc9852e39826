---------------------------- MODULE LensDiscovery ----------------------------
(***************************************************************************)
(* Extensions on disk (core/extension.rs) and the lenses among them that   *)
(* the TUI offers as kinds.  A tree is its extensions in the order they    *)
(* are walked, each in a directory of its own: what becomes of its         *)
(* manifest, and what its entrypoint holds.                                *)
(***************************************************************************)
EXTENDS Lens, SequencesExt

Dirs(tree, Test(_)) == {tree[e].dir : e \in {f \in DOMAIN tree : Test(tree[f])}}

(* discover: what is valid, and where it is not.                           *)
Discover(tree) ==
  [found    |-> SelectSeq(tree, LAMBDA e : e.manifest = "valid"),
   problems |-> Dirs(tree, LAMBDA e : e.manifest # "valid")]

IsLens(e) == e.manifest = "valid" /\ e.kind = "lens"
HasTarget(e) == IsLens(e) /\ e.entry.is = "lens"       \* read_lens_target

ByTarget(a, b) ==
  \/ a.entry.target < b.entry.target
  \/ a.entry.target = b.entry.target /\ a.id < b.id

(* discover_lenses: the lenses with a target, in its order.                *)
DiscoverLenses(tree) ==
  [lenses   |-> SortSeq(SelectSeq(tree, HasTarget), ByTarget),
   problems |-> Discover(tree).problems \cup Dirs(tree, LAMBDA e : IsLens(e) /\ ~ HasTarget(e))]

(* load_lens: the whole file, as a lens that validates.                    *)
Loads(e) == e.entry.view # Absent /\ ValidViewdef(e.entry.view)

(* `kaptein lenses`.                                                       *)
EnabledLenses(tree, disabled) ==
  SelectSeq(DiscoverLenses(tree).lenses, LAMBDA e : e.id \notin disabled)

(* from_lens: where the columns are that a key of the TUI sorts by.        *)
FirstColumn(vd, Test(_)) == SelectInSeq(vd.columns, Test)
OfField(vd, field) == FirstColumn(vd, LAMBDA c : c.field = field)

FromLens(e) ==
  LET vd == e.entry.view
      names == OfField(vd, <<Seg(<<"metadata">>, << >>), Seg(<<"name">>, << >>)>>)
      namespaces == OfField(vd, <<Seg(<<"metadata">>, << >>), Seg(<<"namespace">>, << >>)>>)
  IN [dir |-> e.dir, gvk |-> e.entry.target, columns |-> Len(vd.columns),
      name |-> IF names = 0 THEN 1 ELSE names, namespace |-> namespaces,
      status |-> FirstColumn(vd, LAMBDA c : c.kind = "status"),
      created |-> FirstColumn(vd, LAMBDA c : c.kind = "timestamp"),
      scoped |-> namespaces = 0]

(* discover_lens_kinds: the kinds offered, and the directories that were   *)
(* reported instead.                                                       *)
DiscoverLensKinds(tree, disabled) ==
  LET enabled == EnabledLenses(tree, disabled)
      loaded == SelectSeq(enabled, Loads)
  IN [kinds    |-> [k \in DOMAIN loaded |-> FromLens(loaded[k])],
      reported |-> DiscoverLenses(tree).problems \cup Dirs(enabled, LAMBDA e : ~ Loads(e))]
=============================================================================
