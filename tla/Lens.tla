-------------------------------- MODULE Lens --------------------------------
(***************************************************************************)
(* View definitions (viewmodel/lens.rs): validation, status inference,     *)
(* health checks and the rendering of rows.  A path is a sequence of       *)
(* segments, a member's name and the indexes after it.  Identifiers and    *)
(* i18n keys are well formed or not, nothing else is told of them: a       *)
(* malformed one is the empty sequence.                                    *)
(***************************************************************************)
EXTENDS TableQuery

LensSchemaVersion == 1

NumericOps == {"gt", "gte", "lt", "lte"}
Levels == {"ok", "info", "warning", "error", "pending"}

-----------------------------------------------------------------------------
(* resolve_field: an index no usize holds is dropped by split_subscripts.  *)

Seg(ident, subs) == [ident |-> ident, subs |-> subs]
Huge == -1

Indexed(v, subs) ==
    LET kept == SelectSeq(subs, LAMBDA n : n # Huge)
        at[k \in 0..Len(kept)] == IF k = 0 THEN v ELSE Item(at[k - 1], kept[k])
    IN  at[Len(kept)]

ResolveField(root, path) ==
    LET at[k \in 0..Len(path)] ==
            IF k = 0 THEN root
            ELSE Indexed(Member(at[k - 1], path[k].ident), path[k].subs)
    IN  at[Len(path)]

\* valid_field_path: the first segment takes no index.
ValidFieldPath(path) ==
    /\ path # <<>>
    /\ path[1].subs = <<>>
    /\ \A k \in DOMAIN path : path[k].ident # <<>>

-----------------------------------------------------------------------------
(* validate_viewdef: TRUE where it returns no problem.                     *)

ValueFits(op, v) ==
    /\ op \in NumericOps => Is(v, "int") \/ Is(v, "real")
    /\ op = "contains" => Is(v, "str")

DistinctIds(seq) ==
    \A i, j \in DOMAIN seq : seq[i].id # "" /\ (seq[i].id = seq[j].id => i = j)

ValidColumn(col) ==
    IF col.kind # "status" /\ col.field = <<>> THEN FALSE
    ELSE col.field = <<>> \/ ValidFieldPath(col.field)

ValidViewdef(vd) ==
    /\ vd.api_version = LensSchemaVersion
    /\ DistinctIds(vd.columns)
    /\ \A c \in DOMAIN vd.columns : ValidColumn(vd.columns[c])
    /\ \A r \in DOMAIN vd.status :
           ValidFieldPath(vd.status[r].field) /\ ValueFits(vd.status[r].op, vd.status[r].value)
    /\ DistinctIds(vd.actions)
    /\ \A r \in DOMAIN vd.conditions : vd.conditions[r].status \in {"True", "False", "Unknown"}
    /\ DistinctIds(vd.health)
    /\ \A h \in DOMAIN vd.health :
           ValidFieldPath(vd.health[h].field) /\ ValueFits(vd.health[h].op, vd.health[h].value)

-----------------------------------------------------------------------------
(* Rules over a resource.                                                  *)

Compares(op, a, b) ==
    CASE op = "gt" -> a > b [] op = "gte" -> a >= b
      [] op = "lt" -> a < b [] op = "lte" -> a <= b

\* An absent field never holds, a number that is no i64 compares with nothing.
\* Texts contain only themselves here.
PredicateHolds(rule, resource) ==
    LET actual == ResolveField(resource, rule.field)
    IN  /\ actual # Absent
        /\ CASE rule.op = "eq" -> actual = rule.value
             [] rule.op = "ne" -> actual # rule.value
             [] rule.op \in NumericOps ->
                  /\ Is(actual, "int") /\ Is(rule.value, "int")
                  /\ Compares(rule.op, actual.int, rule.value.int)
             [] rule.op = "contains" ->
                  Is(actual, "str") /\ Is(rule.value, "str") /\ actual = rule.value

\* Any condition of that type and status will do.
ConditionMatches(rule, resource) ==
    LET list == Member(Member(resource, <<"status">>), <<"conditions">>)
    IN  /\ Is(list, "arr")
        /\ \E c \in DOMAIN list.arr :
               /\ Member(list.arr[c], <<"type">>) = Str(rule.condition_type)
               /\ Member(list.arr[c], <<"status">>) = Str(<<rule.status>>)

FirstWhere(seq, Test(_)) ==
    IF \E i \in DOMAIN seq : Test(seq[i])
    THEN CHOOSE i \in DOMAIN seq : Test(seq[i]) /\ \A j \in 1..(i - 1) : ~ Test(seq[j])
    ELSE 0

\* Defect: conditions go before the scalar rules.
EvaluateStatus_ConditionsFirst(vd, resource) ==
    LET s == FirstWhere(vd.status, LAMBDA r : PredicateHolds(r, resource))
        c == FirstWhere(vd.conditions, LAMBDA r : ConditionMatches(r, resource))
    IN  IF c # 0 THEN vd.conditions[c].level
        ELSE IF s # 0 THEN vd.status[s].level ELSE "none"

EvaluateStatus(vd, resource) ==
    LET s == FirstWhere(vd.status, LAMBDA r : PredicateHolds(r, resource))
        c == FirstWhere(vd.conditions, LAMBDA r : ConditionMatches(r, resource))
    IN  IF s # 0 THEN vd.status[s].level
        ELSE IF c # 0 THEN vd.conditions[c].level ELSE "none"

EvaluateHealth(vd, resource) ==
    SelectSeq(vd.health, LAMBDA check : ~ PredicateHolds(check, resource))

-----------------------------------------------------------------------------
(* render_row: the cells of one row.                                       *)

EmptyCellFor(kind) == IF kind = "number" THEN Number(0) ELSE Text(Str(<<>>))

CellForValue(v, kind) ==
    CASE Is(v, "int") -> Number(v.int)
      [] v = Marker -> Redacted
      [] Is(v, "str") -> Text(v)
      [] v = Null \/ v = Absent -> EmptyCellFor(kind)
      [] OTHER -> Text(v)

CellForColumn(col, resource, vd) ==
    IF col.kind = "status"
    THEN LET level == EvaluateStatus(vd, resource)
         IN  Status(Str(<<IF level = "none" THEN "unknown" ELSE level>>))
    ELSE IF col.field = <<>> THEN EmptyCellFor(col.kind)
    ELSE CellForValue(ResolveField(resource, col.field), col.kind)

RenderRow(vd, resource) ==
    [c \in DOMAIN vd.columns |-> CellForColumn(vd.columns[c], resource, vd)]

=============================================================================
