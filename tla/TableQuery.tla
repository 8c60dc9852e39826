----------------------------- MODULE TableQuery -----------------------------
(***************************************************************************)
(* Sorting, filtering and windowing of table rows (viewmodel/table.rs, the *)
(* query of mem_plane.rs, `kaptein get`).  A row is a sequence of cells.   *)
(* A text is the JSON value that prints as it; Place is its place in the   *)
(* lexical order of texts, Needles the filter expressions (trimmed and     *)
(* folded) it contains.                                                    *)
(***************************************************************************)
EXTENDS Integers, Sequences, FiniteSets, JsonValue

CONSTANTS Place(_), Needles(_)

Marker == Str(<<"[REDACTED]">>)

Text(t)      == [kind |-> "text", text |-> t]
Number(n)    == [kind |-> "number", number |-> n]
Timestamp(n) == [kind |-> "timestamp", number |-> n]
Status(t)    == [kind |-> "status", text |-> t]
Redacted     == [kind |-> "redacted"]

CellText(c) ==
    CASE c.kind \in {"text", "status"}      -> c.text
      [] c.kind \in {"number", "timestamp"} -> Int_(c.number)
      [] c.kind = "redacted"                -> Marker

\* Cells of one kind compare by what they hold, others by their texts; the
\* result is negative, zero or positive.
CmpCells(a, b) ==
    IF a.kind = b.kind /\ a.kind \in {"number", "timestamp"}
    THEN a.number - b.number
    ELSE Place(CellText(a)) - Place(CellText(b))

\* A row without the cell is less than one with it.
CmpRows(a, b, idx, descending) ==
    LET ord == CASE idx \in DOMAIN a /\ idx \in DOMAIN b -> CmpCells(a[idx], b[idx])
                 [] idx \in DOMAIN a /\ idx \notin DOMAIN b -> 1
                 [] idx \notin DOMAIN a /\ idx \in DOMAIN b -> -1
                 [] OTHER -> 0
    IN  IF descending THEN -ord ELSE ord

\* Iterator::position of a column id; 0 if no column has it.
Position(ids, id) ==
    IF \E i \in DOMAIN ids : ids[i] = id
    THEN CHOOSE i \in DOMAIN ids : ids[i] = id /\ \A j \in 1..(i - 1) : ids[j] # id
    ELSE 0

\* slice::sort_by of up to 20 elements is an insertion sort: each element moves
\* left past those it is less than.
InsertedAt(sorted, x, Less(_, _)) ==
    LET stays == {k \in DOMAIN sorted : ~ Less(x, sorted[k])}
        at    == IF stays = {} THEN 0 ELSE CHOOSE k \in stays : \A l \in stays : l <= k
    IN  SubSeq(sorted, 1, at) \o <<x>> \o SubSeq(sorted, at + 1, Len(sorted))

\* Defect: descending order is ascending order turned round.
SortIndices_Reversed(indices, rows, ids, sort) ==
    LET idx == Position(ids, sort.column)
        Less(x, y) == CmpRows(rows[x], rows[y], idx, FALSE) < 0
        done[k \in 0..Len(indices)] ==
            IF k = 0 THEN <<>> ELSE InsertedAt(done[k - 1], indices[k], Less)
        n == Len(indices)
    IN  IF idx = 0 THEN indices
        ELSE IF sort.descending THEN [k \in 1..n |-> done[n][n + 1 - k]] ELSE done[n]

SortIndices(indices, rows, ids, sort) ==
    LET idx == Position(ids, sort.column)
        Less(x, y) == CmpRows(rows[x], rows[y], idx, sort.descending) < 0
        done[k \in 0..Len(indices)] ==
            IF k = 0 THEN <<>> ELSE InsertedAt(done[k - 1], indices[k], Less)
    IN  IF idx = 0 THEN indices ELSE done[Len(indices)]

\* The filter looks at the text of every cell; an empty one keeps all rows.
Keeps(row, filter) ==
    filter = "" \/ \E c \in DOMAIN row : filter \in Needles(CellText(row[c]))

FilterIndices(indices, rows, filter) ==
    SelectSeq(indices, LAMBDA i : Keeps(rows[i], filter))

\* The half-open window [start, end) of what matches.
Window(matching, start, end) ==
    LET total == Len(matching)
        from  == IF start < total THEN start ELSE total
        upto  == IF end < total THEN end ELSE total
    IN  SubSeq(matching, from + 1, IF upto < from THEN from ELSE upto)

\* MemPlane::query, undisturbed: sort, filter, then cut the window.
QueryIndices(rows, ids, query) ==
    LET all == [i \in DOMAIN rows |-> i]
    IN  FilterIndices(SortIndices(all, rows, ids, query.sort), rows, query.filter)

Query(rows, ids, query) ==
    LET matching == QueryIndices(rows, ids, query)
    IN  [rows  |-> Window(matching, query.start, query.end),
         total |-> Len(matching)]

=============================================================================
