----------------------------- MODULE JsonValue ------------------------------
(***************************************************************************)
(* The part of serde_json::Value the program uses.  A value is a record    *)
(* with one field, named for its variant; `real` stands for a number that  *)
(* is no i64.  A text is the sequence of its words.                        *)
(***************************************************************************)
EXTENDS Integers, Sequences

Str(s)  == [str |-> s]
Int_(n) == [int |-> n]
Real(n) == [real |-> n]
Bool(b) == [bool |-> b]
Arr(s)  == [arr |-> s]
Obj(f)  == [obj |-> f]
Null    == [null |-> TRUE]
Absent  == [absent |-> TRUE]      \* None

Is(v, variant) == variant \in DOMAIN v

\* Value::get of a key, or of a zero-based index.
Member(v, key) == IF Is(v, "obj") /\ key \in DOMAIN v.obj THEN v.obj[key] ELSE Absent
Item(v, n)     == IF Is(v, "arr") /\ n < Len(v.arr) THEN v.arr[n + 1] ELSE Absent

\* Everything a value prints: its own and its parts' scalars.
RECURSIVE Scalars(_)
Scalars(v) ==
    CASE Is(v, "obj") -> UNION {Scalars(v.obj[k]) : k \in DOMAIN v.obj}
      [] Is(v, "arr") -> UNION {Scalars(v.arr[i]) : i \in DOMAIN v.arr}
      [] OTHER        -> {v}

=============================================================================
