----------------------------- MODULE Redaction ------------------------------
(***************************************************************************)
(* redact_object (core/redact.rs): the one place where values of secrets   *)
(* are masked before an object is shown.  A key is its sequence of words   *)
(* and separators, folded to lower case.  Sensitive is SENSITIVE_KEYS as   *)
(* such sequences; SecretKinds are the kinds is_secret_kind accepts.       *)
(* An object has a kind, annotations and data, as DynamicObject has; the   *)
(* kind is what its `types` say, "" where it carries none, as the items of *)
(* a list of a built-in kind do.                                           *)
(***************************************************************************)
EXTENDS JsonValue, SequencesExt

CONSTANTS
    Sensitive,      \* SENSITIVE_KEYS
    SecretKinds,    \* the kinds of is_secret_kind
    CopyKeys        \* annotation keys that hold a copy of the object's data

Mask == Str(<<"[REDACTED]">>)

HasPart(key, part) ==
    \E i \in 0..(Len(key) - Len(part)) : SubSeq(key, i + 1, i + Len(part)) = part

IsSensitiveKey(key) ==
    \E s \in Sensitive :
        \/ key = s
        \/ \E sep \in {".", "_", "-"} : IsSuffix(<<sep>> \o s, key)
        \/ IsPrefix(s \o <<".">>, key)
        \/ HasPart(key, <<".">> \o s \o <<".">>)

IsSensitiveAnnotation(key) == key \in CopyKeys \/ IsSensitiveKey(key)

\* {"name": "DB_PASSWORD", "value": ...}: the value belongs to the name.
PairIsSensitive(f) ==
    /\ {<<"name">>, <<"value">>} \subseteq DOMAIN f
    /\ Is(f[<<"name">>], "str")
    /\ IsSensitiveKey(f[<<"name">>].str)

\* Defect: arrays are not searched.
RECURSIVE RedactValue_NoArrays(_)
RedactValue_NoArrays(v) ==
    IF Is(v, "obj")
    THEN Obj([k \in DOMAIN v.obj |->
                IF IsSensitiveKey(k) \/ (PairIsSensitive(v.obj) /\ k = <<"value">>)
                THEN Mask ELSE RedactValue_NoArrays(v.obj[k])])
    ELSE v

RECURSIVE RedactValue(_)
RedactValue(v) ==
    CASE Is(v, "obj") ->
           Obj([k \in DOMAIN v.obj |->
                  IF IsSensitiveKey(k) \/ (PairIsSensitive(v.obj) /\ k = <<"value">>)
                  THEN Mask ELSE RedactValue(v.obj[k])])
      [] Is(v, "arr") -> Arr([i \in DOMAIN v.arr |-> RedactValue(v.arr[i])])
      [] OTHER        -> v

\* Every value of a map is masked; what is no map is left to redact_value.
MaskAll(v) == IF Is(v, "obj") THEN Obj([k \in DOMAIN v.obj |-> Mask]) ELSE v

\* What a Secret holds is masked whatever its keys are called.
MaskedSecret(data) ==
    Obj([k \in DOMAIN data.obj |->
            IF k \in {<<"data">>, <<"stringData">>} THEN MaskAll(data.obj[k])
            ELSE data.obj[k]])

(* A Secret is one that says so: what came in a list is masked only where  *)
(* its keys are sensitive, and annotations of other kinds not at all.      *)
RedactObject(o) ==
    LET secret == o.kind \in SecretKinds
    IN  [o EXCEPT
            !.annotations = [k \in DOMAIN @ |->
                IF secret /\ IsSensitiveAnnotation(k) THEN Mask ELSE @[k]],
            !.data = RedactValue(IF secret THEN MaskedSecret(@) ELSE @)]

=============================================================================
