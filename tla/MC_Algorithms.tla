---------------------------- MODULE MC_Algorithms ----------------------------
(***************************************************************************)
(* Model-checking instance of Algorithms and Navigation: small inputs of   *)
(* every kind, and a few keys.                                             *)
(***************************************************************************)
EXTENDS Algorithms, Navigation, TLC

SeqsUpTo(S, n) == UNION {[1..k -> S] : k \in 0..n}

(* Texts, with their place in the order and the filters they contain.      *)
MCPlace(v) ==
  CASE v = Str(<< >>) -> 0 [] v = Marker -> 1 [] v = Int_(10) -> 2 [] v = Str(<<"5x">>) -> 3
    [] v = Int_(9) -> 4 [] v = Str(<<"a">>) -> 5 [] v = Str(<<"b">>) -> 6
MCNeedles(v) == IF v = Str(<<"a">>) THEN {"a"} ELSE {}

MCColumnIds == <<"name", "n">>
MCRowLists == SeqsUpTo({<<Text(Str(<<"a">>)), Number(10)>>, <<Text(Str(<<"b">>)), Number(9)>>,
                        <<Text(Str(<<"a">>))>>, <<Text(Str(<<"a">>)), Number(9)>>,
                        <<Redacted, Text(Str(<<"5x">>))>>}, 3)
MCQueries == [sort : [column : {"none", "name", "n"}, descending : BOOLEAN],
              filter : {"", "a"}, start : {0, 1}, end : {0, 1, 9}]

(* What `kaptein get` lists: names that repeat, dates that may be missing. *)
Listed(name, created) ==
  <<Text(Str(name)), Text(Str(<<"b">>)), Text(Str(<< >>)), Text(Str(created))>>
MCListings == SeqsUpTo({Listed(<<"a">>, <<"b">>), Listed(<<"a">>, << >>), Listed(<<"b">>, <<"a">>)}, 3)
MCSortFlags == {"name", "ns", "age", "status"}

(* Lenses: columns, rules, conditions and checks over a few fields.        *)
Path(names) == [k \in DOMAIN names |-> Seg(<<names[k]>>, << >>)]
Phase    == Path(<<"phase">>)
Data     == Path(<<"data">>)
Password == Path(<<"data", "password">>)
EnvValue == <<Seg(<<"env">>, <<>>)>>
FirstEnv == <<Seg(<<"data">>, <<>>), Seg(<<"env">>, <<0, Huge>>), Seg(<<"value">>, <<>>)>>
Copy     == Path(<<"metadata", "annotations", "last-applied">>)
Column(id, kind, field) == [id |-> id, kind |-> kind, field |-> field]
Rule(field, op, v, level) == [field |-> field, op |-> op, value |-> v, level |-> level]

ColumnLists ==
  {<<Column("phase", "text", Phase), Column("health", "status", << >>)>>,
   <<Column("data", "text", Data), Column("count", "number", Path(<<"count">>))>>,
   <<Column("pw", "text", Password), Column("env", "text", FirstEnv)>>,
   <<Column("envs", "text", EnvValue), Column("copy", "text", Copy)>>,
   <<Column("x", "text", Phase), Column("x", "text", Password)>>}
Rules == {Rule(Phase, "ne", Str(<<"Running">>), "error"), Rule(Path(<<"count">>), "lt", Int_(2), "warning"),
          Rule(Phase, "eq", Str(<<"Running">>), "ok")}
Conditions == {[condition_type |-> <<"Ready">>, status |-> "True", level |-> "info"],
               [condition_type |-> <<"Ready">>, status |-> "False", level |-> "pending"]}
Check(field, op, v) == [id |-> "check", field |-> field, op |-> op, value |-> v]

MCLenses == [api_version : {1, 2}, columns : ColumnLists, status : SeqsUpTo(Rules, 2),
             conditions : SeqsUpTo(Conditions, 1), actions : {<<[id |-> "delete"]>>},
             health : {<<Check(Phase, "ne", Str(<<"Failed">>))>>, <<Check(Path(<<"count">>), "gte", Int_(1))>>}]

(* Objects: S1 and S2 are under sensitive keys, S3 in the data of a Secret *)
(* under a key that tells nothing and in sensitive annotations.            *)
S1 == Str(<<"s1">>)
S2 == Str(<<"s2">>)
S3 == Str(<<"s3">>)
MCSecrets == {S1, S2}
MCKindSecrets == {S3}
MCSensitive == {<<"password">>, <<"token">>}
MCSecretKinds == {"Secret"}
MCCopyKeys == {<<"last-applied">>}
Pair(name, v) == Obj((<<"name">> :> Str(name)) @@ (<<"value">> :> v))
Ready(status) == Obj(<<"conditions">> :> Arr(<<Obj((<<"type">> :> Str(<<"Ready">>))
                                                   @@ (<<"status">> :> Str(<<status>>)))>>))
Plain1 == [kind : {"Pod"}, annotations : {<<"note">> :> Str(<<"note">>)},
  data : {Obj((<<"phase">> :> phase) @@ (<<"status">> :> Ready(status)) @@ more) :
            phase \in {Str(<<"Running">>), Str(<<"Failed">>)}, status \in {"True", "False"},
            more \in {<<"count">> :> Int_(1),
                      <<"env">> :> Arr(<<Pair(<<"db", "_", "password">>, S1),
                                         Pair(<<"user">>, Str(<<"plain">>))>>),
                      <<"data">> :> Obj((<<"password">> :> S1) @@ (<<"env">> :> Arr(<<
                                          Pair(<<"api", "-", "token">>, S2)>>)))}}]
Bare == [kind : {"Pod"}, annotations : {<< >>},
         data : {Obj(<<"count">> :> Int_(3)), Obj(<<"phase">> :> Null)}]
Tagged == [kind : {"Pod"}, annotations : {<<"token">> :> S3}, data : {Obj(<<"phase">> :> Null)}]
Held == [kind : {"Secret", ""},
  annotations : {<< >>, (<<"last-applied">> :> S3) @@ (<<"note">> :> Str(<<"note">>))},
  data : {Obj(k :> Obj((<<"password">> :> S1) @@ (<<"ca">> :> S3))) :
            k \in {<<"data">>, <<"stringData">>}}]
MCResources == Plain1 \cup Bare \cup Tagged \cup Held

MCFiles == SeqsUpTo({"a", "b", "c"}, 3) \cup SeqsUpTo({"a", "b"}, 4)
MCContexts == {0, 1, 3}

(* Names to jump to, and what is typed.                                    *)
Char(letter, upper) == [letter |-> letter, upper |-> upper]
Chars == {Char("a", FALSE), Char("a", TRUE), Char("b", FALSE), Char("-", FALSE)}
Named(words) == [k \in DOMAIN words |-> [name |-> Len(words) - k, chars |-> words[k]]]
MCCandidates == {Named(<<w, v, <<Char("b", FALSE), Char("a", TRUE)>> >>) :
                   w \in [1..3 -> Chars], v \in [1..2 -> Chars]}
MCJumpQueries == {<< >>, <<"a">>, <<"a", "b">>, <<"b", "a">>, <<"a", "a", "b">>}

(* Pods: the statuses a kubelet may report.                                *)
Container(name, ready, state, last) ==
  [name |-> name, ready |-> ready, state |-> state, last |-> last]
Lasts == {NoState, Terminated(1), Terminated(OomExit)}
AppContainers(name) ==
  {Container(name, TRUE, Running, last) : last \in Lasts}
  \cup {Container(name, FALSE, state, last) : last \in Lasts,
          state \in {Running, Waiting("CrashLoopBackOff"), Waiting("ImagePullBackOff"),
                     Terminated(0), Terminated(1), Terminated(OomExit)}}
InitContainers ==
  {Container("i", TRUE, Terminated(0), NoState), Container("i", FALSE, Running, NoState),
   Container("i", FALSE, Terminated(1), NoState)}
Verdicts == {[is |-> "True", mentions |-> {}], [is |-> "False", mentions |-> {}],
             [is |-> "False", mentions |-> {"taint"}],
             [is |-> "False", mentions |-> {"insufficient", "taint"}],
             [is |-> "False", mentions |-> {"pvc"}]}
Placed == [is |-> "True", mentions |-> {}]
ReadyFor(containers, init) ==
  IF \A c \in DOMAIN containers : containers[c].ready
  THEN {[is |-> "True", probed |-> FALSE], [is |-> "False", probed |-> FALSE]}
  ELSE {[is |-> "False", probed |-> FALSE], [is |-> "False", probed |-> TRUE]}
MCStatuses ==
  {NoStatus}
  \cup UNION {{[phase |-> "Running", init |-> i, containers |-> c, scheduled |-> Placed,
                ready |-> r] : r \in ReadyFor(c, i)} :
               i \in SeqsUpTo(InitContainers, 1),
               c \in {<<a, b>> : a \in AppContainers("a"), b \in AppContainers("b")}}
  \cup {[phase |-> "Pending", init |-> i, containers |-> c, scheduled |-> v,
         ready |-> [is |-> "False", probed |-> FALSE]] :
          i \in SeqsUpTo(InitContainers, 2), v \in Verdicts,
          c \in {<< >>} \cup {<<Container("a", FALSE, Waiting(reason), NoState)>> :
                               reason \in {"ImagePullBackOff", "CreateContainerConfigError"}}}

Fine   == [phase |-> "Running", init |-> << >>, scheduled |-> Placed,
           containers |-> <<Container("a", TRUE, Running, NoState)>>,
           ready |-> [is |-> "True", probed |-> FALSE]]
Stuck  == [phase |-> "Pending", init |-> << >>, scheduled |-> [is |-> "False", mentions |-> {}],
           containers |-> << >>, ready |-> [is |-> "False", probed |-> FALSE]]
Pod(name, namespace, status) ==
  [name |-> name, namespace |-> namespace, status |-> status,
   spec |-> [containers |-> <<[name |-> "a", requests |-> {"cpu"}, limits |-> {}]>>,
             init |-> << >>]]
MCPodLists == {<< >>, <<Pod(3, 1, Stuck), Pod(1, 1, Fine), Pod(2, 1, NoStatus)>>}

(* Events of one warning and one normal reason, at the times 1 to 4.       *)
MCNow == 4
MCWindows == {NoTime, 1, 2, 3}
Ev(n, type, last, first, series) ==
  [key |-> [object |-> n], namespace |-> IF n = 3 THEN "" ELSE "ns", type |-> type,
   last |-> last, first |-> first, series |-> series]
MCCoreEvents == {Failed} \cup SeqsUpTo(
  {Ev(1, "Warning", t, NoTime, NoTime) : t \in {NoTime, 2, 3}}
  \cup {Ev(2, "Normal", 2, NoTime, NoTime), Ev(3, "Warning", 2, NoTime, NoTime)}, 2)
MCModernEvents == {Failed} \cup SeqsUpTo(
  {Ev(1, "Warning", NoTime, 2, NoTime), Ev(1, "Warning", NoTime, 1, 3),
   Ev(1, "Warning", 3, NoTime, NoTime), Ev(2, "Normal", NoTime, NoTime, 3)}, 2)

(* Lists of what owns and is owned.                                        *)
Items(names, owners) == {[k \in DOMAIN names |-> [uid |-> names[k], owners |-> f[k]]] :
                           f \in [DOMAIN names -> owners]}
Above == {{}, {"target"}, {"other"}}
MCOwners == [replicaSets : {Unserved} \cup Items(<<"r1", "r2">>, Above),
             jobs : {Unserved} \cup Items(<<"j1">>, Above),
             pods : Items(<<"p1", "p2">>, {{}, {"target"}, {"r1"}, {"r2", "other"}, {"j1"}})]

MCEvictables == UNION {{[k \in 1..n |-> [namespace |-> 1, name |-> n - k, node |-> on[k],
                                         owners |-> by[k]]] :
                          on \in [1..n -> {"n1", "n2"}],
                          by \in [1..n -> {<< >>, <<"DaemonSet">>, <<"ReplicaSet">>, <<"Other">>}]} :
                         n \in 0..3}

(* Extensions: manifests that are not valid, other tiers, entrypoints that *)
(* name no target, and lenses that name one but do not validate.           *)
Named3 == [api_version |-> 1, status |-> << >>, conditions |-> << >>, actions |-> << >>,
           health |-> << >>,
           columns |-> <<Column("x", "status", << >>),
                         Column("name", "text", Path(<<"metadata", "name">>))>>]
Entries == {[is |-> "missing"], [is |-> "lens", target |-> 1, view |-> Absent],
            [is |-> "lens", target |-> 1, view |-> Named3],
            [is |-> "lens", target |-> 2, view |-> Named3],
            [is |-> "lens", target |-> 1, view |-> [Named3 EXCEPT !.api_version = 2]]}
Ext(dir, manifest, kind, entry) ==
  [dir |-> dir, id |-> 3 - dir, manifest |-> manifest, kind |-> kind, entry |-> entry]
MCTrees == {<< >>} \cup
  {<<Ext(1, m1, k1, e1), Ext(2, "valid", k2, e2)>> :
     m1 \in {"valid", "invalid"}, k1, k2 \in {"lens", "plugin"}, e1, e2 \in Entries}
MCDisabledSets == {{}, {1}, {2}, {9}}

(* Log lines: plain or JSON, with a secret that masking replaces; a number *)
(* that is masked leaves no JSON object.                                   *)
LogLine(says, keys, secret) == [says |-> says, keys |-> keys, secret |-> secret]
MCRedactLine(l) ==
  CASE l.secret = "text" -> [l EXCEPT !.secret = "masked", !.says = @ \ {"s3cr3t"}]
    [] l.secret = "number" -> [l EXCEPT !.secret = "masked", !.keys = {}]
    [] OTHER -> l
MCMatched(l) == l.says
MCJsonKeys(l) == l.keys
LogLines == {LogLine({"err"}, {}, "no"), LogLine({}, {"level"}, "no"),
             LogLine({"err", "s3cr3t"}, {"msg"}, "text"), LogLine({"err"}, {"pin"}, "number")}
LogsOfPods == {Unread} \cup SeqsUpTo(LogLines, 2)
PodOf(name, logs) == [name |-> name, logs |-> logs]
MCPodGroups == {<<PodOf("a", <<l>>), PodOf("b", <<k>>)>> : l \in LogsOfPods,
                  k \in {Unread, <<LogLine({"err", "s3cr3t"}, {"msg"}, "text")>>}}
               \cup {<<PodOf("a", <<l, k>>)>> : l, k \in LogsOfPods}
MCRegexes == {NoRegex, BadRegex, "err", "s3cr3t"}
MCTails == {1, 9}

(* Rules of a review.                                                      *)
RuleSets == [groups : {{}, {""}, {"apps", "*"}},
             resources : {{}, {Plain("pods")}, {AllSubs("pods")}, {Plain("*")}},
             verbs : {{"get"}, {"update", "delete"}, {"*"}, {"patch"}}]
MCReviews == {[is |-> "error"]} \cup [is : {"rules"}, rules : SeqsUpTo(RuleSets, 2)]
MCActions == <<[id |-> "delete", state |-> "allowed", missing |-> << >>],
               [id |-> "scale", state |-> "gated", missing |-> << >>],
               [id |-> "logs", state |-> "allowed", missing |-> << >>]>>

(* Guardrails: patterns that compile or not, and what they are meant for.  *)
MCContextNames == {"x", "y"}
Patterns == SeqsUpTo([valid : BOOLEAN, names : {{"x"}, {"x", "y"}}], 2)
MCConfigs == [guardrails : [prod : Patterns, staging : Patterns],
              max_watches : {0, 2}, idle_ttl : {2}]

MCEnvironments == [service : BOOLEAN, mounted : BOOLEAN, token : {Unset, "", "t"},
                   agent : {Unset, "", "a"}, kubeconfig : BOOLEAN]
MCVersions == {<< >>, <<1>>, <<1, 4>>, <<2, 0>>, <<1, 0, 0>>}

(* Kinds: deployments, nodes, a lens over deployments, and a lens with a   *)
(* namespace column over a kind that has no namespaces.                    *)
MCKinds ==
  <<[label |-> "Deployments", gvk |-> "deploy", scoped |-> FALSE, clustered |-> FALSE,
     columns |-> 4, name |-> 1, namespace |-> 2, status |-> 3, created |-> 4],
    [label |-> "Nodes", gvk |-> "node", scoped |-> TRUE, clustered |-> TRUE,
     columns |-> 4, name |-> 1, namespace |-> 0, status |-> 3, created |-> 4],
    [label |-> "Deployment", gvk |-> "deploy", scoped |-> FALSE, clustered |-> FALSE,
     columns |-> 2, name |-> 2, namespace |-> 1, status |-> 0, created |-> 0],
    [label |-> "Volume", gvk |-> "volume", scoped |-> FALSE, clustered |-> TRUE,
     columns |-> 2, name |-> 1, namespace |-> 2, status |-> 0, created |-> 0]>>

MCNameLists == {<<"a", "b">>, <<"b">>}

(* The keys and the calls share no state: any call is asked for before the *)
(* first key only.                                                         *)
MCInit == AccessInit /\ NavigationInit
MCNext == \/ pressed = 0 /\ Next /\ UNCHANGED navigationVars
          \/ call = NoCall /\ NavigationNext /\ UNCHANGED accessVars
MCSpec == MCInit /\ [][MCNext]_<<accessVars, navigationVars>>
==============================================================================
