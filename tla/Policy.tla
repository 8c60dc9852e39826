------------------------------- MODULE Policy -------------------------------
(***************************************************************************)
(* What an operator or an agent may do here: the RBAC preflight            *)
(* (core/auth.rs, viewmodel/semantic.rs, integration), the guardrails of a *)
(* context (core/guardrails.rs, config.rs), the identity of the MCP server *)
(* (core/discovery.rs) and the drain preview (core/nodes.rs).              *)
(***************************************************************************)
EXTENDS Naturals, Sequences, SequencesExt

Unset == "unset"
Verbs == {"get", "list", "watch", "create", "update", "patch", "delete", "deletecollection"}

-----------------------------------------------------------------------------
(* Rules of a SelfSubjectRulesReview: [groups, resources, verbs], sets; a  *)
(* list that the rule leaves out is empty and grants nothing.  A resource  *)
(* is [name, sub] with sub "" for the resource itself.                     *)

Plain(r) == [name |-> r, sub |-> ""]
AllSubs(r) == [name |-> r, sub |-> "*"]

Grants(rule, verb, resource, group) ==
  /\ rule.groups \cap {"*", group} # {}
  /\ rule.resources \cap {Plain("*"), Plain(resource), AllSubs(resource)} # {}
  /\ rule.verbs \cap {"*", verb} # {}

Can(rules, verb, resource, group) ==
  \E r \in DOMAIN rules : Grants(rules[r], verb, resource, group)

(* preflight: one review, read for each of the standard verbs.             *)
Preflight(rules, resource, group) ==
  [verb \in Verbs |-> \E r \in DOMAIN rules : Grants(rules[r], verb, resource, group)]

ActionVerb(id) ==
  CASE id = "delete" -> "delete"
    [] id \in {"scale", "restart", "update", "apply", "edit", "cordon", "drain", "uncordon"}
         -> "update"
    [] OTHER -> "get"

(* downgrade_forbidden: a denied verb greys the action out.                *)
DowngradeForbidden(action, allowed, resource) ==
  IF allowed \/ action.state = "forbidden" THEN action
  ELSE [action EXCEPT !.state = "forbidden", !.missing = <<ActionVerb(action.id), resource>>]

(* preflight_actions: a review that fails leaves the actions as declared.  *)
PreflightActions(review, resource, group, actions) ==
  IF review.is = "error" THEN actions
  ELSE LET allowed == Preflight(review.rules, resource, group)
       IN [a \in DOMAIN actions |->
             DowngradeForbidden(actions[a], allowed[ActionVerb(actions[a].id)], resource)]

-----------------------------------------------------------------------------
(* Guardrails.  A pattern is [valid, names]: whether the expression        *)
(* compiles and the context names it matches.                              *)

MatchesAny(patterns, context) ==
  \E p \in DOMAIN patterns : patterns[p].valid /\ context \in patterns[p].names

\* Defect: the staging patterns are looked at first.
Classify_StagingFirst(guardrails, context) ==
  IF MatchesAny(guardrails.staging, context) THEN "staging"
  ELSE IF MatchesAny(guardrails.prod, context) THEN "prod"
  ELSE "unknown"

(* classify: prod before staging; a pattern that does not compile matches  *)
(* nothing.                                                                *)
Classify(guardrails, context) ==
  IF MatchesAny(guardrails.prod, context) THEN "prod"
  ELSE IF MatchesAny(guardrails.staging, context) THEN "staging"
  ELSE "unknown"

(* validate: the problems of a config, what the file parses to.            *)
Validate(config) ==
  LET bad(patterns) == {p \in DOMAIN patterns : ~patterns[p].valid}
  IN {<<"prod", p>> : p \in bad(config.guardrails.prod)}
     \cup {<<"staging", p>> : p \in bad(config.guardrails.staging)}
     \cup (IF config.max_watches = 0 THEN {<<"max_watches", 0>>} ELSE {})
     \cup (IF config.idle_ttl = 0 THEN {<<"idle_ttl", 0>>} ELSE {})

(* to_policy: the informer's policy cannot be switched off.                *)
AtLeastOne(n) == IF n = 0 THEN 1 ELSE n
ToPolicy(config) == [max_watches |-> AtLeastOne(config.max_watches),
                     idle_ttl |-> AtLeastOne(config.idle_ttl)]

(* explain_context: the class and the first pattern of it that matches.    *)
ExplainContext(config, context) ==
  LET g == config.guardrails
      first(patterns) == SelectInSeq(patterns, LAMBDA p : p.valid /\ context \in p.names)
      class == Classify(g, context)
  IN [class |-> class,
      by |-> CASE class = "prod" -> first(g.prod)
               [] class = "staging" -> first(g.staging)
               [] OTHER -> 0]

-----------------------------------------------------------------------------
(* The MCP server's identity.  The environment env has the fields          *)
(* service (both KUBERNETES_SERVICE variables), mounted (the pod's token   *)
(* and certificate can be read), token, agent (texts, Unset or "" for a    *)
(* blank one) and kubeconfig (it can be read).                             *)

Given(text) == text # Unset /\ text # ""

AgentIdentityResolution(env) ==
  IF env.service THEN "in_cluster"
  ELSE IF Given(env.token) THEN "explicit_token"
  ELSE IF Given(env.agent) THEN "named_agent"
  ELSE "operator_kubeconfig"

(* agent_client: whose credentials the client carries.  A token needs the  *)
(* kubeconfig for the address of the cluster.                              *)
AgentClient(env) ==
  IF env.service /\ env.mounted THEN "service_account"
  ELSE IF ~env.kubeconfig THEN "error"
  ELSE IF Given(env.token) THEN "token" ELSE "operator"

AgentIdentityName(env) == IF Given(env.agent) THEN env.agent ELSE "mcp-client"

(* KapteinMcp::new: warn of the operator's own credentials, then connect.  *)
StartMcp(env) ==
  [warned |-> AgentIdentityResolution(env) \in {"operator_kubeconfig", "named_agent"},
   name |-> AgentIdentityName(env), credentials |-> AgentClient(env)]

(* check_declared_version: a client of another major version is refused; a *)
(* declared version is the sequence of its numbers, << >> where the major  *)
(* does not parse.  A client that declares none is not asked.              *)
McpApiVersion == <<1, 0>>
ParsedVersion(parts) == IF Len(parts) \in {1, 2}
                        THEN <<parts[1], IF Len(parts) = 2 THEN parts[2] ELSE 0>> ELSE << >>
IsCompatible(supported, requested) == supported[1] = requested[1]

AcceptsClient(declared) ==
  LET requested == ParsedVersion(declared)
  IN requested # << >> /\ IsCompatible(McpApiVersion, requested)

-----------------------------------------------------------------------------
(* drain_preview: pods [namespace, name, node, owners], owners a sequence  *)
(* of kinds.                                                               *)

DrainSkipReason(pod) ==
  LET kind == IF pod.owners = << >> THEN "" ELSE pod.owners[1]
  IN CASE kind = "DaemonSet" -> "daemonset"
       [] kind = "Node" -> "mirror"
       [] kind \in {"ReplicaSet", "StatefulSet", "Job", "ReplicationController", ""} -> ""
       [] OTHER -> "other"

DrainPreview(pods, node) ==
  LET mine == SelectSeq(pods, LAMBDA p : p.node = node)
  IN SortSeq([i \in DOMAIN mine |-> [namespace |-> mine[i].namespace, name |-> mine[i].name,
                                     skip |-> DrainSkipReason(mine[i])]],
             LAMBDA a, b : \/ a.namespace < b.namespace
                           \/ a.namespace = b.namespace /\ a.name < b.name)
-----------------------------------------------------------------------------
(* What is denied, asked a reason for or warned of: `kaptein can` and the  *)
(* greyed actions of a kind, `kaptein config explain` and `validate`, and  *)
(* the start of the MCP server, over any rules, patterns and environment.  *)
(* One call is under way at a time.                                        *)

CONSTANTS
  Reviews,          \* what an access review gives: an error, or [is, rules]
  Actions,          \* the actions of a kind as they are declared
  Configs, ContextNames,
  Environments, Versions      \* of the MCP server, and what its clients declare

ASSUME AccessAssumption ==
  /\ \A review \in Reviews : review.is \in {"error", "rules"}
  /\ Actions \in Seq([id : STRING, state : STRING, missing : Seq(STRING)])
  /\ \A config \in Configs :
       /\ config.guardrails.prod \in Seq([valid : BOOLEAN, names : SUBSET ContextNames])
       /\ config.guardrails.staging \in Seq([valid : BOOLEAN, names : SUBSET ContextNames])
  /\ \A env \in Environments : {env.service, env.mounted, env.kubeconfig} \subseteq BOOLEAN
  /\ Versions \subseteq Seq(Nat)

VARIABLES call, answer
accessVars == <<call, answer>>

NoCall == [op |-> "none"]
Nothing == << >>

Ask(op, given, result) ==
  /\ call' = [op |-> op, given |-> given]
  /\ answer' = result

CheckAccess ==
  \E review \in Reviews :
    Ask("access", review,
        [actions |-> PreflightActions(review, "pods", "", Actions),
         can |-> [verb \in Verbs |-> review.is = "rules" /\ Can(review.rules, verb, "pods", "")]])

ExplainGate ==
  \E config \in Configs, context \in ContextNames :
    Ask("gate", [config |-> config, context |-> context],
        [valid |-> Validate(config) = {}, gate |-> ExplainContext(config, context),
         policy |-> ToPolicy(config)])

ServeAgent ==
  \E env \in Environments, declared \in Versions :
    Ask("agent", [env |-> env, declared |-> declared],
        [start |-> StartMcp(env), accepts |-> AcceptsClient(declared)])

Return == call # NoCall /\ call' = NoCall /\ answer' = Nothing

AccessInit == call = NoCall /\ answer = Nothing
AccessNext ==
  \/ call = NoCall /\ (CheckAccess \/ ExplainGate \/ ServeAgent)
  \/ Return
AccessSpec == AccessInit /\ [][AccessNext]_accessVars
-----------------------------------------------------------------------------
(* What the API server makes of a rule: `pods/*` is about subresources.    *)
Permits(rule, verb) ==
  /\ rule.groups \cap {"*", ""} # {}
  /\ rule.resources \cap {Plain("*"), Plain("pods")} # {}
  /\ rule.verbs \cap {"*", verb} # {}

(* An action is greyed out only if `kaptein can` denies its verb as well   *)
(* and no rule of the server grants it; a review that fails greys out      *)
(* nothing (preflight_actions, can).                                       *)
GreyedIsRefused ==
  call.op = "access" =>
    \A a \in DOMAIN Actions :
      LET verb == ActionVerb(Actions[a].id)
      IN answer.actions[a] # Actions[a] =>
           /\ call.given.is = "rules" /\ ~ answer.can[verb]
           /\ \A r \in DOMAIN call.given.rules : ~ Permits(call.given.rules[r], verb)
           /\ answer.actions[a].missing = <<verb, "pods">>

Meant(patterns, context) == \E p \in DOMAIN patterns : context \in patterns[p].names

(* A configuration that `config validate` accepts classes each context as  *)
(* its patterns are meant: none is silently without effect (validate).     *)
ValidConfigMeansItself ==
  call.op = "gate" =>
    LET prod == Meant(call.given.config.guardrails.prod, call.given.context)
        staging == Meant(call.given.config.guardrails.staging, call.given.context)
    IN answer.valid => /\ answer.gate.class = "prod" <=> prod
                       /\ answer.gate.class = "staging" <=> staging /\ ~ prod

(* Only a staging context passes without a reason, and no context that a   *)
(* pattern for production matches is one; the pattern that is shown as the *)
(* cause is the first of its class that matches (classify,                 *)
(* explain_context).                                                       *)
ProdIsGated ==
  call.op = "gate" =>
    /\ MatchesAny(call.given.config.guardrails.prod, call.given.context)
         => answer.gate.class = "prod"
    /\ answer.gate.class # "unknown" =>
         LET patterns == call.given.config.guardrails[answer.gate.class]
             by == answer.gate.by
         IN /\ by \in DOMAIN patterns
            /\ patterns[by].valid /\ call.given.context \in patterns[by].names
            /\ ~ MatchesAny(SubSeq(patterns, 1, by - 1), call.given.context)

(* The MCP server warns exactly when its client carries the operator's own *)
(* credentials, wherever the token of a pod can be read                    *)
(* (agent_identity_resolution, agent_client).                              *)
OwnCredentialsAreWarnedOf ==
  call.op = "agent" =>
    LET env == call.given.env
    IN (env.service => env.mounted) /\ answer.start.credentials # "error"
         => (answer.start.warned <=> answer.start.credentials = "operator")

(* The MCP server talks to clients of its own major version only, and to   *)
(* all of them: a minor never decides (check_declared_version).            *)
MajorsDecide ==
  call.op = "agent" =>
    LET declared == call.given.declared
    IN /\ answer.accepts => declared # << >> /\ declared[1] = McpApiVersion[1]
       /\ Len(declared) \in {1, 2} =>
            \A other \in {v \in Versions : Len(v) \in {1, 2} /\ v[1] = declared[1]} :
              AcceptsClient(other) = answer.accepts

(* What is denied, asked a reason for or warned of is what the rules, the  *)
(* patterns and the environment say, however broken some of them are       *)
(* (rbac.rs, guardrails.rs, config.rs, mcp.rs).                            *)
PoliciesMeanWhatTheySay ==
  /\ GreyedIsRefused /\ ValidConfigMeansItself /\ ProdIsGated
  /\ OwnCredentialsAreWarnedOf /\ MajorsDecide
==============================================================================
