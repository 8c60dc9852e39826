------------------------------- MODULE Governance -------------------------------
(***************************************************************************)
(* One-shot commands of the CLI (kaptein-cli/src/main.rs) run in several   *)
(* terminals and tool calls of one MCP server (mcp.rs), over what they     *)
(* share: the kubeconfig's current context, the configuration file with    *)
(* the guardrails, the list of named forwards, and the audit log.          *)
(*                                                                         *)
(* A command writes to a cluster only behind the guardrail gate; it and a  *)
(* tool call leave an audit record.  Files are rewritten in place and read *)
(* without locks.  What the API does with a write is in `effects`.         *)
(***************************************************************************)
EXTENDS Integers, Sequences, FiniteSets

CONSTANTS
  Procs,        \* processes and tool calls, each runs one of the Commands
  Commands,     \* [op, confirm, reason, name]
  Name,         \* names of forwards and of extensions
  Context,      \* contexts of the kubeconfig
  Class,        \* what the configured guardrails classify each context as
  MaxSwitches   \* bound on changes of the current context

Gated        == {"delete", "scale", "restart", "cordon", "uncordon", "evict", "debug", "exec"}
NoDryRun     == {"restart", "exec"}
ServerDryRun == {"delete", "scale"}
LocalDryRun  == {"cordon", "uncordon", "evict", "debug"}
Forwarding   == {"forward", "named"}
Configuring  == {"enable", "disable"}
Listing      == {"named", "remove"}
Tools        == {"tool", "unknown_tool"}

Command == [op : Gated \union Forwarding \union Configuring \union Listing \union Tools,
            confirm : BOOLEAN, reason : {"none", "blank", "text"}, name : Name]

ASSUME GovernanceAssumption ==
  /\ Commands \subseteq Command
  /\ Context # {} /\ Class \in [Context -> {"prod", "staging", "unknown"}]
  /\ MaxSwitches \in Nat
  /\ IsFiniteSet(Procs)
  \* The marks of a line's end and of an emptied file are neither a process nor a name.
  /\ "newline" \notin Procs /\ "truncated" \notin Name

VARIABLES
  current,      \* current-context of the kubeconfig
  config,       \* config.toml: [rules, disabled], or Truncated
  forwards,     \* forwards.json: a set of names, or Truncated
  audit,        \* audit.jsonl: records and line ends
  disk,         \* "ok", "full" or "readonly"
  server,       \* the context the MCP server was started in
  pc, cmd, client, loaded, rec,  \* of each process; rec is the record it writes
  effects,      \* history: [by, on] of every change of a cluster
  answer,       \* history: what a tool call answered
  switched,     \* history: processes that saw the current context change
  clean,        \* history: files no update overlapped on or died over
  expected,     \* history: the files as if every update were atomic
  switches

files == <<config, forwards, audit>>
history == <<effects, answer, switched, clean, expected>>
env == <<current, disk, server, switches>>
vars == <<files, history, env, pc, cmd, client, loaded, rec>>
--------------------------------------------------------------------------------
Truncated == [rules |-> FALSE, disabled |-> {"truncated"}]
NoForwards == {"truncated"}
Newline == [by |-> "newline"]
NoRecord == [by |-> "nobody"]
Default == [rules |-> FALSE, disabled |-> {}]
Idle == [op |-> "none", confirm |-> FALSE, reason |-> "none", name |-> "none"]

Finished(p) == pc[p] \in {"done", "failed", "killed"}
IsTool(p) == cmd[p].op \in Tools
FileOf(op) == IF op \in Configuring THEN "config" ELSE "forwards"

\* Defect: the list is not read before it is changed.
LoadForwards_Fresh == {}

\* load_from and ForwardManager::load: what cannot be read or parsed is the default.
LoadForwards == IF forwards = NoForwards THEN {} ELSE forwards
LoadConfig   == IF config = Truncated THEN Default ELSE config

\* Guardrails::classify; without patterns every context is unknown.
Classify(c, ctx) == IF c.rules THEN Class[ctx] ELSE "unknown"

\* Defect: only production contexts need a reason.
GateWrite_ProdOnly(class, reason) == class # "prod" \/ reason = "text"

\* guardrails::gate_write: a reason of blanks is none.
GateWrite(class, reason) == class = "staging" \/ reason = "text"

Init ==
  /\ current \in Context /\ server = current
  /\ config = [rules |-> TRUE, disabled |-> {}] /\ forwards = {} /\ audit = <<>>
  /\ disk \in {"ok", "full", "readonly"}
  /\ pc = [p \in Procs |-> "idle"] /\ cmd = [p \in Procs |-> Idle]
  /\ client = [p \in Procs |-> current] /\ loaded = [p \in Procs |-> Default]
  /\ rec = [p \in Procs |-> NoRecord]
  /\ effects = {} /\ answer = [p \in Procs |-> "none"] /\ switched = {}
  /\ clean = {"config", "forwards"} /\ expected = [config |-> {}, forwards |-> {}]
  /\ switches = 0

Goto(p, label) == pc' = [pc EXCEPT ![p] = label]

\* The record of p, with the outcome; p writes it next.
Prepare(p, context, outcome) ==
  /\ rec' = [rec EXCEPT ![p] = [by |-> p, context |-> context, outcome |-> outcome]]
  /\ Goto(p, "line")
--------------------------------------------------------------------------------
\* Where a command goes once its client is built.
FirstStep(c) ==
  IF c.op \in Gated /\ c.confirm THEN "policy"
  ELSE IF c.op \in NoDryRun THEN "failed"
  ELSE IF c.op \in ServerDryRun THEN "call"
  ELSE IF c.op \in LocalDryRun THEN "done"
  ELSE IF c.op = "forward" THEN "bind"
  ELSE "load"

\* The process starts and builds the client of the current context, which may fail.
Start(p, c) ==
  /\ pc[p] = "idle" /\ c.op \notin Tools
  /\ cmd' = [cmd EXCEPT ![p] = c]
  /\ client' = [client EXCEPT ![p] = current]
  /\ \/ Goto(p, FirstStep(c))
     \/ Goto(p, "failed")
  /\ UNCHANGED <<files, history, env, loaded, rec>>

\* gate_write, its two reads: the configuration, then the current context.
ReadPolicy(p) ==
  /\ pc[p] = "policy"
  /\ loaded' = [loaded EXCEPT ![p] = LoadConfig]
  /\ Goto(p, "gate")
  /\ UNCHANGED <<files, history, env, cmd, client, rec>>

Gate(p) ==
  /\ pc[p] = "gate"
  /\ IF GateWrite(Classify(loaded[p], current), cmd[p].reason)
     THEN Goto(p, IF cmd[p].op = "debug" THEN "fetch" ELSE "call")
     ELSE Goto(p, "failed")
  /\ UNCHANGED <<files, history, env, cmd, client, loaded, rec>>

\* ephemeral::add reads the containers it adds one to.
Fetch(p) ==
  /\ pc[p] = "fetch"
  /\ \/ Goto(p, "call")
     \/ Goto(p, "failed")
  /\ UNCHANGED <<files, history, env, cmd, client, loaded, rec>>

\* The API server refuses the request, or it never gets there.
Refuse(p) ==
  /\ pc[p] = "call"
  /\ Goto(p, "failed")
  /\ UNCHANGED <<files, history, env, cmd, client, loaded, rec>>

\* The API server does it, or checks it in the dry run of the commands that have one there.
Accept(p) ==
  /\ pc[p] = "call"
  /\ effects' = IF cmd[p].op \in ServerDryRun /\ ~cmd[p].confirm THEN effects
                ELSE effects \union {[by |-> p, on |-> client[p]]}
  /\ Goto(p, "reply")
  /\ UNCHANGED <<files, env, answer, switched, clean, expected, cmd, client, loaded, rec>>

\* Defect: an error of the API is not looked at.
Lost_Recorded(p) ==
  /\ pc[p] \in {"call", "reply"}
  /\ Prepare(p, current, IF cmd[p].confirm THEN "applied" ELSE "dryrun")
  /\ UNCHANGED <<files, history, env, cmd, client, loaded>>

\* The reply is lost, or exec's command failed: the command ends without a record.
Lost(p) ==
  /\ pc[p] = "reply"
  /\ Goto(p, "failed")
  /\ UNCHANGED <<files, history, env, cmd, client, loaded, rec>>

\* audit_write reads the current context anew.
Reply(p) ==
  /\ pc[p] = "reply"
  /\ Prepare(p, current, IF cmd[p].confirm THEN "applied" ELSE "dryrun")
  /\ UNCHANGED <<files, history, env, cmd, client, loaded>>
--------------------------------------------------------------------------------
\* The update of a file: read it ...
ReadFile(p) ==
  /\ pc[p] = "load"
  /\ loaded' = [loaded EXCEPT ![p] =
       IF cmd[p].op \in Configuring THEN LoadConfig
       ELSE [rules |-> FALSE, disabled |-> LoadForwards]]
  /\ clean' = IF \E q \in Procs \ {p} : pc[q] \in {"truncate", "write"}
                                        /\ FileOf(cmd[q].op) = FileOf(cmd[p].op)
              THEN clean \ {FileOf(cmd[p].op)} ELSE clean
  /\ Goto(p, "truncate")
  /\ UNCHANGED <<files, env, effects, answer, switched, expected, cmd, client, rec>>

\* ... open it for writing, which empties it ...
Truncate(p) ==
  /\ pc[p] = "truncate"
  /\ IF disk = "readonly" THEN Goto(p, "failed") /\ UNCHANGED <<config, forwards>>
     ELSE /\ Goto(p, "write")
          /\ IF cmd[p].op \in Configuring
             THEN config' = Truncated /\ UNCHANGED forwards
             ELSE forwards' = NoForwards /\ UNCHANGED config
  /\ UNCHANGED <<audit, history, env, cmd, client, loaded, rec>>

\* The change a command makes to a set of names.
Changed(S, c) == IF c.op \in {"disable", "named"} THEN S \union {c.name} ELSE S \ {c.name}

\* ... and write what was read with the change.  A removed forward is audited if it was there.
WriteFile(p) ==
  /\ pc[p] = "write" /\ disk = "ok"
  /\ LET f == FileOf(cmd[p].op)
     IN /\ IF f = "config"
           THEN /\ config' = [loaded[p] EXCEPT !.disabled = Changed(@, cmd[p])]
                /\ UNCHANGED forwards
           ELSE forwards' = Changed(loaded[p].disabled, cmd[p]) /\ UNCHANGED config
        /\ expected' = [expected EXCEPT ![f] = Changed(@, cmd[p])]
  /\ Goto(p, IF cmd[p].op = "named" THEN "bind"
             ELSE IF cmd[p].op = "remove" /\ cmd[p].name \in loaded[p].disabled THEN "record"
             ELSE "done")
  /\ UNCHANGED <<audit, env, effects, answer, switched, clean, cmd, client, loaded, rec>>

\* The disk is full: the command fails and the file stays empty.
WriteFails(p) ==
  /\ pc[p] = "write" /\ disk = "full"
  /\ clean' = clean \ {FileOf(cmd[p].op)}
  /\ Goto(p, "failed")
  /\ UNCHANGED <<files, env, effects, answer, switched, expected, cmd, client, loaded, rec>>

\* forward and start_named_forward bind the local port.
Bind(p) ==
  /\ pc[p] = "bind"
  /\ \/ Goto(p, "record")
     \/ Goto(p, "failed")
  /\ UNCHANGED <<files, history, env, cmd, client, loaded, rec>>

RecordForward(p) ==
  /\ pc[p] = "record"
  /\ Prepare(p, current, "applied")
  /\ UNCHANGED <<files, history, env, cmd, client, loaded>>
--------------------------------------------------------------------------------
\* audit::append: the line and its end are two writes; a failure is ignored.
AfterRecord(c) == IF c.op \in Forwarding THEN "serving" ELSE "done"

AppendLine(p) ==
  /\ pc[p] = "line"
  /\ IF disk = "ok" THEN audit' = Append(audit, rec[p]) /\ Goto(p, "newline")
                    ELSE UNCHANGED audit /\ Goto(p, AfterRecord(cmd[p]))
  /\ UNCHANGED <<config, forwards, history, env, cmd, client, loaded, rec>>

AppendNewline(p) ==
  /\ pc[p] = "newline"
  /\ audit' = Append(audit, Newline)
  /\ Goto(p, AfterRecord(cmd[p]))
  /\ UNCHANGED <<config, forwards, history, env, cmd, client, loaded, rec>>

CtrlC(p) ==
  /\ pc[p] = "serving"
  /\ Goto(p, "done")
  /\ UNCHANGED <<files, history, env, cmd, client, loaded, rec>>

\* A process is killed between any two steps.
Kill(p) ==
  /\ pc[p] # "idle" /\ ~Finished(p) /\ ~IsTool(p)
  /\ Goto(p, "killed")
  /\ clean' = IF pc[p] = "write" THEN clean \ {FileOf(cmd[p].op)} ELSE clean
  /\ UNCHANGED <<files, env, effects, answer, switched, expected, cmd, client, loaded, rec>>
--------------------------------------------------------------------------------
\* call_tool: an incompatible client is rejected; a call without an RBAC target is not
\* preflighted.
Receive(p, c) ==
  /\ pc[p] = "idle" /\ c.op \in Tools
  /\ cmd' = [cmd EXCEPT ![p] = c]
  /\ client' = [client EXCEPT ![p] = server]
  /\ \E next \in {"reject", "preflight", "exec"} :
       /\ c.op = "unknown_tool" => next # "preflight"
       /\ Goto(p, next)
  /\ UNCHANGED <<files, history, env, loaded, rec>>

\* governance_check: the API answers whether the agent may, or fails.
Preflight(p) ==
  /\ pc[p] = "preflight"
  /\ \/ Goto(p, "exec")
     \/ Goto(p, "reject")
  /\ UNCHANGED <<files, history, env, cmd, client, loaded, rec>>

\* What a tool call answers and has recorded; an unknown tool leaves no record.
Answer(p, outcome) ==
  /\ answer' = [answer EXCEPT ![p] = outcome]
  /\ IF cmd[p].op = "unknown_tool" THEN Goto(p, "done") /\ UNCHANGED rec
                                   ELSE Prepare(p, server, outcome)
  /\ UNCHANGED <<files, env, effects, switched, clean, expected, cmd, client, loaded>>

Reject(p) == pc[p] = "reject" /\ Answer(p, "rejected")

ExecTool(p) ==
  /\ pc[p] = "exec"
  /\ \E outcome \in {"applied", "rejected"} :
       /\ cmd[p].op = "unknown_tool" => outcome = "rejected"
       /\ Answer(p, outcome)

\* The server ends with its client; calls under way end with it.
KillServer ==
  /\ \E p \in Procs : IsTool(p) /\ ~Finished(p)
  /\ pc' = [p \in Procs |-> IF IsTool(p) /\ ~Finished(p) THEN "killed" ELSE pc[p]]
  /\ UNCHANGED <<files, history, env, cmd, client, loaded, rec>>

\* Another program changes the current context.
Switch(ctx) ==
  /\ switches < MaxSwitches /\ switches' = switches + 1
  /\ ctx # current /\ current' = ctx
  /\ switched' = switched \union {p \in Procs : pc[p] # "idle"}
  /\ UNCHANGED <<files, disk, server, effects, answer, clean, expected, pc, cmd, client,
                 loaded, rec>>

Step(p) ==
  \/ \E c \in Commands : Start(p, c) \/ Receive(p, c)
  \/ ReadPolicy(p) \/ Gate(p) \/ Fetch(p) \/ Refuse(p) \/ Accept(p) \/ Lost(p) \/ Reply(p)
  \/ ReadFile(p) \/ Truncate(p) \/ WriteFile(p) \/ WriteFails(p) \/ Bind(p)
  \/ RecordForward(p) \/ AppendLine(p) \/ AppendNewline(p) \/ CtrlC(p) \/ Kill(p)
  \/ Preflight(p) \/ Reject(p) \/ ExecTool(p)

Next == (\E p \in Procs : Step(p)) \/ KillServer \/ (\E ctx \in Context : Switch(ctx))

Spec == Init /\ [][Next]_vars
--------------------------------------------------------------------------------
Recorded(p, outcome) ==
  \E i \in DOMAIN audit : audit[i].by = p /\ audit[i].outcome = outcome
HasEffect(p) == \E e \in effects : e.by = p

\* Types; a command past the gate was confirmed, and it writes through the client it
\* was started with.
TypeOK ==
  /\ current \in Context /\ server \in Context /\ client \in [Procs -> Context]
  /\ config.rules \in BOOLEAN /\ forwards \subseteq Name \union NoForwards
  /\ pc \in [Procs -> {"idle", "policy", "gate", "fetch", "call", "reply", "load", "truncate",
       "write", "bind", "record", "line", "newline", "serving", "reject", "preflight", "exec",
       "done", "failed", "killed"}]
  /\ \A p \in Procs : /\ cmd[p] \in Commands \union {Idle}
                      /\ pc[p] \in {"policy", "gate", "fetch"} => cmd[p].confirm
  /\ \A e \in effects : e.on = client[e.by] /\ cmd[e.by].confirm
  /\ Len(audit) <= 2 * Cardinality(Procs)
  /\ clean \subseteq {"config", "forwards"} /\ switches \in 0 .. MaxSwitches

\* Whatever other processes do to the configuration, at whatever step they die, no cluster
\* but a staging one is changed without a break-glass reason, as long as the current
\* context did not change while the command ran.
DangerousNeedsReason ==
  \A e \in effects : cmd[e.by].reason = "text" \/ Class[e.on] = "staging" \/ e.by \in switched

\* A record that says a gated command applied stands for a change of a cluster, and the
\* record of a tool call says what the call answered.
AppliedIsReal ==
  \A p \in Procs :
    /\ (cmd[p].op \in Gated /\ Recorded(p, "applied")) => HasEffect(p)
    /\ \A outcome \in {"applied", "rejected"} :
         (IsTool(p) /\ Recorded(p, outcome)) => answer[p] = outcome

\* What ends well, and an open forward, is on record, once, when the log can be written.
DoneIsRecorded ==
  (disk = "ok") =>
    \A p \in Procs :
      /\ (pc[p] = "done" /\ HasEffect(p)) => Recorded(p, "applied")
      /\ pc[p] = "serving" => Recorded(p, "applied")
      /\ (pc[p] = "done" /\ cmd[p].op = "tool") => Recorded(p, answer[p])
      /\ \A i, j \in DOMAIN audit : (audit[i].by = p /\ audit[j].by = p) => i = j

\* The log and the clusters agree, in both directions: what is recorded as applied was
\* applied, by a command that was confirmed, and what was applied and ended well is
\* recorded, once.
RecordsAreTrue == TypeOK /\ AppliedIsReal /\ DoneIsRecorded

\* While updates of a file neither overlap nor die half-way, it holds what they did one
\* after another; the configured guardrails stay.
SequentialUpdatesKept ==
  /\ ("config" \in clean /\ \A p \in Procs : pc[p] = "write" => cmd[p].op \notin Configuring)
       => config = [rules |-> TRUE, disabled |-> expected["config"]]
  /\ ("forwards" \in clean /\ \A p \in Procs : pc[p] = "write" => cmd[p].op \notin Listing)
       => forwards = expected["forwards"]

\* README.md:332: "Full local audit log of every write operation".
EffectsAreAudited ==
  \A e \in effects : (disk = "ok" /\ pc[e.by] \in {"done", "failed"}) => Recorded(e.by, "applied")

\* docs/USAGE.md:36-38: on prod and unknown contexts a reason is required, "enforced
\* before the request reaches the API server".
GateSeesTarget == \A e \in effects : cmd[e.by].reason = "text" \/ Class[e.on] = "staging"

\* viewmodel/src/audit.rs:119: the record's context is the "Cluster/context id".
RecordsNameTheCluster ==
  \A e \in effects, i \in DOMAIN audit : audit[i].by = e.by => audit[i].context = e.on

\* cli/src/audit.rs:30: "Append a single audit event as one JSON line".
AuditIsJsonl ==
  \A i \in 1 .. Len(audit) - 1 : (audit[i] = Newline) # (audit[i + 1] = Newline)

\* config.rs:186: update_config "Fails (returns `Err`) rather than silently not saving".
UpdatesAreSaved ==
  (\A p \in Procs : pc[p] \in {"idle", "done"}) => LoadConfig.disabled = expected["config"]
================================================================================
