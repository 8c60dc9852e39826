--------------------------- MODULE Governance_proofs ---------------------------
(***************************************************************************)
(* The guardrail gate, the audit log and the updates of the configuration  *)
(* files, for any number of processes, any commands, names and contexts,   *)
(* and any damage to the configuration file.                               *)
(***************************************************************************)
EXTENDS Governance, FiniteSetTheorems, TLAPS

Permitted(p) == cmd[p].reason = "text" \/ Class[client[p]] = "staging" \/ p \in switched

\* A process past the gate is permitted, and one that did not see the context change
\* works on the current one.
GateInv ==
  \A p \in Procs :
    /\ pc[p] \in {"policy", "gate", "fetch"} => cmd[p].confirm
    /\ pc[p] = "call" => cmd[p].confirm \/ cmd[p].op \in ServerDryRun
    /\ (pc[p] \in {"fetch", "call"} /\ cmd[p].confirm) => Permitted(p)
    /\ (pc[p] \in {"policy", "gate"} /\ p \notin switched) => client[p] = current

\* What changed a cluster was permitted, and its process has started.
EffectInv ==
  \A e \in effects : e.by \in Procs /\ e.on = client[e.by] /\ Permitted(e.by)
                     /\ pc[e.by] # "idle"

Functions ==
  /\ DOMAIN pc = Procs /\ DOMAIN cmd = Procs /\ DOMAIN client = Procs
  /\ pc = [p \in Procs |-> pc[p]] /\ cmd = [p \in Procs |-> cmd[p]]
  /\ client = [p \in Procs |-> client[p]]

IInv == current \in Context /\ Functions /\ GateInv /\ EffectInv

\* A step that moves one process on, past `start` and `gate`, touches nothing the
\* invariant is about but its control state.
LEMMA Moves ==
  ASSUME IInv, NEW p \in Procs, NEW label,
         pc' = [pc EXCEPT ![p] = label],
         label \notin {"idle", "policy", "gate", "fetch", "call"},
         UNCHANGED <<cmd, client, current, switched, effects>>
  PROVE  IInv'
<1>1. Functions' BY DEF IInv, Functions
<1>2. \A q \in Procs : pc'[q] = IF q = p THEN label ELSE pc[q]
  BY DEF IInv, Functions
<1>3. GateInv' BY <1>2 DEF IInv, GateInv, Permitted
<1>4. EffectInv' BY <1>2 DEF IInv, EffectInv, Permitted
<1>5. QED BY <1>1, <1>3, <1>4 DEF IInv

\* Nothing has happened initially.
LEMMA InitInv == Init => IInv
BY DEF Init, IInv, Functions, GateInv, EffectInv

\* A command that starts goes to the gate only if it is confirmed, and to the API without
\* the gate only for a dry run.
LEMMA StartStep ==
  ASSUME IInv, NEW p \in Procs, NEW c \in Commands, Start(p, c)
  PROVE  IInv'
<1>. USE DEF IInv, Start, Goto, env, history, files
<1>1. PICK label \in {FirstStep(c), "failed"} : pc' = [pc EXCEPT ![p] = label]
  OBVIOUS
<1>2. \A q \in Procs : /\ pc'[q] = IF q = p THEN label ELSE pc[q]
                       /\ cmd'[q] = IF q = p THEN c ELSE cmd[q]
                       /\ client'[q] = IF q = p THEN current ELSE client[q]
  BY <1>1 DEF Functions
<1>3. Functions' BY <1>1 DEF Functions
<1>4. pc[p] = "idle" OBVIOUS
<1>5. UNCHANGED <<current, switched, effects>> OBVIOUS
<1>6. /\ label # "idle" /\ label # "gate" /\ label # "fetch"
      /\ label = "policy" => c.confirm
      /\ label = "call" => ~c.confirm /\ c.op \in ServerDryRun
  BY DEF FirstStep, Gated, NoDryRun, ServerDryRun, LocalDryRun, GovernanceAssumption
<1>7. GateInv' BY <1>2, <1>5, <1>6 DEF GateInv, Permitted
<1>8. EffectInv' BY <1>2, <1>4, <1>5, <1>6 DEF EffectInv, Permitted
<1>9. QED BY <1>3, <1>7, <1>8

\* A context the gate lets pass without a reason is a staging one, whatever is left of the
\* configuration: without its rules every context is unknown.
LEMMA GateSound ==
  ASSUME NEW c, NEW ctx \in Context, NEW reason, GateWrite(Classify(c, ctx), reason)
  PROVE  reason = "text" \/ Class[ctx] = "staging"
BY DEF GateWrite, Classify

\* Reading the configuration decides nothing yet.
LEMMA PolicyStep ==
  ASSUME IInv, NEW p \in Procs, ReadPolicy(p)
  PROVE  IInv'
<1>. USE DEF IInv, ReadPolicy, Goto, env, history, files
<1>1. \A q \in Procs : pc'[q] = IF q = p THEN "gate" ELSE pc[q]
  BY DEF Functions
<1>2. UNCHANGED <<cmd, client, current, switched, effects>> /\ pc[p] = "policy" OBVIOUS
<1>3. Functions' BY <1>2 DEF Functions
<1>4. GateInv' BY <1>1, <1>2 DEF GateInv, Permitted
<1>5. EffectInv' BY <1>1, <1>2 DEF EffectInv, Permitted
<1>6. QED BY <1>3, <1>4, <1>5

\* Whoever passes the gate is permitted on the current context, which is the client's.
LEMMA GateStep ==
  ASSUME IInv, NEW p \in Procs, Gate(p)
  PROVE  IInv'
<1>. USE DEF IInv, Gate, Goto, env, history, files
<1>1. UNCHANGED <<cmd, client, current, switched, effects>> /\ pc[p] = "gate" OBVIOUS
<1>2. CASE ~GateWrite(Classify(loaded[p], current), cmd[p].reason)
  BY <1>1, <1>2, Moves
<1>3. CASE GateWrite(Classify(loaded[p], current), cmd[p].reason)
  <2>1. PICK label \in {"fetch", "call"} : pc' = [pc EXCEPT ![p] = label]
    BY <1>3
  <2>2. \A q \in Procs : pc'[q] = IF q = p THEN label ELSE pc[q]
    BY <2>1 DEF Functions
  <2>3. Functions' BY <1>1, <2>1 DEF Functions
  <2>4. Permitted(p)
    BY <1>1, <1>3, GateSound DEF GateInv, Permitted
  <2>5. GateInv' BY <1>1, <2>2, <2>4 DEF GateInv, Permitted
  <2>6. EffectInv' BY <1>1, <2>2 DEF EffectInv, Permitted
  <2>7. QED BY <2>3, <2>5, <2>6
<1>4. QED BY <1>2, <1>3

\* debug reads the pod between the gate and the write.
LEMMA FetchStep ==
  ASSUME IInv, NEW p \in Procs, Fetch(p)
  PROVE  IInv'
<1>. USE DEF IInv, Fetch, Goto, env, history, files
<1>1. UNCHANGED <<cmd, client, current, switched, effects>> /\ pc[p] = "fetch" OBVIOUS
<1>2. PICK label \in {"call", "failed"} : pc' = [pc EXCEPT ![p] = label] OBVIOUS
<1>3. \A q \in Procs : pc'[q] = IF q = p THEN label ELSE pc[q]
  BY <1>2 DEF Functions
<1>4. Functions' BY <1>1, <1>2 DEF Functions
<1>5. GateInv' BY <1>1, <1>3 DEF GateInv, Permitted
<1>6. EffectInv' BY <1>1, <1>3 DEF EffectInv, Permitted
<1>7. QED BY <1>4, <1>5, <1>6

\* What the API server changes is the change of a process past the gate.
LEMMA AcceptStep ==
  ASSUME IInv, NEW p \in Procs, Accept(p)
  PROVE  IInv'
<1>. USE DEF IInv, Accept, Goto, env, files
<1>1. UNCHANGED <<cmd, client, current, switched>> /\ pc[p] = "call" OBVIOUS
<1>2. \A q \in Procs : pc'[q] = IF q = p THEN "reply" ELSE pc[q]
  BY DEF Functions
<1>3. Functions' BY <1>1 DEF Functions
<1>4. GateInv' BY <1>1, <1>2 DEF GateInv, Permitted
<1>5. \A e \in effects' : e \in effects \/ (e = [by |-> p, on |-> client[p]] /\ Permitted(p))
  BY <1>1 DEF GateInv
<1>6. EffectInv' BY <1>1, <1>2, <1>5 DEF EffectInv, Permitted
<1>7. QED BY <1>3, <1>4, <1>6

\* A tool call reaches neither the gate nor a write.
LEMMA ReceiveStep ==
  ASSUME IInv, NEW p \in Procs, NEW c, Receive(p, c)
  PROVE  IInv'
<1>. USE DEF IInv, Receive, Goto, env, history, files
<1>1. PICK label \in {"reject", "preflight", "exec"} : pc' = [pc EXCEPT ![p] = label]
  OBVIOUS
<1>2. \A q \in Procs : /\ pc'[q] = IF q = p THEN label ELSE pc[q]
                       /\ cmd'[q] = IF q = p THEN c ELSE cmd[q]
                       /\ client'[q] = IF q = p THEN server ELSE client[q]
  BY <1>1 DEF Functions
<1>3. Functions' BY <1>1 DEF Functions
<1>4. pc[p] = "idle" /\ UNCHANGED <<current, switched, effects>> OBVIOUS
<1>5. GateInv' BY <1>2, <1>4 DEF GateInv, Permitted
<1>6. EffectInv' BY <1>2, <1>4 DEF EffectInv, Permitted
<1>7. QED BY <1>3, <1>5, <1>6

\* The server's end stops its calls only.
LEMMA KillServerStep ==
  ASSUME IInv, KillServer
  PROVE  IInv'
<1>. USE DEF IInv, KillServer, env, history, files
<1>1. UNCHANGED <<cmd, client, current, switched, effects>> OBVIOUS
<1>2. \A q \in Procs : pc'[q] = pc[q] \/ pc'[q] = "killed" OBVIOUS
<1>3. Functions' BY <1>1 DEF Functions
<1>4. GateInv' BY <1>1, <1>2 DEF GateInv, Permitted
<1>5. EffectInv' BY <1>1, <1>2 DEF EffectInv, Permitted
<1>6. QED BY <1>3, <1>4, <1>5

\* A process that is running when the context changes is no longer held to it.
LEMMA SwitchStep ==
  ASSUME IInv, NEW ctx \in Context, Switch(ctx)
  PROVE  IInv'
<1>. USE DEF IInv, Switch, files
<1>1. UNCHANGED <<pc, cmd, client, effects>> OBVIOUS
<1>2. \A q \in Procs : q \in switched' <=> (q \in switched \/ pc[q] # "idle") OBVIOUS
<1>3. Functions' BY <1>1 DEF Functions
<1>4. GateInv' BY <1>1, <1>2 DEF GateInv, Permitted
<1>5. EffectInv' BY <1>1, <1>2 DEF EffectInv, Permitted
<1>6. QED BY <1>3, <1>4, <1>5

\* A lost connection, a refusal, an error, an update of a file, a record, a signal: the
\* other steps of one process disturb no part of the invariant.
LEMMA OtherSteps ==
  ASSUME IInv, NEW p \in Procs,
         \/ Refuse(p) \/ Lost(p) \/ Reply(p)
         \/ ReadFile(p) \/ Truncate(p) \/ WriteFile(p) \/ WriteFails(p) \/ Bind(p)
         \/ RecordForward(p) \/ AppendLine(p) \/ AppendNewline(p) \/ CtrlC(p) \/ Kill(p)
         \/ Preflight(p) \/ Reject(p) \/ ExecTool(p)
  PROVE  IInv'
<1>. DEFINE Harmless == /\ \E label \in {"failed", "line", "truncate", "write", "bind", "record",
                              "done", "newline", "serving", "killed", "exec", "reject"} :
                              pc' = [pc EXCEPT ![p] = label]
                        /\ UNCHANGED <<cmd, client, current, switched, effects>>
<1>. USE DEF Goto, Prepare, env, history, files
<1>1. CASE Refuse(p) \/ Lost(p) \/ Reply(p)
  <2>1. Harmless BY <1>1 DEF Refuse, Lost, Reply
  <2>2. QED BY <2>1, Moves
<1>2. CASE ReadFile(p) \/ Truncate(p)
  <2>1. Harmless BY <1>2 DEF ReadFile, Truncate
  <2>2. QED BY <2>1, Moves
<1>3. CASE WriteFile(p)
  <2>1. Harmless BY <1>3 DEF WriteFile
  <2>2. QED BY <2>1, Moves
<1>4. CASE WriteFails(p) \/ Bind(p) \/ RecordForward(p)
  <2>1. Harmless BY <1>4 DEF WriteFails, Bind, RecordForward
  <2>2. QED BY <2>1, Moves
<1>5. CASE AppendLine(p) \/ AppendNewline(p)
  <2>1. Harmless BY <1>5 DEF AppendLine, AppendNewline, AfterRecord
  <2>2. QED BY <2>1, Moves
<1>6. CASE CtrlC(p) \/ Kill(p) \/ Preflight(p)
  <2>1. Harmless BY <1>6 DEF CtrlC, Kill, Preflight
  <2>2. QED BY <2>1, Moves
<1>7. CASE Reject(p) \/ ExecTool(p)
  <2>1. Harmless BY <1>7 DEF Reject, ExecTool, Answer
  <2>2. QED BY <2>1, Moves
<1>8. QED BY <1>1, <1>2, <1>3, <1>4, <1>5, <1>6, <1>7

\* Steps that leave out what the invariant is about keep it.
LEMMA Stutter ==
  ASSUME IInv, UNCHANGED vars
  PROVE  IInv'
BY DEF IInv, vars, env, history, files, Functions, GateInv, EffectInv, Permitted

\* The invariant is kept by every step of the specification.
LEMMA Inductive ==
  ASSUME IInv, [Next]_vars
  PROVE  IInv'
<1>1. ASSUME NEW p \in Procs, Step(p) PROVE IInv'
  <2>1. CASE \E c \in Commands : Start(p, c) \/ Receive(p, c)
    BY <2>1, StartStep, ReceiveStep
  <2>2. CASE ReadPolicy(p) \/ Gate(p) \/ Fetch(p) \/ Accept(p)
    BY <2>2, PolicyStep, GateStep, FetchStep, AcceptStep DEF IInv
  <2>3. CASE \/ Refuse(p) \/ Lost(p) \/ Reply(p)
             \/ ReadFile(p) \/ Truncate(p) \/ WriteFile(p) \/ WriteFails(p) \/ Bind(p)
             \/ RecordForward(p) \/ AppendLine(p) \/ AppendNewline(p) \/ CtrlC(p) \/ Kill(p)
             \/ Preflight(p) \/ Reject(p) \/ ExecTool(p)
    BY <2>3, OtherSteps
  <2>4. QED BY <1>1, <2>1, <2>2, <2>3 DEF Step
<1>2. CASE \E p \in Procs : Step(p) BY <1>1, <1>2
<1>3. CASE KillServer BY <1>3, KillServerStep
<1>4. CASE \E ctx \in Context : Switch(ctx) BY <1>4, SwitchStep
<1>5. CASE UNCHANGED vars BY <1>5, Stutter
<1>6. QED BY <1>2, <1>3, <1>4, <1>5 DEF Next

\* No cluster but a staging one is changed without a break-glass reason while the current
\* context stays (gate_write and the commands behind it, cli/src/main.rs), for any number
\* of processes, whatever happens to the configuration file.
THEOREM GatedWrites == Spec => []DangerousNeedsReason
<1>1. Init => IInv BY InitInv
<1>2. IInv /\ [Next]_vars => IInv' BY Inductive
<1>3. IInv => DangerousNeedsReason
  BY DEF IInv, EffectInv, Permitted, DangerousNeedsReason
<1>4. QED BY <1>1, <1>2, <1>3, PTL DEF Spec
--------------------------------------------------------------------------------
\* What every variable holds; the list of forwards and the configuration may also be
\* what is seen of an emptied file.
Label == {"idle", "policy", "gate", "fetch", "call", "reply", "load", "truncate", "write",
          "bind", "record", "line", "newline", "serving", "reject", "preflight", "exec",
          "done", "failed", "killed"}
Names    == Name \union {"truncated"}
Settings == [rules : BOOLEAN, disabled : SUBSET Names]
Record   == [by : Procs, context : Context, outcome : {"applied", "dryrun", "rejected"}]

Types ==
  /\ current \in Context /\ server \in Context /\ client \in [Procs -> Context]
  /\ config \in Settings /\ loaded \in [Procs -> Settings] /\ forwards \subseteq Names
  /\ pc \in [Procs -> Label] /\ cmd \in [Procs -> Commands \union {Idle}]
  /\ rec \in [Procs -> Record \union {NoRecord}]
  /\ answer \in [Procs -> {"none", "applied", "rejected"}]
  /\ audit \in Seq(Record \union {NoRecord, Newline})
  /\ effects \subseteq [by : Procs, on : Context]
  /\ clean \subseteq {"config", "forwards"} /\ switches \in 0 .. MaxSwitches

\* What kind of command a process at a step runs.
OpInv ==
  \A p \in Procs :
    /\ pc[p] \in {"policy", "gate", "fetch", "call", "reply"} => cmd[p].op \in Gated
    /\ pc[p] \in {"load", "truncate", "write"} => cmd[p].op \in Configuring \union Listing
    /\ pc[p] \in {"bind", "serving"} => cmd[p].op \in Forwarding
    /\ pc[p] = "record" => cmd[p].op \in Forwarding \union {"remove"}
    /\ pc[p] \in {"reject", "preflight", "exec"} => cmd[p].op \in Tools

Lines(p) == {i \in DOMAIN audit : audit[i].by = p}

\* What an outcome on record says of a process is true.
Fits(p, outcome) ==
  /\ cmd[p].op \in Gated => (outcome = "applied" <=> HasEffect(p))
  /\ IsTool(p) => outcome = answer[p]
  /\ cmd[p].op \in Forwarding => outcome = "applied"

Owes(p) == HasEffect(p) \/ cmd[p].op \in Forwarding \/ cmd[p].op = "tool"

\* From its effect to its line: a process changes a cluster, prepares a record that says
\* so, and writes it once, the last thing it does but a line end and serving.
LineInv(p) ==
  /\ HasEffect(p) => /\ cmd[p].op \in Gated /\ cmd[p].confirm
                     /\ pc[p] \in {"reply", "line", "newline", "done", "failed", "killed"}
  /\ pc[p] = "reply" /\ cmd[p].confirm => HasEffect(p)
  /\ pc[p] = "line" => rec[p] \in Record /\ rec[p].by = p /\ Fits(p, rec[p].outcome)
  /\ \A i \in Lines(p) : Fits(p, audit[i].outcome)
  /\ \A i, j \in Lines(p) : i = j
  /\ Lines(p) # {} => pc[p] \in {"newline", "serving", "done", "killed"}
  /\ pc[p] = "newline" => Lines(p) # {}
  /\ disk = "ok" /\ pc[p] \in {"newline", "serving", "done"} /\ Owes(p) => Lines(p) # {}

\* Each process writes a line and then its end.
Lined == {p \in Procs : Lines(p) # {}}
Ended == {p \in Lined : pc[p] # "newline"}
LengthInv == Len(audit) <= Cardinality(Lined) + Cardinality(Ended)

\* A file that no update overlapped on or died over: at most one process has read it and
\* not written it back, what it read is what the file should have, and so is the file
\* until that process has emptied it.
Updating(f) == {p \in Procs : pc[p] \in {"truncate", "write"} /\ FileOf(cmd[p].op) = f}
Writing(f)  == {p \in Procs : pc[p] = "write" /\ FileOf(cmd[p].op) = f}
Content(f)  == IF f = "config" THEN config = [rules |-> TRUE, disabled |-> expected["config"]]
               ELSE forwards = expected["forwards"]
CleanInv(f) ==
  f \in clean =>
    /\ \A p, q \in Updating(f) : p = q
    /\ \A p \in Updating(f) : /\ loaded[p].disabled = expected[f]
                              /\ f = "config" => loaded[p].rules
    /\ Writing(f) = {} => Content(f)
UpdateInv ==
  /\ expected \in [config : SUBSET Name, forwards : SUBSET Name]
  /\ CleanInv("config") /\ CleanInv("forwards")

RecordInv == IInv /\ Types /\ OpInv /\ (\A p \in Procs : LineInv(p)) /\ LengthInv
FileInv   == Types /\ OpInv /\ UpdateInv
--------------------------------------------------------------------------------
\* Lemma: what a command that updates a file names.
LEMMA CommandFacts ==
  ASSUME Types, NEW p \in Procs, cmd[p].op \in Configuring \union Listing
  PROVE  cmd[p].name \in Name
<1>1. cmd[p] \in Commands \/ cmd[p] = Idle
  BY DEF Types
<1>2. cmd[p] # Idle
  BY DEF Idle, Configuring, Listing
<1>3. cmd[p] \in Command
  BY <1>1, <1>2, GovernanceAssumption
<1> QED  BY <1>3 DEF Command

LEMMA InitTypes == Init => Types
<1> SUFFICES ASSUME Init PROVE Types
  OBVIOUS
<1>1. config \in Settings /\ loaded \in [Procs -> Settings] /\ forwards \subseteq Names
  BY DEF Init, Settings, Default
<1>2. /\ current \in Context /\ server \in Context /\ client \in [Procs -> Context]
      /\ pc \in [Procs -> Label] /\ cmd \in [Procs -> Commands \union {Idle}]
      /\ rec \in [Procs -> Record \union {NoRecord}]
      /\ answer \in [Procs -> {"none", "applied", "rejected"}]
  BY DEF Init, Label
<1>3. /\ audit \in Seq(Record \union {NoRecord, Newline}) /\ effects \subseteq [by : Procs, on : Context]
      /\ clean \subseteq {"config", "forwards"} /\ switches \in 0 .. MaxSwitches
  BY GovernanceAssumption DEF Init
<1> QED  BY <1>1, <1>2, <1>3 DEF Types

\* Lemma: a step that prepares a record for a process prepares a record.
LEMMA PrepareTypes ==
  ASSUME Types, NEW p \in Procs, NEW context \in Context,
         NEW outcome \in {"applied", "dryrun", "rejected"}, Prepare(p, context, outcome)
  PROVE  /\ rec' \in [Procs -> Record \union {NoRecord}] /\ pc' \in [Procs -> Label]
         /\ rec'[p] \in Record /\ rec'[p].by = p /\ rec'[p].outcome = outcome
         /\ pc'[p] = "line"
         /\ \A q \in Procs : q # p => pc'[q] = pc[q] /\ rec'[q] = rec[q]
<1> DEFINE r == [by |-> p, context |-> context, outcome |-> outcome]
<1>1. r \in Record /\ r.by = p /\ r.outcome = outcome
  BY DEF Record
<1>2. rec' = [rec EXCEPT ![p] = r] /\ pc' = [pc EXCEPT ![p] = "line"]
  BY DEF Prepare, Goto
<1> HIDE DEF r
<1> QED  BY <1>1, <1>2 DEF Types, Label

\* Lemma: every step keeps the types.
LEMMA TypesKept == Types /\ OpInv /\ [Next]_vars => Types'
<1> SUFFICES ASSUME Types, OpInv, [Next]_vars PROVE Types'
  OBVIOUS
<1> USE DEF Goto, env, history, files
<1>1. LoadConfig \in Settings /\ LoadForwards \subseteq Names
  BY DEF Types, LoadConfig, LoadForwards, Default, Settings
<1>2. ASSUME NEW p \in Procs, NEW c \in Commands, Start(p, c) \/ Receive(p, c)
      PROVE  Types'
  <2>1. /\ cmd' = [cmd EXCEPT ![p] = c]
        /\ client' \in [Procs -> Context]
        /\ \E label \in Label : pc' = [pc EXCEPT ![p] = label]
        /\ UNCHANGED <<files, history, env, loaded, rec>>
    BY <1>2 DEF Start, Receive, FirstStep, Label, Types
  <2> QED  BY <2>1 DEF Types
<1>3. ASSUME NEW p \in Procs,
             \/ ReadPolicy(p) \/ Gate(p) \/ Fetch(p) \/ Refuse(p) \/ Lost(p) \/ Bind(p)
             \/ CtrlC(p) \/ Kill(p) \/ Preflight(p) \/ WriteFails(p)
      PROVE  Types'
  <2>1. /\ \E label \in Label : pc' = [pc EXCEPT ![p] = label]
        /\ loaded' = loaded \/ loaded' = [loaded EXCEPT ![p] = LoadConfig]
        /\ clean' \subseteq clean
        /\ UNCHANGED <<files, effects, answer, switched, expected, env, cmd, client, rec>>
    BY <1>3 DEF ReadPolicy, Gate, Fetch, Refuse, Lost, Bind, CtrlC, Kill, Preflight, WriteFails, Label
  <2> QED  BY <1>1, <2>1 DEF Types
<1>4. ASSUME NEW p \in Procs, Accept(p)
      PROVE  Types'
  <2>1. /\ pc' = [pc EXCEPT ![p] = "reply"] /\ effects' \subseteq effects \union {[by |-> p, on |-> client[p]]}
        /\ UNCHANGED <<files, env, answer, switched, clean, expected, cmd, client, loaded, rec>>
    BY <1>4 DEF Accept
  <2>2. [by |-> p, on |-> client[p]] \in [by : Procs, on : Context]
    BY DEF Types
  <2> QED  BY <2>1, <2>2 DEF Types, Label
<1>5. ASSUME NEW p \in Procs, Reply(p) \/ RecordForward(p)
      PROVE  Types'
  <2>1. \E outcome \in {"applied", "dryrun"} : Prepare(p, current, outcome)
    BY <1>5 DEF Reply, RecordForward
  <2>2. UNCHANGED <<files, history, env, cmd, client, loaded>>
    BY <1>5 DEF Reply, RecordForward
  <2>3. rec' \in [Procs -> Record \union {NoRecord}] /\ pc' \in [Procs -> Label]
    BY <2>1, PrepareTypes DEF Types
  <2> QED  BY <2>2, <2>3 DEF Types
<1>6. ASSUME NEW p \in Procs, ReadFile(p)
      PROVE  Types'
  <2>1. [rules |-> FALSE, disabled |-> LoadForwards] \in Settings
    BY <1>1 DEF Settings
  <2>2. loaded' \in [Procs -> Settings]
    BY <1>1, <1>6, <2>1 DEF ReadFile, Types
  <2>3. /\ pc' = [pc EXCEPT ![p] = "truncate"] /\ clean' \subseteq clean
        /\ UNCHANGED <<files, env, effects, answer, switched, expected, cmd, client, rec>>
    BY <1>6 DEF ReadFile
  <2> QED  BY <2>2, <2>3 DEF Types, Label
<1>7. ASSUME NEW p \in Procs, Truncate(p)
      PROVE  Types'
  <2>1. Truncated \in Settings /\ NoForwards \subseteq Names
    BY DEF Truncated, Settings, NoForwards, Names
  <2>2. /\ config' \in {config, Truncated} /\ forwards' \in {forwards, NoForwards}
        /\ \E label \in Label : pc' = [pc EXCEPT ![p] = label]
        /\ UNCHANGED <<audit, history, env, cmd, client, loaded, rec>>
    BY <1>7 DEF Truncate, Label
  <2> QED  BY <2>1, <2>2 DEF Types
<1>8. ASSUME NEW p \in Procs, WriteFile(p)
      PROVE  Types'
  <2>1. \A S \in SUBSET Names : Changed(S, cmd[p]) \in SUBSET Names
    <3>1. cmd[p].name \in Name
      BY <1>8, CommandFacts DEF WriteFile, OpInv
    <3> QED  BY <3>1 DEF Changed, Names
  <2>2. loaded[p] \in Settings
    BY DEF Types
  <2>3. [loaded[p] EXCEPT !.disabled = Changed(loaded[p].disabled, cmd[p])] \in Settings
    BY <2>1, <2>2 DEF Settings
  <2>4. Changed(loaded[p].disabled, cmd[p]) \subseteq Names
    BY <2>1, <2>2 DEF Settings
  <2>5. /\ config' = config \/ config' = [loaded[p] EXCEPT !.disabled = Changed(loaded[p].disabled, cmd[p])]
        /\ forwards' = forwards \/ forwards' = Changed(loaded[p].disabled, cmd[p])
        /\ \E label \in Label : pc' = [pc EXCEPT ![p] = label]
        /\ UNCHANGED <<audit, env, effects, answer, switched, clean, cmd, client, loaded, rec>>
    BY <1>8 DEF WriteFile, Label
  <2> QED  BY <2>3, <2>4, <2>5 DEF Types
<1>9. ASSUME NEW p \in Procs, AppendLine(p) \/ AppendNewline(p)
      PROVE  Types'
  <2>1. /\ \E label \in Label : pc' = [pc EXCEPT ![p] = label]
        /\ UNCHANGED <<config, forwards, history, env, cmd, client, loaded, rec>>
    BY <1>9 DEF AppendLine, AppendNewline, AfterRecord, Label
  <2>2. audit' = audit \/ audit' = Append(audit, rec[p]) \/ audit' = Append(audit, Newline)
    BY <1>9 DEF AppendLine, AppendNewline
  <2>3. audit' \in Seq(Record \union {NoRecord, Newline})
    <3>1. Newline \in Record \union {NoRecord, Newline} /\ rec[p] \in Record \union {NoRecord, Newline}
      BY DEF Types
    <3>2. audit \in Seq(Record \union {NoRecord, Newline})
      BY DEF Types
    <3> DEFINE Lin == Record \union {NoRecord, Newline}
    <3> HIDE DEF Lin
    <3>3. audit \in Seq(Lin) /\ Newline \in Lin /\ rec[p] \in Lin
      BY <3>1, <3>2 DEF Lin
    <3>4. audit' \in Seq(Lin)
      BY <2>2, <3>3
    <3> QED  BY <3>4 DEF Lin
  <2> QED  BY <2>1, <2>3 DEF Types
<1>10. ASSUME NEW p \in Procs, Reject(p) \/ ExecTool(p)
       PROVE  Types'
  <2>1. PICK outcome \in {"applied", "rejected"} : Answer(p, outcome)
    BY <1>10 DEF Reject, ExecTool
  <2>2. answer' \in [Procs -> {"none", "applied", "rejected"}]
    BY <2>1 DEF Answer, Types
  <2>3. rec' \in [Procs -> Record \union {NoRecord}] /\ pc' \in [Procs -> Label]
    <3>1. CASE cmd[p].op = "unknown_tool"
      BY <2>1, <3>1 DEF Answer, Types, Label
    <3>2. CASE cmd[p].op # "unknown_tool"
      BY <2>1, <3>2, PrepareTypes DEF Answer, Types
    <3> QED  BY <3>1, <3>2
  <2>4. UNCHANGED <<files, env, effects, switched, clean, expected, cmd, client, loaded>>
    BY <2>1 DEF Answer
  <2> QED  BY <2>2, <2>3, <2>4 DEF Types
<1>11. CASE KillServer
  BY <1>11 DEF KillServer, Types, Label
<1>12. ASSUME NEW ctx \in Context, Switch(ctx)
       PROVE  Types'
  <2>1. switches' \in 0 .. MaxSwitches
    BY <1>12, GovernanceAssumption DEF Switch, Types
  <2> QED  BY <1>12, <2>1 DEF Switch, Types
<1>13. CASE UNCHANGED vars
  BY <1>13 DEF vars, Types
<1> QED
  BY <1>2, <1>3, <1>4, <1>5, <1>6, <1>7, <1>8, <1>9, <1>10, <1>11, <1>12, <1>13 DEF Next, Step
--------------------------------------------------------------------------------
\* Lemma: every kind of command is of one family.
LEMMA Families ==
  /\ Gated \intersect (Forwarding \union Configuring \union Listing \union Tools) = {}
  /\ Tools \intersect (Forwarding \union Configuring \union Listing) = {}
  /\ Configuring \intersect (Forwarding \union Listing) = {}
  /\ NoDryRun \union ServerDryRun \union LocalDryRun = Gated
  /\ "none" \notin Gated \union Forwarding \union Configuring \union Listing \union Tools
BY DEF Gated, Forwarding, Configuring, Listing, Tools, NoDryRun, ServerDryRun, LocalDryRun

\* Lemma: where a command goes is a step of its kind.
LEMMA FirstSteps ==
  ASSUME NEW c \in Commands, c.op \notin Tools
  PROVE  /\ FirstStep(c) \in {"policy", "failed", "call", "done", "bind", "load"}
         /\ FirstStep(c) \in {"policy", "call"} => c.op \in Gated
         /\ FirstStep(c) = "bind" => c.op \in Forwarding
         /\ FirstStep(c) = "load" => c.op \in Configuring \union Listing
         /\ FirstStep(c) = "done" => c.op \in LocalDryRun
<1>1. c.op \in Gated \union Forwarding \union Configuring \union Listing
  BY GovernanceAssumption DEF Command
<1>2. CASE c.op \in Gated
  BY <1>2, Families DEF FirstStep
<1>3. CASE c.op \notin Gated
  <2>1. c.op \notin NoDryRun /\ c.op \notin ServerDryRun /\ c.op \notin LocalDryRun
    BY <1>3, Families
  <2>2. FirstStep(c) = IF c.op = "forward" THEN "bind" ELSE "load"
    BY <1>3, <2>1 DEF FirstStep
  <2>3. c.op = "forward" \/ c.op \in Configuring \union Listing
    BY <1>1, <1>3 DEF Forwarding, Listing
  <2> QED  BY <2>2, <2>3 DEF Forwarding
<1> QED  BY <1>2, <1>3

\* Lemma: a process only reaches the steps of its kind of command.
LEMMA OpKept == Types /\ OpInv /\ [Next]_vars => OpInv'
<1> SUFFICES ASSUME Types, OpInv, [Next]_vars PROVE OpInv'
  OBVIOUS
<1> USE DEF Goto, env, history, files
<1>1. SUFFICES ASSUME NEW p \in Procs, NEW label, cmd' = cmd, pc' = [pc EXCEPT ![p] = label],
                      /\ label \in {"policy", "gate", "fetch", "call", "reply"} => cmd[p].op \in Gated
                      /\ label \in {"load", "truncate", "write"} => cmd[p].op \in Configuring \union Listing
                      /\ label \in {"bind", "serving"} => cmd[p].op \in Forwarding
                      /\ label = "record" => cmd[p].op \in Forwarding \union {"remove"}
                      /\ label \in {"reject", "preflight", "exec"} => cmd[p].op \in Tools
               PROVE  OpInv'
  <2>1. ASSUME NEW p \in Procs, NEW c \in Commands, Start(p, c)
        PROVE  OpInv'
    <3>1. PICK label \in {FirstStep(c), "failed"} : pc' = [pc EXCEPT ![p] = label]
      BY <2>1 DEF Start
    <3>2. cmd' = [cmd EXCEPT ![p] = c] /\ c.op \notin Tools
      BY <2>1 DEF Start
    <3>3. \A q \in Procs : q # p => pc'[q] = pc[q] /\ cmd'[q] = cmd[q]
      BY <3>1, <3>2 DEF Types
    <3>4. pc'[p] = label /\ cmd'[p] = c
      BY <3>1, <3>2 DEF Types
    <3> QED  BY <3>1, <3>2, <3>3, <3>4, FirstSteps DEF OpInv
  <2>2. ASSUME NEW p \in Procs, NEW c \in Commands, Receive(p, c)
        PROVE  OpInv'
    <3>1. PICK label \in {"reject", "preflight", "exec"} : pc' = [pc EXCEPT ![p] = label]
      BY <2>2 DEF Receive
    <3>2. cmd' = [cmd EXCEPT ![p] = c] /\ c.op \in Tools
      BY <2>2 DEF Receive
    <3>3. \A q \in Procs : q # p => pc'[q] = pc[q] /\ cmd'[q] = cmd[q]
      BY <3>1, <3>2 DEF Types
    <3>4. pc'[p] = label /\ cmd'[p] = c
      BY <3>1, <3>2 DEF Types
    <3> QED  BY <3>1, <3>2, <3>3, <3>4 DEF OpInv
  <2>3. ASSUME NEW p \in Procs, ReadPolicy(p) \/ Gate(p) \/ Fetch(p) \/ Refuse(p) \/ Accept(p) \/ Lost(p)
        PROVE  OpInv'
    <3>1. PICK label \in {"gate", "fetch", "call", "reply", "failed"} : pc' = [pc EXCEPT ![p] = label]
      BY <2>3 DEF ReadPolicy, Gate, Fetch, Refuse, Accept, Lost
    <3>2. cmd' = cmd /\ pc[p] \in {"policy", "gate", "fetch", "call", "reply"}
      BY <2>3 DEF ReadPolicy, Gate, Fetch, Refuse, Accept, Lost
    <3> QED  BY <1>1, <3>1, <3>2 DEF OpInv
  <2>4. ASSUME NEW p \in Procs,
               \/ Reply(p) \/ RecordForward(p) \/ Kill(p) \/ CtrlC(p) \/ Reject(p) \/ ExecTool(p)
               \/ AppendLine(p) \/ AppendNewline(p) \/ WriteFails(p)
        PROVE  OpInv'
    <3>1. /\ cmd' = cmd
          /\ \E label \in {"line", "killed", "done", "newline", "serving", "failed"} :
               /\ pc' = [pc EXCEPT ![p] = label]
               /\ label = "serving" => cmd[p].op \in Forwarding
      BY <2>4 DEF Reply, RecordForward, Kill, CtrlC, Reject, ExecTool, Answer, Prepare,
                  AppendLine, AppendNewline, AfterRecord, WriteFails
    <3> QED  BY <1>1, <3>1
  <2>5. ASSUME NEW p \in Procs, ReadFile(p) \/ Truncate(p)
        PROVE  OpInv'
    <3>1. /\ cmd' = cmd /\ pc[p] \in {"load", "truncate"}
          /\ \E label \in {"truncate", "write", "failed"} : pc' = [pc EXCEPT ![p] = label]
      BY <2>5 DEF ReadFile, Truncate
    <3> QED  BY <1>1, <3>1 DEF OpInv
  <2>6. ASSUME NEW p \in Procs, WriteFile(p)
        PROVE  OpInv'
    <3>1. /\ cmd' = cmd
          /\ \E label \in {"bind", "record", "done"} :
               /\ pc' = [pc EXCEPT ![p] = label]
               /\ label = "bind" => cmd[p].op = "named"
               /\ label = "record" => cmd[p].op = "remove"
      BY <2>6 DEF WriteFile
    <3> QED  BY <1>1, <3>1 DEF Forwarding
  <2>7. ASSUME NEW p \in Procs, Bind(p)
        PROVE  OpInv'
    <3>1. /\ cmd' = cmd /\ cmd[p].op \in Forwarding
          /\ \E label \in {"record", "failed"} : pc' = [pc EXCEPT ![p] = label]
      BY <2>7 DEF Bind, OpInv
    <3> QED  BY <1>1, <3>1
  <2>8. ASSUME NEW p \in Procs, Preflight(p)
        PROVE  OpInv'
    <3>1. /\ cmd' = cmd /\ cmd[p].op \in Tools
          /\ \E label \in {"exec", "reject"} : pc' = [pc EXCEPT ![p] = label]
      BY <2>8 DEF Preflight, OpInv
    <3> QED  BY <1>1, <3>1
  <2>9. CASE KillServer
    BY <2>9 DEF KillServer, OpInv
  <2>10. CASE \E ctx \in Context : Switch(ctx)
    BY <2>10 DEF Switch, OpInv
  <2>11. CASE UNCHANGED vars
    BY <2>11 DEF vars, OpInv
  <2> QED
    BY <2>1, <2>2, <2>3, <2>4, <2>5, <2>6, <2>7, <2>8, <2>9, <2>10, <2>11 DEF Next, Step
<1>2. \A q \in Procs : pc'[q] = IF q = p THEN label ELSE pc[q]
  BY <1>1 DEF Types
<1> QED  BY <1>1, <1>2 DEF OpInv
--------------------------------------------------------------------------------
SameLines(q) == Lines(q)' = Lines(q) /\ \A i \in Lines(q) : audit'[i] = audit[i]
Kept(q) == /\ pc'[q] = pc[q] /\ cmd'[q] = cmd[q] /\ rec'[q] = rec[q] /\ answer'[q] = answer[q]
           /\ HasEffect(q)' = HasEffect(q) /\ SameLines(q)

\* Lemma: what a process did and wrote stays true while others move.
LEMMA KeptLine ==
  ASSUME NEW q, LineInv(q), Kept(q), disk' = disk
  PROVE  LineInv(q)'
<1>1. Fits(q, rec[q].outcome)' = Fits(q, rec[q].outcome)
  BY DEF Kept, Fits, IsTool
<1>2. \A i \in Lines(q) : Fits(q, audit[i].outcome)' = Fits(q, audit[i].outcome)
  BY DEF Kept, SameLines, Fits, IsTool
<1>3. Owes(q)' = Owes(q)
  BY DEF Kept, Owes
<1>4. Lines(q)' = Lines(q)
  BY DEF Kept, SameLines
<1> QED  BY <1>1, <1>2, <1>3, <1>4 DEF LineInv, Kept

\* Lemma: a step of one process that touches neither the clusters nor the log.
LEMMA QuietMove ==
  ASSUME Types, NEW p \in Procs, \A q \in Procs : LineInv(q),
         NEW label, pc' = [pc EXCEPT ![p] = label],
         UNCHANGED <<cmd, rec, answer, effects, audit, disk>>,
         \/ /\ pc[p] \notin {"reply", "line", "newline", "serving", "done", "failed", "killed"}
            /\ label \notin {"reply", "line", "newline", "serving"}
            /\ label = "done" => cmd[p].op \notin Forwarding \union {"tool"}
         \/ pc[p] = "reply" /\ label = "failed"
         \/ pc[p] = "serving" /\ label = "done"
         \/ label = "killed"
  PROVE  \A q \in Procs : LineInv(q)'
<1>1. \A q \in Procs : /\ HasEffect(q)' = HasEffect(q) /\ Lines(q)' = Lines(q) /\ Owes(q)' = Owes(q)
                       /\ \A outcome : Fits(q, outcome)' = Fits(q, outcome)
  BY DEF HasEffect, Lines, Owes, Fits, IsTool
<1>2. \A q \in Procs : q # p => pc'[q] = pc[q]
  BY DEF Types
<1>3. \A q \in Procs : q # p => LineInv(q)'
  BY <1>1, <1>2, KeptLine DEF Kept, SameLines
<1>4. pc'[p] = label
  BY DEF Types
<1>5. LineInv(p)
  OBVIOUS
<1>6. LineInv(p)'
  BY <1>1, <1>4, <1>5 DEF LineInv, Owes
<1> QED  BY <1>3, <1>6

\* Lemma: a line at the end of the log is one more line of whoever wrote it.
LEMMA AppendedLine ==
  ASSUME Types, NEW r \in Record \union {NoRecord, Newline}, audit' = Append(audit, r)
  PROVE  /\ \A q : r.by # q => SameLines(q)
         /\ \A q : r.by = q => Lines(q)' = Lines(q) \union {Len(audit) + 1}
         /\ audit'[Len(audit) + 1] = r
         /\ \A i \in DOMAIN audit : audit'[i] = audit[i]
         /\ Len(audit') = Len(audit) + 1 /\ Len(audit) \in Nat
<1> DEFINE Line == Record \union {NoRecord, Newline}
<1>1. audit \in Seq(Line) /\ r \in Line
  BY DEF Types
<1> HIDE DEF Line
<1>2. /\ DOMAIN audit = 1 .. Len(audit) /\ Len(audit) \in Nat
      /\ DOMAIN audit' = 1 .. Len(audit) + 1
      /\ audit'[Len(audit) + 1] = r
      /\ \A i \in 1 .. Len(audit) : audit'[i] = audit[i]
      /\ Len(audit') = Len(audit) + 1
  BY <1>1
<1>3. 1 .. Len(audit) + 1 = 1 .. Len(audit) \union {Len(audit) + 1}
  BY <1>2
<1>4. \A q : Lines(q)' = Lines(q) \union {i \in {Len(audit) + 1} : r.by = q}
  BY <1>2, <1>3 DEF Lines
<1> QED  BY <1>2, <1>4 DEF SameLines, Lines

\* Lemma: the record a process writes is the first, and what it says is true.
LEMMA AppendLineKeeps ==
  ASSUME Types, OpInv, NEW p \in Procs, \A q \in Procs : LineInv(q), AppendLine(p)
  PROVE  \A q \in Procs : LineInv(q)'
<1> USE DEF Goto, env, history
<1>1. /\ pc[p] = "line" /\ rec[p] \in Record /\ rec[p].by = p /\ Fits(p, rec[p].outcome)
      /\ UNCHANGED <<cmd, rec, answer, effects, disk>> /\ Lines(p) = {}
  BY DEF AppendLine, LineInv
<1>2. \A q \in Procs : HasEffect(q)' = HasEffect(q) /\ Owes(q)' = Owes(q)
                       /\ \A outcome : Fits(q, outcome)' = Fits(q, outcome)
  BY <1>1 DEF HasEffect, Owes, Fits, IsTool
<1>3. CASE disk = "ok"
  <2>1. audit' = Append(audit, rec[p]) /\ pc' = [pc EXCEPT ![p] = "newline"]
    BY <1>3 DEF AppendLine
  <2>2. /\ \A q \in Procs : q # p => SameLines(q)
        /\ Lines(p)' = {Len(audit) + 1} /\ audit'[Len(audit) + 1] = rec[p]
    BY <1>1, <2>1, AppendedLine
  <2>3. pc'[p] = "newline" /\ \A q \in Procs : q # p => pc'[q] = pc[q]
    BY <2>1 DEF Types
  <2>4. \A q \in Procs : q # p => LineInv(q)'
    BY <1>1, <1>2, <2>2, <2>3, KeptLine DEF Kept
  <2>5. HasEffect(p) => cmd[p].op \in Gated /\ cmd[p].confirm
    BY DEF LineInv
  <2>6. LineInv(p)'
    BY <1>1, <1>2, <2>2, <2>3, <2>5 DEF LineInv
  <2> QED  BY <2>4, <2>6
<1>4. CASE disk # "ok"
  <2>1. audit' = audit /\ \E label \in {"serving", "done"} : pc' = [pc EXCEPT ![p] = label]
    BY <1>4 DEF AppendLine, AfterRecord
  <2>2. \A q \in Procs : Lines(q)' = Lines(q) /\ SameLines(q)
    BY <2>1 DEF Lines, SameLines
  <2>3. pc'[p] \in {"serving", "done"} /\ \A q \in Procs : q # p => pc'[q] = pc[q]
    BY <2>1 DEF Types
  <2>4. \A q \in Procs : q # p => LineInv(q)'
    BY <1>1, <1>2, <2>2, <2>3, KeptLine DEF Kept
  <2>5. /\ HasEffect(p) => cmd[p].op \in Gated /\ cmd[p].confirm
        /\ HasEffect(p) => cmd[p].op \notin Forwarding
    BY Families DEF LineInv
  <2>6. pc'[p] = "serving" => cmd[p].op \in Forwarding
    BY <2>1, <1>4 DEF AppendLine, AfterRecord, Types
  <2>7. LineInv(p)'
    <3>1. Lines(p)' = {} /\ disk' # "ok" /\ pc'[p] \in {"serving", "done"}
      BY <1>1, <1>4, <2>2, <2>3
    <3>2. HasEffect(p)' => cmd'[p].op \in Gated /\ cmd'[p].confirm /\ pc'[p] = "done"
      BY <1>1, <1>2, <2>3, <2>5, <2>6
    <3> QED  BY ONLY <3>1, <3>2 DEF LineInv
  <2> QED  BY <2>4, <2>7
<1> QED  BY <1>3, <1>4

\* Lemma: a line's end is nobody's line.
LEMMA AppendNewlineKeeps ==
  ASSUME Types, OpInv, NEW p \in Procs, \A q \in Procs : LineInv(q), AppendNewline(p)
  PROVE  \A q \in Procs : LineInv(q)'
<1> USE DEF Goto, env, history
<1>1. /\ pc[p] = "newline" /\ Lines(p) # {} /\ audit' = Append(audit, Newline)
      /\ pc' = [pc EXCEPT ![p] = AfterRecord(cmd[p])]
      /\ UNCHANGED <<cmd, rec, answer, effects, disk>>
  BY DEF AppendNewline, LineInv
<1>2. \A q \in Procs : HasEffect(q)' = HasEffect(q) /\ Owes(q)' = Owes(q)
                       /\ \A outcome : Fits(q, outcome)' = Fits(q, outcome)
  BY <1>1 DEF HasEffect, Owes, Fits, IsTool
<1>3. \A q \in Procs : SameLines(q)
  <2>1. \A q \in Procs : Newline.by # q
    BY GovernanceAssumption DEF Newline
  <2> QED  BY <1>1, <2>1, AppendedLine
<1>4. /\ pc'[p] = AfterRecord(cmd[p]) /\ \A q \in Procs : q # p => pc'[q] = pc[q]
      /\ AfterRecord(cmd[p]) \in {"serving", "done"}
      /\ AfterRecord(cmd[p]) = "serving" => cmd[p].op \in Forwarding
  BY <1>1 DEF Types, AfterRecord
<1>5. \A q \in Procs : q # p => LineInv(q)'
  BY <1>1, <1>2, <1>3, <1>4, KeptLine DEF Kept
<1>6. HasEffect(p) => cmd[p].op \in Gated /\ cmd[p].op \notin Forwarding
  BY Families DEF LineInv
<1>7. \A i \in Lines(p) : audit'[i] = audit[i]
  BY <1>3 DEF SameLines
<1>8. Lines(p)' = Lines(p)
  BY <1>3 DEF SameLines
<1>9. LineInv(p)'
  <2>1. LineInv(p)
    OBVIOUS
  <2>2. HasEffect(p)' => cmd'[p].op \in Gated /\ cmd'[p].confirm /\ pc'[p] = "done"
    <3>1. HasEffect(p) => cmd[p].confirm
      BY <2>1 DEF LineInv
    <3> QED  BY <1>1, <1>2, <1>4, <1>6, <3>1
  <2>3. (\A i \in Lines(p) : Fits(p, audit[i].outcome)) /\ \A i, j \in Lines(p) : i = j
    BY <2>1 DEF LineInv
  <2>4. (\A i \in Lines(p) : Fits(p, audit[i].outcome))' /\ \A i, j \in Lines(p)' : i = j
    BY <1>1, <1>2, <1>7, <1>8, <2>3 DEF Fits, IsTool
  <2>5. /\ Lines(p)' # {} /\ pc'[p] \in {"newline", "serving", "done", "killed"}
        /\ pc'[p] # "reply" /\ pc'[p] # "line"
    BY <1>1, <1>4, <1>8
  <2> HIDE DEF Goto
  <2> QED  BY ONLY <2>2, <2>4, <2>5 DEF LineInv
<1> QED  BY <1>5, <1>9

\* Lemma: what is in the audit log of a process that prepares its record.
LEMMA PreparedKeeps ==
  ASSUME Types, NEW p \in Procs, \A q \in Procs : LineInv(q),
         NEW context \in Context, NEW outcome \in {"applied", "dryrun", "rejected"},
         Prepare(p, context, outcome),
         Lines(p) = {}, pc[p] # "newline",
         UNCHANGED <<cmd, effects, audit, disk>>,
         \A q \in Procs : q # p => answer'[q] = answer[q],
         Fits(p, outcome)',
         HasEffect(p) => cmd[p].op \in Gated /\ cmd[p].confirm
  PROVE  \A q \in Procs : LineInv(q)'
<1>1. /\ rec'[p] \in Record /\ rec'[p].by = p /\ rec'[p].outcome = outcome
      /\ pc'[p] = "line"
      /\ \A q \in Procs : q # p => pc'[q] = pc[q] /\ rec'[q] = rec[q]
  BY PrepareTypes
<1>2. \A q \in Procs : HasEffect(q)' = HasEffect(q) /\ Lines(q)' = Lines(q) /\ SameLines(q)
  BY DEF HasEffect, Lines, SameLines
<1>3. \A q \in Procs : q # p => LineInv(q)'
  BY <1>1, <1>2, KeptLine DEF Kept
<1>4. LineInv(p)'
  BY <1>1, <1>2 DEF LineInv, Fits, IsTool
<1> QED  BY <1>3, <1>4

\* Lemma: every step keeps what each process has on record in line with what it did.
LEMMA LinesKept ==
  ASSUME IInv, Types, OpInv, \A q \in Procs : LineInv(q), [Next]_vars
  PROVE  \A q \in Procs : LineInv(q)'
<1> USE DEF Goto, env, history, files
<1>1. ASSUME NEW p \in Procs, NEW c \in Commands, Start(p, c) \/ Receive(p, c)
      PROVE  \A q \in Procs : LineInv(q)'
  <2>1. PICK label : /\ pc' = [pc EXCEPT ![p] = label]
                     /\ \/ label = FirstStep(c) /\ c.op \notin Tools
                        \/ label \in {"failed", "reject", "preflight", "exec"}
    <3>1. CASE Start(p, c)
      BY <3>1 DEF Start
    <3>2. CASE Receive(p, c)
      BY <3>2 DEF Receive
    <3> QED  BY <1>1, <3>1, <3>2
  <2>2. /\ cmd' = [cmd EXCEPT ![p] = c] /\ pc[p] = "idle"
        /\ UNCHANGED <<rec, answer, effects, audit, disk>>
    BY <1>1 DEF Start, Receive
  <2>3. /\ pc'[p] = label /\ cmd'[p] = c
        /\ \A q \in Procs : q # p => pc'[q] = pc[q] /\ cmd'[q] = cmd[q]
    BY <2>1, <2>2 DEF Types
  <2>4. \A q \in Procs : HasEffect(q)' = HasEffect(q) /\ Lines(q)' = Lines(q) /\ SameLines(q)
    BY <2>2 DEF HasEffect, Lines, SameLines
  <2>5. \A q \in Procs : q # p => LineInv(q)'
    BY <2>2, <2>3, <2>4, KeptLine DEF Kept
  <2>6. ~HasEffect(p) /\ Lines(p) = {}
    BY <2>2 DEF LineInv
  <2>7. /\ label \in {"policy", "failed", "call", "done", "bind", "load", "reject", "preflight", "exec"}
        /\ label = "done" => c.op \in Gated
    <3>1. CASE label = FirstStep(c) /\ c.op \notin Tools
      BY <3>1, FirstSteps, Families
    <3> QED  BY <2>1, <3>1
  <2>8. label = "done" => ~Owes(p)'
    BY <2>3, <2>4, <2>6, <2>7, Families DEF Owes, Tools
  <2>9. LineInv(p)'
    <3>1. ~HasEffect(p)' /\ Lines(p)' = {}
      BY <2>4, <2>6
    <3>2. pc'[p] \notin {"reply", "line", "newline", "serving"} /\ (pc'[p] = "done" => ~Owes(p)')
      BY <2>3, <2>7, <2>8
    <3> HIDE DEF Goto, env, history, files
    <3> QED  BY ONLY <3>1, <3>2 DEF LineInv
  <2> QED  BY <2>5, <2>9
<1>2. ASSUME NEW p \in Procs,
             \/ ReadPolicy(p) \/ Gate(p) \/ Fetch(p) \/ Refuse(p) \/ Lost(p) \/ Bind(p)
             \/ CtrlC(p) \/ Kill(p) \/ Preflight(p) \/ WriteFails(p) \/ ReadFile(p) \/ Truncate(p)
      PROVE  \A q \in Procs : LineInv(q)'
  <2>1. UNCHANGED <<cmd, rec, answer, effects, audit, disk>>
    BY <1>2 DEF ReadPolicy, Gate, Fetch, Refuse, Lost, Bind, CtrlC, Kill, Preflight, WriteFails,
                ReadFile, Truncate
  <2>2. CASE ReadPolicy(p) \/ Gate(p) \/ Fetch(p) \/ Refuse(p) \/ Bind(p)
    <3>1. /\ pc[p] \in {"policy", "gate", "fetch", "call", "bind"}
          /\ \E label \in {"gate", "fetch", "call", "failed", "record"} : pc' = [pc EXCEPT ![p] = label]
      BY <2>2 DEF ReadPolicy, Gate, Fetch, Refuse, Bind
    <3> HIDE DEF Goto, env, history, files
    <3> QED  BY <2>1, <3>1, QuietMove
  <2>3. CASE Preflight(p) \/ WriteFails(p) \/ ReadFile(p) \/ Truncate(p)
    <3>1. /\ pc[p] \in {"preflight", "write", "load", "truncate"}
          /\ \E label \in {"exec", "reject", "failed", "truncate", "write"} : pc' = [pc EXCEPT ![p] = label]
      BY <2>3 DEF Preflight, WriteFails, ReadFile, Truncate
    <3> HIDE DEF Goto, env, history, files
    <3> QED  BY <2>1, <3>1, QuietMove
  <2>4. CASE Lost(p) \/ CtrlC(p) \/ Kill(p)
    <3>1. \/ pc[p] = "reply" /\ pc' = [pc EXCEPT ![p] = "failed"]
          \/ pc[p] = "serving" /\ pc' = [pc EXCEPT ![p] = "done"]
          \/ pc' = [pc EXCEPT ![p] = "killed"]
      BY <2>4 DEF Lost, CtrlC, Kill
    <3> HIDE DEF Goto, env, history, files
    <3> QED  BY <2>1, <3>1, QuietMove
  <2> QED  BY <1>2, <2>2, <2>3, <2>4
<1>3. ASSUME NEW p \in Procs, WriteFile(p)
      PROVE  \A q \in Procs : LineInv(q)'
  <2>1. /\ UNCHANGED <<cmd, rec, answer, effects, audit, disk>> /\ pc[p] = "write"
        /\ \E label \in {"bind", "record", "done"} :
             /\ pc' = [pc EXCEPT ![p] = label]
             /\ label = "done" => cmd[p].op # "named"
    BY <1>3 DEF WriteFile
  <2>2. cmd[p].op # "named" => cmd[p].op \notin Forwarding \union {"tool"}
    BY <2>1 DEF OpInv, Forwarding, Configuring, Listing
  <2> HIDE DEF Goto, env, history, files
  <2> QED  BY <2>1, <2>2, QuietMove
<1>4. ASSUME NEW p \in Procs, Accept(p)
      PROVE  \A q \in Procs : LineInv(q)'
  <2>1. /\ pc[p] = "call" /\ pc' = [pc EXCEPT ![p] = "reply"]
        /\ UNCHANGED <<cmd, rec, answer, audit, disk>>
        /\ effects' = IF cmd[p].op \in ServerDryRun /\ ~cmd[p].confirm THEN effects
                      ELSE effects \union {[by |-> p, on |-> client[p]]}
    BY <1>4 DEF Accept
  <2>2. \A q \in Procs : q # p => HasEffect(q)' = HasEffect(q)
    BY <2>1 DEF HasEffect
  <2>3. \A q \in Procs : Lines(q)' = Lines(q) /\ SameLines(q)
    BY <2>1 DEF Lines, SameLines
  <2>4. pc'[p] = "reply" /\ \A q \in Procs : q # p => pc'[q] = pc[q]
    BY <2>1 DEF Types
  <2>5. \A q \in Procs : q # p => LineInv(q)'
    BY <2>1, <2>2, <2>3, <2>4, KeptLine DEF Kept
  <2>6. Lines(p) = {} /\ ~HasEffect(p) /\ cmd[p].op \in Gated
    BY <2>1 DEF LineInv, OpInv
  <2>7. cmd[p].confirm \/ cmd[p].op \in ServerDryRun
    BY <2>1 DEF IInv, GateInv
  <2>8. HasEffect(p)' => cmd[p].confirm
    BY <2>1, <2>6, <2>7 DEF HasEffect
  <2>9. cmd[p].confirm => HasEffect(p)'
    <3>1. cmd[p].confirm => [by |-> p, on |-> client[p]] \in effects'
      BY <2>1
    <3> QED  BY <3>1 DEF HasEffect
  <2>10. LineInv(p)'
    <3>1. Lines(p)' = {} /\ pc'[p] = "reply" /\ cmd' = cmd
      BY <2>1, <2>3, <2>4, <2>6
    <3> HIDE DEF Goto, env, history, files
    <3> QED  BY ONLY <2>6, <2>8, <2>9, <3>1 DEF LineInv
  <2> QED  BY <2>5, <2>10
<1>5. ASSUME NEW p \in Procs, Reply(p)
      PROVE  \A q \in Procs : LineInv(q)'
  <2>1. PICK outcome : /\ outcome = IF cmd[p].confirm THEN "applied" ELSE "dryrun"
                       /\ pc[p] = "reply" /\ Prepare(p, current, outcome)
                       /\ UNCHANGED <<cmd, effects, answer, audit, disk>>
    BY <1>5 DEF Reply
  <2>2. /\ Lines(p) = {} /\ (HasEffect(p) <=> cmd[p].confirm) /\ cmd[p].op \in Gated
    BY <2>1 DEF LineInv, OpInv
  <2>3. ~IsTool(p) /\ cmd[p].op \notin Forwarding
    BY <2>2, Families DEF IsTool
  <2>4. outcome \in {"applied", "dryrun", "rejected"} /\ (outcome = "applied" <=> HasEffect(p))
    BY <2>1, <2>2
  <2>5. Fits(p, outcome)'
    BY <2>1, <2>2, <2>3, <2>4 DEF Fits, IsTool, HasEffect
  <2>6. current \in Context /\ pc[p] # "newline" /\ \A q \in Procs : q # p => answer'[q] = answer[q]
    BY <2>1 DEF Types
  <2> HIDE DEF Goto, env, history, files
  <2> QED  BY <2>1, <2>2, <2>4, <2>5, <2>6, PreparedKeeps
<1>6. ASSUME NEW p \in Procs, RecordForward(p)
      PROVE  \A q \in Procs : LineInv(q)'
  <2>1. /\ pc[p] = "record" /\ Prepare(p, current, "applied")
        /\ UNCHANGED <<cmd, effects, answer, audit, disk>>
    BY <1>6 DEF RecordForward
  <2>2. Lines(p) = {} /\ ~HasEffect(p) /\ cmd[p].op \in Forwarding \union {"remove"}
    BY <2>1 DEF LineInv, OpInv
  <2>3. cmd[p].op \notin Gated /\ ~IsTool(p)
    BY <2>2, Families DEF IsTool, Listing
  <2>4. Fits(p, "applied")'
    BY <2>1, <2>3 DEF Fits, IsTool
  <2>6. current \in Context /\ pc[p] # "newline" /\ \A q \in Procs : q # p => answer'[q] = answer[q]
    BY <2>1 DEF Types
  <2> HIDE DEF Goto, env, history, files
  <2> QED  BY <2>1, <2>2, <2>4, <2>6, PreparedKeeps
<1>7. ASSUME NEW p \in Procs, Reject(p) \/ ExecTool(p)
      PROVE  \A q \in Procs : LineInv(q)'
  <2>1. PICK outcome \in {"applied", "rejected"} : Answer(p, outcome)
    BY <1>7 DEF Reject, ExecTool
  <2>2. /\ pc[p] \in {"reject", "exec"} /\ answer' = [answer EXCEPT ![p] = outcome]
        /\ UNCHANGED <<cmd, effects, audit, disk>>
    BY <1>7, <2>1 DEF Reject, ExecTool, Answer
  <2>3. Lines(p) = {} /\ ~HasEffect(p) /\ cmd[p].op \in Tools
    BY <2>2 DEF LineInv, OpInv
  <2>4. answer'[p] = outcome /\ \A q \in Procs : q # p => answer'[q] = answer[q]
    BY <2>2 DEF Types
  <2>5. CASE cmd[p].op = "unknown_tool"
    <3>1. pc' = [pc EXCEPT ![p] = "done"] /\ rec' = rec
      BY <2>1, <2>5 DEF Answer
    <3>2. pc'[p] = "done" /\ \A q \in Procs : q # p => pc'[q] = pc[q]
      BY <3>1 DEF Types
    <3>3. \A q \in Procs : HasEffect(q)' = HasEffect(q) /\ Lines(q)' = Lines(q) /\ SameLines(q)
      BY <2>2 DEF HasEffect, Lines, SameLines
    <3>4. \A q \in Procs : q # p => LineInv(q)'
      BY <2>2, <2>4, <3>1, <3>2, <3>3, KeptLine DEF Kept
    <3>5. ~Owes(p)'
      BY <2>2, <2>3, <2>5, <3>3 DEF Owes, Forwarding
    <3>6. LineInv(p)'
      <4>1. ~HasEffect(p)' /\ Lines(p)' = {} /\ pc'[p] = "done"
        BY <2>3, <3>2, <3>3
      <4> HIDE DEF Goto, env, history, files
      <4> QED  BY ONLY <3>5, <4>1 DEF LineInv
    <3> QED  BY <3>4, <3>6
  <2>6. CASE cmd[p].op # "unknown_tool"
    <3>1. Prepare(p, server, outcome) /\ server \in Context
      BY <2>1, <2>6 DEF Answer, Types
    <3>2. cmd[p].op \notin Gated /\ cmd[p].op \notin Forwarding
      BY <2>3, Families
    <3>3. Fits(p, outcome)'
      BY <2>2, <2>4, <3>2 DEF Fits, IsTool
    <3>4. outcome \in {"applied", "dryrun", "rejected"} /\ pc[p] # "newline"
      BY <2>2
    <3> HIDE DEF Goto, env, history, files
    <3> QED  BY <2>2, <2>3, <2>4, <3>1, <3>3, <3>4, PreparedKeeps
  <2> QED  BY <2>5, <2>6
<1>8. ASSUME NEW p \in Procs, AppendLine(p) \/ AppendNewline(p)
      PROVE  \A q \in Procs : LineInv(q)'
  BY <1>8, AppendLineKeeps, AppendNewlineKeeps
<1>9. CASE KillServer
  <2>1. /\ UNCHANGED <<cmd, rec, answer, effects, audit, disk>>
        /\ \A q \in Procs : pc'[q] = pc[q] \/ pc'[q] = "killed"
    BY <1>9 DEF KillServer
  <2>2. \A q \in Procs : HasEffect(q)' = HasEffect(q) /\ Lines(q)' = Lines(q) /\ SameLines(q)
    BY <2>1 DEF HasEffect, Lines, SameLines
  <2>3. ASSUME NEW q \in Procs, pc'[q] = pc[q]
        PROVE  LineInv(q)'
    BY <2>1, <2>2, <2>3, KeptLine DEF Kept
  <2>4. ASSUME NEW q \in Procs, pc'[q] = "killed"
        PROVE  LineInv(q)'
    BY <2>1, <2>2, <2>4 DEF LineInv, Fits, IsTool
  <2> QED  BY <2>1, <2>3, <2>4
<1>10. CASE (\E ctx \in Context : Switch(ctx)) \/ UNCHANGED vars
  <2>1. UNCHANGED <<pc, cmd, rec, answer, effects, audit, disk>>
    BY <1>10 DEF Switch, vars
  <2>2. \A q \in Procs : HasEffect(q)' = HasEffect(q) /\ SameLines(q)
    BY <2>1 DEF HasEffect, Lines, SameLines
  <2> QED  BY <2>1, <2>2, KeptLine DEF Kept
<1> QED
  BY <1>1, <1>2, <1>3, <1>4, <1>5, <1>6, <1>7, <1>8, <1>9, <1>10 DEF Next, Step
--------------------------------------------------------------------------------
\* Lemma: the sizes of the sets that bound the log.
LEMMA LinedSizes ==
  /\ IsFiniteSet(Lined) /\ IsFiniteSet(Ended)
  /\ Cardinality(Lined) \in Nat /\ Cardinality(Ended) \in Nat /\ Cardinality(Procs) \in Nat
  /\ Cardinality(Ended) <= Cardinality(Lined) /\ Cardinality(Lined) <= Cardinality(Procs)
<1>1. Lined \in SUBSET Procs /\ Ended \in SUBSET Lined
  BY DEF Lined, Ended
<1>2. IsFiniteSet(Procs)
  BY GovernanceAssumption
<1>3. IsFiniteSet(Lined) /\ Cardinality(Lined) <= Cardinality(Procs)
  BY <1>1, <1>2, FS_Subset
<1>4. IsFiniteSet(Ended) /\ Cardinality(Ended) <= Cardinality(Lined)
  BY <1>1, <1>3, FS_Subset
<1> QED  BY <1>2, <1>3, <1>4, FS_CardinalityType

\* Lemma: as long as nothing is written and no line is half-written, the bound stands.
LEMMA QuietLength ==
  ASSUME LengthInv, audit \in Seq(Record \union {NoRecord, Newline}), audit' = audit,
         \A q \in Procs : pc'[q] = "newline" => pc[q] = "newline"
  PROVE  LengthInv'
<1>1. Lined' = Lined
  BY DEF Lined, Lines
<1>2. Ended \subseteq Ended'
  BY <1>1 DEF Ended, Lined
<1>3. IsFiniteSet(Ended') /\ Cardinality(Ended') \in Nat
  <2>1. IsFiniteSet(Lined) /\ Ended' \in SUBSET Lined
    BY <1>1, LinedSizes DEF Ended
  <2> QED  BY <2>1, FS_Subset, FS_CardinalityType
<1>4. Cardinality(Ended) <= Cardinality(Ended')
  BY <1>2, <1>3, FS_Subset
<1>5. Len(audit) \in Nat
  OBVIOUS
<1>6. Cardinality(Lined) \in Nat /\ Cardinality(Ended) \in Nat
  BY LinedSizes
<1> HIDE DEF Lined, Ended
<1>7. Len(audit) <= Cardinality(Lined) + Cardinality(Ended')
  BY <1>3, <1>4, <1>5, <1>6 DEF LengthInv
<1> QED  BY <1>1, <1>7 DEF LengthInv

\* Lemma: every step keeps the log within a line and an end for each process.
LEMMA LengthKept ==
  ASSUME Types, OpInv, \A q \in Procs : LineInv(q), LengthInv, [Next]_vars
  PROVE  LengthInv'
<1> USE DEF Goto, env, history, files
<1>1. audit \in Seq(Record \union {NoRecord, Newline}) /\ pc \in [Procs -> Label]
  BY DEF Types
<1>2. ASSUME NEW p \in Procs, AppendLine(p), disk = "ok"
      PROVE  LengthInv'
  <2>1. /\ audit' = Append(audit, rec[p]) /\ pc' = [pc EXCEPT ![p] = "newline"]
        /\ rec[p] \in Record /\ rec[p].by = p /\ Lines(p) = {}
    BY <1>2 DEF AppendLine, LineInv
  <2>2. /\ \A q : q # p => Lines(q)' = Lines(q)
        /\ Lines(p)' # {} /\ Len(audit') = Len(audit) + 1 /\ Len(audit) \in Nat
    BY <2>1, AppendedLine DEF SameLines
  <2>3. Lined' = Lined \union {p} /\ p \notin Lined
    BY <2>1, <2>2 DEF Lined
  <2>4. Ended' = Ended
    BY <1>1, <2>1, <2>3 DEF Ended
  <2>5. Cardinality(Lined') = Cardinality(Lined) + 1
    BY <2>3, LinedSizes, FS_AddElement
  <2>6. Cardinality(Lined) \in Nat /\ Cardinality(Ended) \in Nat
    BY LinedSizes
  <2> QED  BY <2>2, <2>4, <2>5, <2>6 DEF LengthInv
<1>3. ASSUME NEW p \in Procs, AppendLine(p), disk # "ok"
      PROVE  LengthInv'
  <2>1. audit' = audit /\ \E label \in {"serving", "done"} : pc' = [pc EXCEPT ![p] = label]
    BY <1>3 DEF AppendLine, AfterRecord
  <2> QED  BY <1>1, <2>1, QuietLength
<1>4. ASSUME NEW p \in Procs, AppendNewline(p)
      PROVE  LengthInv'
  <2>1. /\ audit' = Append(audit, Newline) /\ pc[p] = "newline" /\ p \in Lined
        /\ \E label \in {"serving", "done"} : pc' = [pc EXCEPT ![p] = label]
    BY <1>4 DEF AppendNewline, AfterRecord, LineInv, Lined
  <2>2. /\ \A q \in Procs : Lines(q)' = Lines(q)
        /\ Len(audit') = Len(audit) + 1 /\ Len(audit) \in Nat
    <3>1. \A q \in Procs : Newline.by # q
      BY GovernanceAssumption DEF Newline
    <3> QED  BY <2>1, <3>1, AppendedLine DEF SameLines
  <2>3. Lined' = Lined
    BY <2>2 DEF Lined
  <2>4. Ended' = Ended \union {p} /\ p \notin Ended
    BY <1>1, <2>1, <2>3 DEF Ended, Lined
  <2>5. Cardinality(Ended') = Cardinality(Ended) + 1
    BY <2>4, LinedSizes, FS_AddElement
  <2>6. Cardinality(Lined) \in Nat /\ Cardinality(Ended) \in Nat
    BY LinedSizes
  <2> QED  BY <2>2, <2>3, <2>5, <2>6 DEF LengthInv
<1>5. ASSUME NEW p \in Procs, NEW label, label # "newline", pc' = [pc EXCEPT ![p] = label], audit' = audit
      PROVE  LengthInv'
  BY <1>1, <1>5, QuietLength
<1>6. ASSUME NEW p \in Procs, NEW c \in Commands, Start(p, c) \/ Receive(p, c)
      PROVE  LengthInv'
  <2>1. audit' = audit /\ \E label : label # "newline" /\ pc' = [pc EXCEPT ![p] = label]
    BY <1>6 DEF Start, Receive, FirstStep
  <2> QED  BY <1>5, <2>1
<1>7. ASSUME NEW p \in Procs,
             \/ ReadPolicy(p) \/ Gate(p) \/ Fetch(p) \/ Refuse(p) \/ Accept(p) \/ Lost(p) \/ Reply(p)
             \/ ReadFile(p) \/ Truncate(p) \/ WriteFile(p) \/ WriteFails(p) \/ Bind(p)
             \/ RecordForward(p) \/ CtrlC(p) \/ Kill(p) \/ Preflight(p) \/ Reject(p) \/ ExecTool(p)
      PROVE  LengthInv'
  <2>1. CASE ReadPolicy(p) \/ Gate(p) \/ Fetch(p) \/ Refuse(p) \/ Accept(p) \/ Lost(p) \/ Reply(p)
    BY <1>5, <2>1 DEF ReadPolicy, Gate, Fetch, Refuse, Accept, Lost, Reply, Prepare
  <2>2. CASE ReadFile(p) \/ Truncate(p) \/ WriteFile(p) \/ WriteFails(p) \/ Bind(p)
    BY <1>5, <2>2 DEF ReadFile, Truncate, WriteFile, WriteFails, Bind
  <2>3. CASE \/ RecordForward(p) \/ CtrlC(p) \/ Kill(p) \/ Preflight(p) \/ Reject(p) \/ ExecTool(p)
    BY <1>5, <2>3 DEF RecordForward, CtrlC, Kill, Preflight, Reject, ExecTool, Answer, Prepare
  <2> QED  BY <1>7, <2>1, <2>2, <2>3
<1>8. CASE KillServer
  <2>1. audit' = audit /\ \A q \in Procs : pc'[q] = pc[q] \/ pc'[q] = "killed"
    BY <1>8 DEF KillServer
  <2> QED  BY <1>1, <2>1, QuietLength
<1>9. CASE (\E ctx \in Context : Switch(ctx)) \/ UNCHANGED vars
  <2>1. audit' = audit /\ pc' = pc
    BY <1>9 DEF Switch, vars
  <2> QED  BY <1>1, <2>1, QuietLength
<1> QED  BY <1>2, <1>3, <1>4, <1>6, <1>7, <1>8, <1>9 DEF Next, Step
--------------------------------------------------------------------------------
\* Lemma: nothing is done and nothing is on record initially.
LEMMA InitRecord == Init => RecordInv
<1> SUFFICES ASSUME Init PROVE RecordInv
  OBVIOUS
<1>1. IInv /\ Types
  BY InitInv, InitTypes
<1>2. OpInv
  BY DEF Init, OpInv
<1>3. \A p \in Procs : ~HasEffect(p) /\ Lines(p) = {} /\ pc[p] = "idle"
  BY DEF Init, HasEffect, Lines
<1>4. \A p \in Procs : LineInv(p)
  BY <1>3 DEF LineInv
<1>5. LengthInv
  <2>1. Len(audit) = 0
    BY DEF Init
  <2> QED  BY <2>1, LinedSizes DEF LengthInv
<1> QED  BY <1>1, <1>2, <1>4, <1>5 DEF RecordInv

\* Lemma: the invariant says what the log and the clusters promise each other.
LEMMA RecordMeans == RecordInv => RecordsAreTrue
<1> SUFFICES ASSUME RecordInv PROVE RecordsAreTrue
  OBVIOUS
<1> USE DEF RecordInv
<1>1. \A p \in Procs : LineInv(p)
  OBVIOUS
<1>2. ASSUME NEW p \in Procs, NEW outcome, Recorded(p, outcome)
      PROVE  Fits(p, outcome)
  BY <1>1, <1>2 DEF Recorded, LineInv, Lines
<1>3. AppliedIsReal
  BY <1>2 DEF AppliedIsReal, Fits
<1>4. DoneIsRecorded
  <2>1. SUFFICES ASSUME disk = "ok", NEW p \in Procs
                 PROVE  /\ (pc[p] = "done" /\ HasEffect(p)) => Recorded(p, "applied")
                        /\ pc[p] = "serving" => Recorded(p, "applied")
                        /\ (pc[p] = "done" /\ cmd[p].op = "tool") => Recorded(p, answer[p])
                        /\ \A i, j \in DOMAIN audit : (audit[i].by = p /\ audit[j].by = p) => i = j
    BY DEF DoneIsRecorded
  <2>2. /\ \A i, j \in Lines(p) : i = j
        /\ \A i \in Lines(p) : Fits(p, audit[i].outcome)
        /\ pc[p] \in {"serving", "done"} /\ Owes(p) => Lines(p) # {}
        /\ HasEffect(p) => cmd[p].op \in Gated
    BY <1>1, <2>1 DEF LineInv
  <2>3. CASE pc[p] = "done" /\ HasEffect(p)
    <3>1. PICK i \in Lines(p) : Fits(p, audit[i].outcome)
      BY <2>2, <2>3 DEF Owes
    <3>2. audit[i].outcome = "applied" /\ cmd[p].op # "tool"
      BY <2>2, <2>3, <3>1, Families DEF Fits, Tools
    <3> QED  BY <2>2, <2>3, <3>1, <3>2 DEF Recorded, Lines
  <2>4. CASE pc[p] = "serving"
    <3>1. cmd[p].op \in Forwarding
      BY <2>4 DEF OpInv
    <3>2. PICK i \in Lines(p) : Fits(p, audit[i].outcome)
      BY <2>2, <2>4, <3>1 DEF Owes
    <3> QED  BY <2>2, <2>4, <3>1, <3>2 DEF Recorded, Lines, Fits
  <2>5. CASE pc[p] = "done" /\ cmd[p].op = "tool"
    <3>1. PICK i \in Lines(p) : Fits(p, audit[i].outcome)
      BY <2>2, <2>5 DEF Owes
    <3>2. audit[i].outcome = answer[p] /\ ~HasEffect(p)
      BY <2>2, <2>5, <3>1, Families DEF Fits, IsTool, Tools
    <3> QED  BY <2>2, <2>5, <3>1, <3>2 DEF Recorded, Lines
  <2>6. \A i, j \in DOMAIN audit : (audit[i].by = p /\ audit[j].by = p) => i = j
    BY <2>2 DEF Lines
  <2> QED  BY <2>3, <2>4, <2>5, <2>6
<1>5. TypeOK
  <2>1. /\ current \in Context /\ server \in Context /\ client \in [Procs -> Context]
        /\ config.rules \in BOOLEAN /\ forwards \subseteq Name \union NoForwards
        /\ pc \in [Procs -> Label] /\ \A p \in Procs : cmd[p] \in Commands \union {Idle}
        /\ clean \subseteq {"config", "forwards"} /\ switches \in 0 .. MaxSwitches
    BY DEF Types, Settings, Names, NoForwards
  <2>2. \A p \in Procs : pc[p] \in {"policy", "gate", "fetch"} => cmd[p].confirm
    BY DEF IInv, GateInv
  <2>3. \A e \in effects : e.on = client[e.by] /\ cmd[e.by].confirm
    BY <1>1 DEF IInv, EffectInv, LineInv, HasEffect
  <2>4. Len(audit) <= 2 * Cardinality(Procs)
    <3>1. Len(audit) \in Nat
      BY DEF Types
    <3> QED  BY <3>1, LinedSizes DEF LengthInv
  <2> QED  BY <2>1, <2>2, <2>3, <2>4 DEF TypeOK, Label
<1> QED  BY <1>3, <1>4, <1>5 DEF RecordsAreTrue

\* What the audit log says is applied was applied, by a confirmed command, and what was
\* applied and ended well is recorded once (audit_write and audit::append of the CLI,
\* call_tool of the MCP server), for any number of processes and any interleaving of
\* their two writes of a line.
THEOREM RecordsAlwaysTrue == Spec => []RecordsAreTrue
<1>1. Init => RecordInv
  BY InitRecord
<1>2. RecordInv /\ [Next]_vars => RecordInv'
  <2> SUFFICES ASSUME RecordInv, [Next]_vars PROVE RecordInv'
    OBVIOUS
  <2> USE DEF RecordInv
  <2>1. IInv' /\ Types' /\ OpInv'
    BY Inductive, TypesKept, OpKept
  <2>2. \A p \in Procs : LineInv(p)'
    BY LinesKept
  <2>3. LengthInv'
    BY LengthKept
  <2> QED  BY <2>1, <2>2, <2>3
<1>3. RecordInv => RecordsAreTrue
  BY RecordMeans
<1> QED  BY <1>1, <1>2, <1>3, PTL DEF Spec
--------------------------------------------------------------------------------
\* Lemma: a step that leaves a file and those who update it alone, or lets one go before
\* it emptied the file.
LEMMA OtherFile ==
  ASSUME NEW f, CleanInv(f), f \in clean' => f \in clean,
         f \in clean' => /\ expected'[f] = expected[f]
                         /\ Updating(f)' \subseteq Updating(f)
                         /\ \A q \in Updating(f)' : loaded'[q] = loaded[q]
                         /\ Writing(f)' = {} => Writing(f) = {}
                         /\ Content(f) => Content(f)'
  PROVE  CleanInv(f)'
BY DEF CleanInv

\* Lemma: a step of a process that leaves the files as they are and does not make it an
\* updater of one.
LEMMA QuietFile ==
  ASSUME Types, UpdateInv, NEW p \in Procs, NEW label, pc' = [pc EXCEPT ![p] = label],
         label \notin {"truncate", "write"},
         UNCHANGED <<config, forwards, expected>>, clean' \subseteq clean,
         pc[p] \in {"truncate", "write"} => cmd' = cmd,
         pc[p] = "write" => FileOf(cmd[p].op) \notin clean',
         \A q \in Procs : q # p => cmd'[q] = cmd[q] /\ loaded'[q] = loaded[q]
  PROVE  UpdateInv'
<1>1. \A q \in Procs : pc'[q] = IF q = p THEN label ELSE pc[q]
  BY DEF Types
<1>2. ASSUME NEW f, CleanInv(f)
      PROVE  CleanInv(f)'
  <2>1. Updating(f)' \subseteq Updating(f) /\ p \notin Updating(f)'
    BY <1>1 DEF Updating
  <2>2. \A q \in Updating(f)' : loaded'[q] = loaded[q]
    BY <2>1 DEF Updating
  <2>3. f \in clean' /\ Writing(f)' = {} => Writing(f) = {}
    BY <1>1 DEF Writing
  <2>4. Content(f) => Content(f)'
    BY DEF Content
  <2>5. expected'[f] = expected[f] /\ (f \in clean' => f \in clean)
    OBVIOUS
  <2> QED  BY <1>2, <2>1, <2>2, <2>3, <2>4, <2>5, OtherFile
<1> QED  BY <1>2 DEF UpdateInv

\* Lemma: who reads a clean file that nobody updates reads what the file should hold.
LEMMA ReadFileKeeps ==
  ASSUME Types, OpInv, UpdateInv, NEW p \in Procs, ReadFile(p)
  PROVE  UpdateInv'
<1> USE DEF Goto, env, files
<1>0. PICK g \in {"config", "forwards"} : g = FileOf(cmd[p].op)
  BY DEF FileOf
<1>1. /\ pc[p] = "load" /\ cmd' = cmd /\ UNCHANGED <<config, forwards, expected>>
      /\ \A q \in Procs : pc'[q] = IF q = p THEN "truncate" ELSE pc[q]
      /\ \A q \in Procs : q # p => loaded'[q] = loaded[q]
      /\ loaded'[p] = IF cmd[p].op \in Configuring THEN LoadConfig
                      ELSE [rules |-> FALSE, disabled |-> LoadForwards]
      /\ clean' \subseteq clean
  BY DEF ReadFile, Types
<1>2. g \in clean' => Updating(g) = {}
  BY <1>0, <1>1 DEF ReadFile, Updating
<1>3. \A f : Writing(f)' = Writing(f)
  BY <1>1 DEF Writing
<1>4. \A f : Content(f)' = Content(f)
  BY <1>1 DEF Content
<1>5. ASSUME NEW f, f # g, CleanInv(f)
      PROVE  CleanInv(f)'
  <2>1. Updating(f)' = Updating(f) /\ p \notin Updating(f)
    BY <1>0, <1>1, <1>5 DEF Updating
  <2>2. \A q \in Updating(f)' : loaded'[q] = loaded[q]
    BY <1>1, <2>1 DEF Updating
  <2> QED  BY <1>1, <1>3, <1>4, <1>5, <2>1, <2>2, OtherFile
<1>6. g = "config" <=> cmd[p].op \in Configuring
  BY <1>0 DEF FileOf
<1>7. ASSUME CleanInv(g)
      PROVE  CleanInv(g)'
  <2>1. SUFFICES ASSUME g \in clean' PROVE CleanInv(g)'
    BY DEF CleanInv
  <2>2. Updating(g) = {} /\ Updating(g)' = {p} /\ Writing(g) = {}
    BY <1>0, <1>1, <1>2, <2>1 DEF Updating, Writing
  <2>3. Content(g) /\ Content(g)'
    BY <1>1, <1>4, <1>7, <2>1, <2>2 DEF CleanInv
  <2>4. /\ loaded'[p].disabled = expected[g]
        /\ g = "config" => loaded'[p].rules
    <3>1. CASE g = "config"
      <4>1. config = [rules |-> TRUE, disabled |-> expected["config"]]
        BY <2>3, <3>1 DEF Content
      <4>2. config.rules = TRUE /\ config.disabled = expected[g] /\ config # Truncated
        BY <3>1, <4>1 DEF Truncated
      <4>3. loaded'[p] = config
        BY <1>1, <1>6, <3>1, <4>2 DEF LoadConfig
      <4> QED  BY <4>2, <4>3
    <3>2. CASE g = "forwards"
      <4>1. forwards = expected["forwards"] /\ expected["forwards"] \subseteq Name
        BY <2>3, <3>2 DEF Content, UpdateInv
      <4>2. forwards # NoForwards
        BY <4>1, GovernanceAssumption DEF NoForwards
      <4>3. loaded'[p] = [rules |-> FALSE, disabled |-> forwards]
        BY <1>1, <1>6, <3>2, <4>2 DEF LoadForwards
      <4> QED  BY <3>2, <4>1, <4>3
    <3> QED  BY <3>1, <3>2
  <2>5. expected' = expected
    BY <1>1
  <2> QED  BY <2>2, <2>3, <2>4, <2>5 DEF CleanInv
<1>8. expected' \in [config : SUBSET Name, forwards : SUBSET Name]
  BY <1>1 DEF UpdateInv
<1> QED  BY <1>5, <1>7, <1>8 DEF UpdateInv

\* Lemma: who empties a clean file is the one that will fill it again.
LEMMA TruncateKeeps ==
  ASSUME Types, OpInv, UpdateInv, NEW p \in Procs, Truncate(p)
  PROVE  UpdateInv'
<1> USE DEF Goto, env, history
<1>0. PICK g \in {"config", "forwards"} : g = FileOf(cmd[p].op)
  BY DEF FileOf
<1>1. /\ pc[p] = "truncate" /\ UNCHANGED <<cmd, loaded, clean, expected>>
  BY DEF Truncate
<1>2. CASE disk = "readonly"
  <2>1. UNCHANGED <<config, forwards>> /\ pc' = [pc EXCEPT ![p] = "failed"]
    BY <1>2 DEF Truncate
  <2> QED  BY <1>1, <2>1, QuietFile
<1>3. CASE disk # "readonly"
  <2>1. /\ \A q \in Procs : pc'[q] = IF q = p THEN "write" ELSE pc[q]
        /\ g = "config" => UNCHANGED forwards
        /\ g = "forwards" => UNCHANGED config
    BY <1>0, <1>3 DEF Truncate, Types, FileOf
  <2>2. \A f : Updating(f)' = Updating(f)
    BY <1>1, <2>1 DEF Updating
  <2>3. ASSUME NEW f, f # g, f \in {"config", "forwards"}, CleanInv(f)
        PROVE  CleanInv(f)'
    <3>1. Writing(f)' = Writing(f)
      BY <1>0, <1>1, <2>1, <2>3 DEF Writing
    <3>2. Content(f)' = Content(f)
      BY <1>1, <2>1, <2>3 DEF Content, FileOf
    <3> QED  BY <1>1, <2>2, <2>3, <3>1, <3>2, OtherFile
  <2>4. ASSUME CleanInv(g)
        PROVE  CleanInv(g)'
    <3>1. Writing(g)' # {}
      BY <1>0, <1>1, <2>1 DEF Writing
    <3> QED  BY <1>1, <2>2, <2>4, <3>1 DEF CleanInv
  <2> QED  BY <1>1, <2>3, <2>4 DEF UpdateInv
<1> QED  BY <1>2, <1>3

\* Lemma: the one updater of a clean file writes what the file should hold, changed.
LEMMA WriteFileKeeps ==
  ASSUME Types, OpInv, UpdateInv, NEW p \in Procs, WriteFile(p)
  PROVE  UpdateInv'
<1> USE DEF Goto, env
<1>0. PICK g \in {"config", "forwards"} : g = FileOf(cmd[p].op)
  BY DEF FileOf
<1>1. /\ pc[p] = "write" /\ UNCHANGED <<cmd, loaded, clean>>
      /\ \E label : label \notin {"truncate", "write"} /\ pc' = [pc EXCEPT ![p] = label]
      /\ expected' = [expected EXCEPT ![g] = Changed(@, cmd[p])]
      /\ g = "config" => /\ config' = [loaded[p] EXCEPT !.disabled = Changed(@, cmd[p])]
                         /\ UNCHANGED forwards
      /\ g = "forwards" => forwards' = Changed(loaded[p].disabled, cmd[p]) /\ UNCHANGED config
  <2>1. /\ pc[p] = "write" /\ UNCHANGED <<cmd, loaded, clean>>
        /\ \E label : label \notin {"truncate", "write"} /\ pc' = [pc EXCEPT ![p] = label]
    BY DEF WriteFile
  <2>2. /\ expected' = [expected EXCEPT ![g] = Changed(@, cmd[p])]
        /\ g = "config" => /\ config' = [loaded[p] EXCEPT !.disabled = Changed(@, cmd[p])]
                           /\ UNCHANGED forwards
        /\ g # "config" => forwards' = Changed(loaded[p].disabled, cmd[p]) /\ UNCHANGED config
    BY <1>0 DEF WriteFile
  <2> QED  BY <2>1, <2>2
<1>2. /\ \A q \in Procs : q # p => pc'[q] = pc[q]
      /\ pc'[p] \notin {"truncate", "write"}
  BY <1>1 DEF Types
<1>3. /\ expected'[g] = Changed(expected[g], cmd[p])
      /\ \A f \in {"config", "forwards"} : f # g => expected'[f] = expected[f]
      /\ expected' \in [config : SUBSET Name, forwards : SUBSET Name]
  <2>1. cmd[p].name \in Name
    BY <1>1, CommandFacts DEF OpInv
  <2>2. expected \in [config : SUBSET Name, forwards : SUBSET Name]
    BY DEF UpdateInv
  <2>3. expected[g] \subseteq Name
    BY <2>2
  <2>4. Changed(expected[g], cmd[p]) \subseteq Name
    BY <2>1, <2>3 DEF Changed
  <2> QED  BY <1>1, <2>2, <2>4
<1>4. ASSUME NEW f \in {"config", "forwards"}, f # g, CleanInv(f)
      PROVE  CleanInv(f)'
  <2>1. Updating(f)' = Updating(f) /\ Writing(f)' = Writing(f)
    BY <1>0, <1>1, <1>2, <1>4 DEF Updating, Writing
  <2>2. Content(f)' = Content(f)
    <3> QED  BY <1>1, <1>3, <1>4 DEF Content
  <2> QED  BY <1>1, <1>3, <1>4, <2>1, <2>2, OtherFile
<1>5. ASSUME CleanInv(g)
      PROVE  CleanInv(g)'
  <2>1. SUFFICES ASSUME g \in clean PROVE CleanInv(g)'
    BY <1>1 DEF CleanInv
  <2>2. p \in Updating(g)
    BY <1>0, <1>1 DEF Updating
  <2>3. Updating(g)' = {}
    <3>1. \A q \in Updating(g) : q = p
      BY <1>5, <2>1, <2>2 DEF CleanInv
    <3> QED  BY <1>1, <1>2, <3>1 DEF Updating
  <2>4. loaded[p].disabled = expected[g] /\ (g = "config" => loaded[p].rules)
    <3>1. \A q \in Updating(g) : loaded[q].disabled = expected[g] /\ (g = "config" => loaded[q].rules)
      BY <1>5, <2>1 DEF CleanInv
    <3> QED  BY <2>2, <3>1
  <2>5. Content(g)'
    <3>1. CASE g = "config"
      <4>1. loaded[p] \in Settings
        BY DEF Types
      <4> DEFINE S == Changed(expected["config"], cmd[p])
      <4>2. config' = [loaded[p] EXCEPT !.disabled = S] /\ expected'["config"] = S
        BY <1>1, <1>3, <2>4, <3>1
      <4>3. loaded[p].rules = TRUE
        BY <2>4, <3>1, <4>1 DEF Settings
      <4> HIDE DEF S
      <4>4. config' = [rules |-> TRUE, disabled |-> S]
        BY <4>1, <4>2, <4>3 DEF Settings
      <4> QED  BY <3>1, <4>2, <4>4 DEF Content
    <3>2. CASE g = "forwards"
      <4>1. forwards' = expected'["forwards"]
        BY <1>1, <1>3, <2>4, <3>2
      <4> QED  BY <3>2, <4>1 DEF Content
    <3> QED  BY <3>1, <3>2
  <2> QED  BY <2>3, <2>5 DEF CleanInv
<1> QED  BY <1>3, <1>4, <1>5 DEF UpdateInv

\* Lemma: every step keeps what is said of the files.
LEMMA UpdatesKept ==
  ASSUME Types, OpInv, UpdateInv, [Next]_vars
  PROVE  UpdateInv'
<1> USE DEF Goto, env, history, files
<1>1. ASSUME NEW p \in Procs, NEW c \in Commands, Start(p, c) \/ Receive(p, c)
      PROVE  UpdateInv'
  <2>1. /\ pc[p] = "idle" /\ UNCHANGED <<config, forwards, expected, clean, loaded>>
        /\ cmd' = [cmd EXCEPT ![p] = c]
        /\ \E label : label \notin {"truncate", "write"} /\ pc' = [pc EXCEPT ![p] = label]
    BY <1>1 DEF Start, Receive, FirstStep
  <2>2. \A q \in Procs : q # p => cmd'[q] = cmd[q]
    BY <2>1 DEF Types
  <2> HIDE DEF Goto, env, history, files
  <2> QED  BY <2>1, <2>2, QuietFile
<1>2. ASSUME NEW p \in Procs,
             \/ ReadPolicy(p) \/ Gate(p) \/ Fetch(p) \/ Refuse(p) \/ Accept(p) \/ Lost(p) \/ Reply(p)
             \/ Bind(p) \/ RecordForward(p) \/ AppendLine(p) \/ AppendNewline(p) \/ CtrlC(p)
             \/ Preflight(p) \/ Reject(p) \/ ExecTool(p)
      PROVE  UpdateInv'
  <2> DEFINE Quiet == /\ pc[p] # "truncate" /\ pc[p] # "write"
                      /\ UNCHANGED <<config, forwards, expected, clean, cmd>>
                      /\ loaded' = loaded \/ loaded' = [loaded EXCEPT ![p] = LoadConfig]
                      /\ \E label : label \notin {"truncate", "write"} /\ pc' = [pc EXCEPT ![p] = label]
  <2>1. ASSUME ReadPolicy(p) \/ Gate(p) \/ Fetch(p) \/ Refuse(p) \/ Accept(p) \/ Lost(p) \/ Reply(p) PROVE Quiet
    BY <2>1 DEF ReadPolicy, Gate, Fetch, Refuse, Accept, Lost, Reply, Prepare
  <2>2. ASSUME Bind(p) \/ RecordForward(p) \/ AppendLine(p) \/ AppendNewline(p) \/ CtrlC(p) PROVE Quiet
    BY <2>2 DEF Bind, RecordForward, AppendLine, AppendNewline, AfterRecord, CtrlC, Prepare
  <2>3. ASSUME Preflight(p) \/ Reject(p) \/ ExecTool(p) PROVE Quiet
    BY <2>3 DEF Preflight, Reject, ExecTool, Answer, Prepare
  <2>4. Quiet
    BY <1>2, <2>1, <2>2, <2>3
  <2>5. \A q \in Procs : q # p => cmd'[q] = cmd[q] /\ loaded'[q] = loaded[q]
    BY <2>4 DEF Types
  <2> HIDE DEF Goto, env, history, files
  <2> QED  BY <2>4, <2>5, QuietFile
<1>3. ASSUME NEW p \in Procs, WriteFails(p) \/ Kill(p)
      PROVE  UpdateInv'
  <2>1. /\ UNCHANGED <<config, forwards, expected, cmd, loaded>> /\ clean' \subseteq clean
        /\ pc[p] = "write" => FileOf(cmd[p].op) \notin clean'
        /\ \E label \in {"failed", "killed"} : pc' = [pc EXCEPT ![p] = label]
    BY <1>3 DEF WriteFails, Kill
  <2> HIDE DEF Goto, env, history, files
  <2> QED  BY <2>1, QuietFile
<1>4. ASSUME NEW p \in Procs, ReadFile(p) \/ Truncate(p) \/ WriteFile(p)
      PROVE  UpdateInv'
  BY <1>4, ReadFileKeeps, TruncateKeeps, WriteFileKeeps
<1>5. CASE KillServer \/ (\E ctx \in Context : Switch(ctx)) \/ UNCHANGED vars
  <2>1. /\ UNCHANGED <<config, forwards, expected, cmd, loaded, clean>>
        /\ \A q \in Procs : pc'[q] = pc[q] \/ (IsTool(q) /\ pc'[q] = "killed")
    BY <1>5 DEF KillServer, Switch, vars
  <2>2. \A q \in Procs : pc[q] \in {"truncate", "write"} => ~IsTool(q)
    BY Families DEF OpInv, IsTool
  <2>3. \A f : Updating(f)' = Updating(f) /\ Writing(f)' = Writing(f) /\ Content(f)' = Content(f)
    BY <2>1, <2>2 DEF Updating, Writing, Content
  <2>4. \A f : CleanInv(f)' = CleanInv(f)
    BY <2>1, <2>3 DEF CleanInv
  <2> QED  BY <2>1, <2>4 DEF UpdateInv
<1> QED  BY <1>1, <1>2, <1>3, <1>4, <1>5 DEF Next, Step

\* While updates of the configuration or of the list of forwards neither overlap nor die
\* half-way, the file holds what they did one after another (update_config and
\* ForwardManager::save, a read, a truncation and a write), for any number of processes
\* and any names.
THEOREM SequentialUpdatesAlwaysKept == Spec => []SequentialUpdatesKept
<1>1. Init => FileInv
  <2> SUFFICES ASSUME Init PROVE FileInv
    OBVIOUS
  <2>1. OpInv /\ \A f : Updating(f) = {}
    BY DEF Init, OpInv, Updating
  <2>2. expected = [config |-> {}, forwards |-> {}] /\ Content("config") /\ Content("forwards")
    BY DEF Init, Content
  <2> QED  BY <2>1, <2>2, InitTypes DEF FileInv, UpdateInv, CleanInv
<1>2. FileInv /\ [Next]_vars => FileInv'
  BY TypesKept, OpKept, UpdatesKept DEF FileInv
<1>3. FileInv => SequentialUpdatesKept
  <2> SUFFICES ASSUME FileInv PROVE SequentialUpdatesKept
    OBVIOUS
  <2>1. (\A p \in Procs : pc[p] = "write" => cmd[p].op \notin Configuring) => Writing("config") = {}
    BY DEF Writing, FileOf
  <2>2. (\A p \in Procs : pc[p] = "write" => cmd[p].op \notin Listing) => Writing("forwards") = {}
    BY DEF FileInv, OpInv, Writing, FileOf
  <2> QED  BY <2>1, <2>2 DEF FileInv, UpdateInv, CleanInv, Content, SequentialUpdatesKept
<1> QED  BY <1>1, <1>2, <1>3, PTL DEF Spec
================================================================================
