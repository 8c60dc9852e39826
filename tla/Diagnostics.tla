---------------------------- MODULE Diagnostics -----------------------------
(***************************************************************************)
(* "Why is this pod not ready?": the rules of core/diagnostics.rs, and the *)
(* landing view and job explanation built on them (overview.rs, moat.rs).  *)
(* A container status has a name, a ready flag, a state and a last state;  *)
(* `scheduled` and `ready` are the two pod conditions the rules read, with *)
(* what their messages mention.  A finding is a code and the container it  *)
(* names, its wording left out.                                            *)
(***************************************************************************)
EXTENDS Integers, Sequences, SequencesExt

NoState       == [is |-> "none"]
Running       == [is |-> "running"]
Waiting(r)    == [is |-> "waiting", reason |-> r]
Terminated(c) == [is |-> "terminated", code |-> c]
OomExit == 137      \* or any exit whose reason is OOMKilled

NoStatus == [phase |-> "none"]

Finding(code, of) == [code |-> code, of |-> of]
When(test, code, of) == IF test THEN <<Finding(code, of)>> ELSE <<>>

ImagePullReasons == {"ImagePullBackOff", "ErrImagePull"}
CrashReasons     == {"CrashLoopBackOff", "BackOff"}

FirstOf(findings) == IF findings = <<>> THEN <<>> ELSE <<findings[1]>>

-----------------------------------------------------------------------------
(* One container.                                                          *)

InitContainerFinding(cs) ==
    IF cs.ready THEN <<>>
    ELSE IF cs.state.is = "terminated" /\ cs.state.code # 0
         THEN <<Finding("init_container_error", cs.name)>>
         ELSE <<Finding("init_container_waiting", cs.name)>>

CrashLoopBackoffFinding(cs) ==
    When(/\ cs.state.is = "waiting" /\ cs.state.reason \in CrashReasons
         /\ cs.last.is = "terminated",
         "crash_loop_backoff", cs.name)

ContainerCrashFinding(cs) ==
    When(cs.state.is = "terminated" /\ cs.state.code # 0, "crash_loop", cs.name)

ContainerNotReadyFinding(cs) == When(~ cs.ready, "container_not_ready", cs.name)

OomKilledFinding(cs) ==
    LET ended == IF cs.state.is = "terminated" THEN cs.state ELSE cs.last
    IN  When(ended.is = "terminated" /\ ended.code = OomExit, "oom_killed", cs.name)

\* The whole of the loop's body: a crash loop hides the weaker findings.
ContainerFindings(cs) ==
    LET loop == CrashLoopBackoffFinding(cs)
    IN  IF loop # <<>> THEN loop
        ELSE ContainerCrashFinding(cs) \o ContainerNotReadyFinding(cs)

ForEach(seq, F(_)) == FlattenSeq([i \in DOMAIN seq |-> F(seq[i])])

-----------------------------------------------------------------------------
(* The pod.                                                                *)

\* The first container that cannot pull its image.
ImagePullFinding(status) ==
    FirstOf(ForEach(status.containers,
        LAMBDA cs : When(cs.state.is = "waiting" /\ cs.state.reason \in ImagePullReasons,
                         "image_pull", cs.name)))

\* The scheduler's verdict, whatever its message mentions.
PvcBindingFinding(status) ==
    When("pvc" \in status.scheduled.mentions, "pvc_binding", "")
TaintFinding(status) ==
    When(status.scheduled.is = "False" /\ "taint" \in status.scheduled.mentions, "taint", "")
ResourcePressureFinding(status) ==
    When(status.scheduled.is = "False" /\ "insufficient" \in status.scheduled.mentions,
         "resource_pressure", "")
UnschedulableFinding(status) == When(status.scheduled.is = "False", "unschedulable", "")

ReadinessProbeFinding(status) ==
    When(status.ready.is = "False" /\ status.ready.probed, "readiness_probe", "")

IsReady(status) == status.ready.is = "True"

\* Defect: a pod that starts its init containers reads as unschedulable first.
PendingFindings_SchedulerFirst(status) ==
    FirstOf(UnschedulableFinding(status)
            \o ForEach(status.init, InitContainerFinding)
            \o PvcBindingFinding(status) \o TaintFinding(status)
            \o ResourcePressureFinding(status) \o ImagePullFinding(status)
            \o <<Finding("pending", "")>>)

\* The most specific cause only.
PendingFindings(status) ==
    FirstOf(ForEach(status.init, InitContainerFinding)
            \o PvcBindingFinding(status) \o TaintFinding(status)
            \o ResourcePressureFinding(status) \o UnschedulableFinding(status)
            \o ImagePullFinding(status) \o <<Finding("pending", "")>>)

Diagnose(status) ==
    IF status = NoStatus THEN <<Finding("no_status", "")>>
    ELSE IF status.phase = "Pending" THEN PendingFindings(status)
    ELSE LET found == ForEach(status.init, InitContainerFinding)
                      \o ForEach(status.containers, ContainerFindings)
                      \o ImagePullFinding(status) \o ReadinessProbeFinding(status)
                      \o ForEach(status.containers, OomKilledFinding)
         IN  IF found = <<>> /\ ~ IsReady(status) THEN <<Finding("not_ready", "")>> ELSE found

\* missing_resources: a container is a record of which of "cpu" and "memory" it
\* requests and which it limits.
MissingResources(spec) ==
    ForEach(spec.containers \o spec.init,
        LAMBDA c : When(c.requests = {}, "no_requests", c.name)
                   \o When(c.limits = {}, "no_limits", c.name))

-----------------------------------------------------------------------------
(* Reports over pods: [name, namespace, status, spec].  A failed list of   *)
(* pods leaves an overview without them.                                   *)

PodsWith(pods, Findings(_)) ==
    LET named == ForEach(pods, LAMBDA p :
                   IF Findings(p) = <<>> THEN <<>>
                   ELSE <<[namespace |-> p.namespace, name |-> p.name,
                           findings |-> Findings(p)]>>)
    IN  SortSeq(named, LAMBDA a, b : \/ a.namespace < b.namespace
                                     \/ a.namespace = b.namespace /\ a.name < b.name)

UnhealthyPods(pods)     == PodsWith(pods, LAMBDA p : Diagnose(p.status))
MisconfiguredPods(pods) == PodsWith(pods, LAMBDA p : MissingResources(p.spec))

JobPodLines(pods) ==
    ForEach(pods, LAMBDA p : LET f == Diagnose(p.status) IN
        IF f = <<>> THEN <<[pod |-> p.name, code |-> "ready"]>>
        ELSE [i \in DOMAIN f |-> [pod |-> p.name, code |-> f[i].code]])

=============================================================================
