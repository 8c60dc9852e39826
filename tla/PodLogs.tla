------------------------------ MODULE PodLogs -------------------------------
(***************************************************************************)
(* `kaptein logs`: the three ways to read log lines (describe.rs), the     *)
(* filter that each applies for itself, and the table of JSON lines        *)
(* (viewmodel/logparse.rs).  A line is a value; what masking makes of it,  *)
(* the expressions it matches and the keys it has as a JSON object are     *)
(* given.  A container's log is a sequence of lines or Unread, the answer  *)
(* of the API for a container that has none.                               *)
(***************************************************************************)
EXTENDS Integers, Sequences, SequencesExt

CONSTANTS
  RedactLine(_),     \* redact_line of a line
  Matched(_),        \* the expressions a line matches
  JsonKeys(_)        \* parse_json_line: the keys of a line, none for a plain one

Unread == <<[unread |-> TRUE]>>
Refused == <<[refused |-> TRUE]>>
NoRegex == "none"
BadRegex == "bad"

\* regex.is_none_or(is_match)
Passes(regex, line) == regex = NoRegex \/ regex \in Matched(line)

\* tail_lines, of each container.
TailOf(log, n) == SubSeq(log, IF Len(log) > n THEN Len(log) - n + 1 ELSE 1, Len(log))

Of(pod, k, line) == [pod |-> pod.name, container |-> k, line |-> line]

CannotRead(pod) == \E k \in DOMAIN pod.logs : pod.logs[k] = Unread

(* pod_logs: one container after the other; one that fails, fails all.     *)
ReadPod(pod, tail) ==
  IF CannotRead(pod) THEN Refused
  ELSE FlattenSeq([k \in DOMAIN pod.logs |->
         LET last == TailOf(pod.logs[k], tail)
         IN [j \in DOMAIN last |-> Of(pod, k, RedactLine(last[j]))]])

\* Defect: what was read is printed, whatever --regex says.
SinglePod_IgnoresRegex(pod, regex, tail) ==
  IF ReadPod(pod, tail) = Refused \/ regex = BadRegex THEN Refused ELSE ReadPod(pod, tail)

(* `logs POD`: what was read, and masked, is filtered.                     *)
SinglePod(pod, regex, tail) ==
  IF ReadPod(pod, tail) = Refused \/ regex = BadRegex THEN Refused
  ELSE SelectSeq(ReadPod(pod, tail), LAMBDA l : Passes(regex, l.line))

(* multi_pod_logs: the lines are filtered as they came, then masked.       *)
MultiPodLogs(pods, regex, tail) ==
  IF regex = BadRegex \/ \E p \in DOMAIN pods : CannotRead(pods[p]) THEN Refused
  ELSE FlattenSeq([p \in DOMAIN pods |-> FlattenSeq([k \in DOMAIN pods[p].logs |->
         LET kept == SelectSeq(TailOf(pods[p].logs[k], tail), LAMBDA l : Passes(regex, l))
         IN [j \in DOMAIN kept |-> Of(pods[p], k, RedactLine(kept[j]))]])])

(* `logs POD --follow` names no container, so the API refuses a pod of     *)
(* several; the lines up to the end of the stream.                         *)
FollowLogs(pod, regex, tail) ==
  IF regex = BadRegex \/ Len(pod.logs) # 1 \/ CannotRead(pod) THEN Refused
  ELSE SinglePod(pod, regex, tail)

(* --json: a row for each line, in the columns of all of them; a plain     *)
(* line is its own row.  Without a column there is no table.               *)
JsonTable(lines) ==
  LET columns == UNION {JsonKeys(lines[k].line) : k \in DOMAIN lines}
      rows == IF columns = {} THEN << >> ELSE lines
  IN [columns |-> columns,
      rows    |-> [k \in DOMAIN rows |-> [line |-> rows[k].line, keys |-> JsonKeys(rows[k].line)]]]
=============================================================================
