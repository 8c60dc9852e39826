------------------------------ MODULE Activity ------------------------------
(***************************************************************************)
(* What happened recently: recent_events (core/events.rs) and the reports  *)
(* made of it (overview.rs, moat.rs).  An event has a key (its object and  *)
(* reason), a type and up to three times, NoTime where the API leaves one  *)
(* out: `last` is lastTimestamp of core/v1 (deprecatedLastTimestamp of     *)
(* events.k8s.io/v1), `first` is eventTime and `series` is                 *)
(* series.lastObservedTime.  The two list calls are made one after the     *)
(* other; one that fails is Failed.                                        *)
(***************************************************************************)
EXTENDS Integers, FiniteSets, Sequences, SequencesExt

NoTime == -1
Failed == <<[failed |-> TRUE]>>

(* The first time of the list that the event has.                          *)
FirstKnown(times) ==
  LET known == SelectSeq(times, LAMBDA t : t # NoTime)
  IN IF known = << >> THEN NoTime ELSE known[1]

CoreTime(e)   == e.last
ModernTime(e) == FirstKnown(<<e.first, e.series, e.last>>)

(* keep: an event without a time is kept only if no window was asked for.  *)
Keep(time, since) == since = NoTime \/ (time # NoTime /\ time >= since)

Summaries(list, TimeOf(_), since, now) ==
  IF list = Failed THEN << >>
  ELSE LET kept == SelectSeq(list, LAMBDA e : Keep(TimeOf(e), since))
       IN [i \in DOMAIN kept |->
             [key |-> kept[i].key, namespace |-> kept[i].namespace, type |-> kept[i].type,
              time |-> IF TimeOf(kept[i]) = NoTime THEN now ELSE TimeOf(kept[i])]]

NewestFirst(events) == SortSeq(events, LAMBDA a, b : a.time > b.time)

\* Defect: one entry per object and reason, whatever the time.
Dedup_ByKey(events) ==
  FoldLeft(LAMBDA kept, e : IF \E i \in DOMAIN kept : kept[i].key = e.key
                            THEN kept ELSE Append(kept, e),
           << >>, events)

(* The first of the entries with one key and time.                         *)
Dedup(events) ==
  FoldLeft(LAMBDA kept, e : IF \E i \in DOMAIN kept : /\ kept[i].key = e.key
                                                      /\ kept[i].time = e.time
                            THEN kept ELSE Append(kept, e),
           << >>, events)

(* Both APIs, merged; the failure of either counts as an empty list.       *)
RecentEvents(core, modern, since, now) ==
  Dedup(NewestFirst(Summaries(core, CoreTime, since, now)
                    \o Summaries(modern, ModernTime, since, now)))

WhatChangedBetween(core, modern, from, to, now) ==
  SelectSeq(RecentEvents(core, modern, from, now), LAMBDA e : e.time <= to)

(* summarize: the landing view; affected namespaces are sorted, a set here. *)
Summarize(events, changes, unhealthy, misconfigured) ==
  LET warnings == SelectSeq(events, LAMBDA e : e.type = "Warning")
  IN [warnings |-> warnings,
      total |-> Len(events),
      affected |-> {e.namespace : e \in ToSet(warnings)} \ {""},
      changes |-> changes, unhealthy |-> unhealthy, misconfigured |-> misconfigured]

(* explain_pod_failure: the warnings of the window that are about the pod. *)
RelatedEvents(core, modern, pod, window, now) ==
  SelectSeq(RecentEvents(core, modern, now - window, now),
            LAMBDA e : e.key.object = pod /\ e.type = "Warning")
=============================================================================
