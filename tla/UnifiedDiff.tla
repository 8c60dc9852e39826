---------------------------- MODULE UnifiedDiff ----------------------------
(***************************************************************************)
(* The line diff shown before an apply (kaptein-viewmodel, diff.rs).  A    *)
(* text is its sequence of lines; a tagged line is [tag, text] with tag    *)
(* " " kept, "-" removed, "+" added; a diff is its hunks and its counts.   *)
(***************************************************************************)
EXTENDS Naturals, Sequences, SequencesExt

Line(tag, text) == [tag |-> tag, text |-> text]

Larger(a, b) == IF a >= b THEN a ELSE b

(* The table of longest common subsequences of the suffixes that start at  *)
(* line i of old and line j of new.                                        *)
LcsTable(old, new) ==
  LET dp[i \in 1..(Len(old) + 1), j \in 1..(Len(new) + 1)] ==
        IF i > Len(old) \/ j > Len(new) THEN 0
        ELSE IF old[i] = new[j] THEN dp[i + 1, j + 1] + 1
        ELSE Larger(dp[i + 1, j], dp[i, j + 1])
  IN dp

(* The edit script: the walk down the table, a tie removes first.          *)
EditScript(old, new) ==
  LET dp == LcsTable(old, new)
      from[i \in 1..(Len(old) + 1), j \in 1..(Len(new) + 1)] ==
        IF i > Len(old) /\ j > Len(new) THEN << >>
        ELSE IF i > Len(old) THEN <<Line("+", new[j])>> \o from[i, j + 1]
        ELSE IF j > Len(new) THEN <<Line("-", old[i])>> \o from[i + 1, j]
        ELSE IF old[i] = new[j] THEN <<Line(" ", old[i])>> \o from[i + 1, j + 1]
        ELSE IF dp[i + 1, j] >= dp[i, j + 1]
             THEN <<Line("-", old[i])>> \o from[i + 1, j]
             ELSE <<Line("+", new[j])>> \o from[i, j + 1]
  IN from[1, 1]

IsChanged(line) == line.tag # " "

(* The position after the run of changed lines that starts at i.           *)
RunEnd(lines, i) ==
  CHOOSE e \in (i + 1)..(Len(lines) + 1) :
    /\ \A k \in i..(e - 1) : IsChanged(lines[k])
    /\ e <= Len(lines) => ~IsChanged(lines[e])

(* The position after at most context kept lines that follow the run.      *)
Trailing(lines, e, context) ==
  LET reach == {t \in e..(e + context) :
                  /\ t <= Len(lines) + 1
                  /\ \A k \in e..(t - 1) : ~IsChanged(lines[k])}
  IN CHOOSE t \in reach : \A u \in reach : u <= t

\* Defect: the scan resumes one line after the hunk.
GroupHunks_Skips(lines, context) ==
  LET from[i \in 1..(Len(lines) + 2)] ==
        IF i > Len(lines) THEN << >>
        ELSE IF ~IsChanged(lines[i]) THEN from[i + 1]
        ELSE LET stop == Trailing(lines, RunEnd(lines, i), context)
                 start == IF i > context THEN i - context ELSE 1
             IN <<SubSeq(lines, start, stop - 1)>> \o from[stop + 1]
  IN from[1]

(* A hunk per run of changes, with its context; the scan resumes where the *)
(* hunk ends, so the leading context of the next one may repeat lines,     *)
(* changed ones too.                                                       *)
GroupHunks(lines, context) ==
  LET from[i \in 1..(Len(lines) + 2)] ==
        IF i > Len(lines) THEN << >>
        ELSE IF ~IsChanged(lines[i]) THEN from[i + 1]
        ELSE LET stop == Trailing(lines, RunEnd(lines, i), context)
                 start == IF i > context THEN i - context ELSE 1
             IN <<SubSeq(lines, start, stop - 1)>> \o from[stop]
  IN from[1]

Added(lines) == Len(SelectSeq(lines, LAMBDA l : l.tag = "+"))
Removed(lines) == Len(SelectSeq(lines, LAMBDA l : l.tag = "-"))

Diff(old, new, context) ==
  LET lines == EditScript(old, new)
  IN [hunks |-> GroupHunks(lines, context),
      added |-> Added(lines), removed |-> Removed(lines)]

(* What the CLI prints: a header per hunk, then its lines.                 *)
RenderUnified(diff) ==
  FlattenSeq([k \in DOMAIN diff.hunks |-> <<Line("@", k)>> \o diff.hunks[k]])
=============================================================================
