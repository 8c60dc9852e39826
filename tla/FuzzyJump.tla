----------------------------- MODULE FuzzyJump -----------------------------
(***************************************************************************)
(* The fuzzy jump of the frontends (kaptein-viewmodel, fuzzy.rs) and the   *)
(* command palette of the TUI (kaptein-tui, lib.rs).  A character is       *)
(* [letter, upper]; a candidate is [name, chars], where name is the place  *)
(* of the string in byte order; a query is a sequence of lower-case        *)
(* letters, trimmed, as the code folds it first.                           *)
(***************************************************************************)
EXTENDS Integers, Sequences, SequencesExt

Boundaries == {" ", "-", "_", "."}

Hits(char, letter) == char.letter = letter

(* What the match of the character at k adds, when the last match was at   *)
(* prev (0: none yet).                                                     *)
Bonus(chars, k, prev) ==
  1 + IF prev # 0 THEN IF k = prev + 1 THEN 3 ELSE 0
      ELSE IF k = 1 THEN 4
      ELSE IF chars[k - 1].letter \in Boundaries \/ chars[k - 1].upper THEN 2
      ELSE 0

\* Defect: a query whose last letter is missing still matches.
FuzzyScore_Partial(chars, query) ==
  LET scan == FoldLeftDomain(
        LAMBDA st, k :
          IF st.taken < Len(query) /\ Hits(chars[k], query[st.taken + 1])
          THEN [taken |-> st.taken + 1, prev |-> k,
                score |-> st.score + Bonus(chars, k, st.prev)]
          ELSE st,
        [taken |-> 0, prev |-> 0, score |-> 0], chars)
  IN IF scan.taken >= Len(query) - 1 THEN scan.score ELSE -1

(* The score, or -1 where the code answers None: one pass that takes each  *)
(* letter of the query at its first place after the one before it.         *)
FuzzyScore(chars, query) ==
  LET scan == FoldLeftDomain(
        LAMBDA st, k :
          IF st.taken < Len(query) /\ Hits(chars[k], query[st.taken + 1])
          THEN [taken |-> st.taken + 1, prev |-> k,
                score |-> st.score + Bonus(chars, k, st.prev)]
          ELSE st,
        [taken |-> 0, prev |-> 0, score |-> 0], chars)
  IN IF scan.taken = Len(query) THEN scan.score ELSE -1

Matching(candidates, query) ==
  SelectSeq([k \in DOMAIN candidates |-> k],
            LAMBDA k : FuzzyScore(candidates[k].chars, query) >= 0)

(* Best first, a tie in input order: the ranking the table filter uses.    *)
FuzzyRankIndices(candidates, query) ==
  LET score(k) == FuzzyScore(candidates[k].chars, query)
  IN SortSeq(Matching(candidates, query),
             LAMBDA a, b : score(a) > score(b) \/ (score(a) = score(b) /\ a < b))

(* Best first, a tie by name; the empty query keeps the input order.  The  *)
(* answer names the candidates by their place in the input.                *)
FuzzyJumpTo(candidates, query) ==
  LET score(k) == FuzzyScore(candidates[k].chars, query)
      before(a, b) == \/ score(a) > score(b)
                      \/ score(a) = score(b) /\ candidates[a].name < candidates[b].name
  IN IF query = << >> THEN [k \in DOMAIN candidates |-> k]
     ELSE SortSeq(Matching(candidates, query), before)

(* The palette looks each ranked label up again in the list of commands.   *)
PaletteMatches(commands, query) ==
  LET ranked == FuzzyJumpTo(commands, query)
      command(k) == CHOOSE c \in DOMAIN commands :
                      /\ commands[c].name = commands[k].name
                      /\ \A d \in 1..(c - 1) : commands[d].name # commands[k].name
  IN IF query = << >> THEN [k \in DOMAIN commands |-> k]
     ELSE [r \in DOMAIN ranked |-> command(ranked[r])]
=============================================================================
