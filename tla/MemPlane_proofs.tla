----------------------------- MODULE MemPlane_proofs -----------------------------
(***************************************************************************)
(* The in-memory data plane, for any rows, any number of threads and any   *)
(* length of the history: the index, the pages, the history and (for one   *)
(* writer) the subscriptions.                                              *)
(***************************************************************************)
EXTENDS MemPlane, FiniteSetTheorems, SequenceTheorems, WellFoundedInduction, TLAPS

\* The history holds the last patches, one for each revision.
Numbered(h, rev) ==
  /\ Len(h) <= rev
  /\ \A k \in 1 .. Len(h) : h[k].rev = rev - Len(h) + k

NewerIn(h, from) == At(h, {k \in DOMAIN h : h[k].rev > from})

Subscription ==
  [phase : {"copied", "live", "gone"}, from : Nat, patches : Seq(Patch),
   raced : BOOLEAN, complete : BOOLEAN]

\* What TypeOK leaves open: the history of contents, and the records of the subscribers.
Shapes ==
  /\ past \in Seq([Ids -> Nat])
  /\ DOMAIN query = Reader
  /\ sub \in [Subscriber -> Subscription \union {NoSub}]
  /\ \A s \in Subscriber : sub[s] \in Subscription => sub[s].from <= revision

\* A query knows the positions of its window until somebody writes.
QueryInv ==
  \A r \in Reader :
    /\ query[r].phase \in {"sort", "clone", "page"} =>
         query[r].rev \in Nat /\ query[r].rev <= revision
    /\ (query[r].phase = "clone" /\ query[r].rev = revision) =>
         LET match == Matching(rows, query[r].asked[1], query[r].asked[2])
         IN /\ query[r].total = Len(match)
            /\ query[r].picks = WindowOf(match, query[r].asked[3])

PlaneInv ==
  /\ TypeOK
  /\ IndexAgrees
  /\ Shapes
  /\ Numbered(history, revision)
  /\ HistoryReplays
  /\ QueryInv
  /\ PageExactWhenCurrent

\* One task watches the cluster for a plane, and writes what it sees.
OneWriter == \A v, w \in Writer : v = w

\* What a subscriber would have after the patches it got.
Rebuilt(s) == Replayed(past[sub[s].from + 1], sub[s].patches)

\* The rows already have what the unsent patch says, and every subscriber that keeps up is
\* at most that patch behind.
SubscriberInv ==
  /\ \A w \in Writer : unsent[w] # NoPatch => Contents[unsent[w].id] = unsent[w].ver
  /\ \A s \in Subscriber :
       (sub[s].phase \in {"copied", "live"} /\ sub[s].complete /\ ~sub[s].raced) =>
         /\ Quiet => Rebuilt(s) = Contents
         /\ \A w \in Writer :
              unsent[w] # NoPatch => ApplyPatch(Rebuilt(s), unsent[w]) = Contents

--------------------------------------------------------------------------------
\* Lemma: a nonempty set of positions has its maximum in it.
LEMMA MaxInSet ==
  ASSUME NEW n \in Nat, NEW A \in SUBSET (1 .. n), A # {}
  PROVE  Max(A) \in A /\ \A k \in A : k <= Max(A)
<1> DEFINE bounds == {m \in Nat : \A k \in A : k <= m}
<1>1. bounds \subseteq Nat /\ n \in bounds
  OBVIOUS
<1>2. \E m \in bounds : \A j \in bounds : ~ (j < m)
  <2>1. \E m \in bounds : \A j \in bounds : ~ (<<j, m>> \in OpToRel(<, Nat))
    BY <1>1, NatLessThanWellFounded, WFMin
  <2> QED  BY <1>1, <2>1 DEF OpToRel
<1>3. PICK m \in bounds : \A j \in bounds : ~ (j < m)
  BY <1>2
<1>4. m \in A
  <2> SUFFICES ASSUME m \notin A PROVE FALSE
    OBVIOUS
  <2>1. \A k \in A : k \in 1 .. n /\ k <= m /\ k # m
    BY <1>3
  <2>2. m \in Nat /\ m # 0
    <3>1. PICK k \in A : k \in 1 .. n /\ k <= m
      BY <2>1
    <3> QED  BY <1>3, <3>1
  <2>3. m - 1 \in bounds
    BY <2>1, <2>2
  <2> QED BY <1>3, <2>2, <2>3
<1>5. \A k \in A : k <= m
  BY <1>3
<1> HIDE DEF bounds
<1> QED  BY <1>4, <1>5 DEF Max

\* Lemma: taking the positions from `lo` to the end of a sequence gives its end.
LEMMA AtTheEnd ==
  ASSUME NEW S, NEW s \in Seq(S), NEW lo \in 1 .. Len(s) + 1
  PROVE  /\ At(s, lo .. Len(s)) \in Seq(S)
         /\ Len(At(s, lo .. Len(s))) = Len(s) + 1 - lo
         /\ \A n \in 1 .. Len(s) + 1 - lo, j \in 1 .. Len(s) :
              j - n = lo - 1 => At(s, lo .. Len(s))[n] = s[j]
<1> DEFINE positions == lo .. Len(s)
           count == Len(s) + 1 - lo
           place(n) == CHOOSE k \in positions : Cardinality({j \in positions : j <= k}) = n
<1>1. Len(s) \in Nat /\ lo \in Nat /\ lo >= 1 /\ count \in Nat
  OBVIOUS
<1>2. Cardinality(positions) = count
  <2>1. lo \in Int /\ Len(s) \in Int /\ count = IF lo > Len(s) THEN 0 ELSE Len(s) - lo + 1
    BY <1>1
  <2>2. Cardinality(positions) = IF lo > Len(s) THEN 0 ELSE Len(s) - lo + 1
    BY ONLY <2>1, FS_Interval
  <2> QED  BY ONLY <2>1, <2>2
<1>3. ASSUME NEW k \in positions
      PROVE  Cardinality({j \in positions : j <= k}) = k + 1 - lo
  <2>1. {j \in positions : j <= k} = lo .. k
    BY <1>1
  <2>2. k \in Int /\ lo \in Int /\ ~ (lo > k) /\ k - lo + 1 = k + 1 - lo
    BY <1>1
  <2>3. Cardinality(lo .. k) = IF lo > k THEN 0 ELSE k - lo + 1
    BY ONLY <2>2, FS_Interval
  <2> QED  BY ONLY <2>1, <2>2, <2>3
<1>4. ASSUME NEW n \in 1 .. count, NEW j \in 1 .. Len(s), j - n = lo - 1
      PROVE  place(n) = j
  <2>1. j \in positions /\ j + 1 - lo = n
    BY <1>1, <1>4
  <2>2. \A k \in positions : k + 1 - lo = n => k = j
    BY <1>1, <2>1
  <2> QED  BY <1>3, <2>1, <2>2
<1>5. At(s, positions) = [n \in 1 .. count |-> s[place(n)]]
  BY <1>2 DEF At
<1>6. ASSUME NEW n \in 1 .. count
      PROVE  place(n) \in 1 .. Len(s)
  <2>1. \E j \in 1 .. Len(s) : j - n = lo - 1
    <3>1. n + (lo - 1) \in 1 .. Len(s) /\ (n + (lo - 1)) - n = lo - 1
      BY <1>1
    <3> QED  BY <3>1
  <2> QED  BY <1>4, <2>1
<1> HIDE DEF place, positions, count
<1>7. \A n \in 1 .. count : s[place(n)] \in S
  BY <1>6
<1>8. At(s, positions) \in Seq(S) /\ Len(At(s, positions)) = count
  BY <1>1, <1>5, <1>7, IsASeq
<1> QED  BY <1>4, <1>5, <1>8 DEF positions, count

\* Lemma: the patches newer than a revision are the end of the history, one for each
\* revision since, as far as the history reaches back.
LEMMA NewerFacts ==
  ASSUME NEW h \in Seq(Patch), NEW rev \in Nat, Numbered(h, rev), NEW from \in 0 .. rev
  PROVE  /\ NewerIn(h, from) \in Seq(Patch)
         /\ from >= rev - Len(h) =>
              /\ Len(NewerIn(h, from)) = rev - from
              /\ \A n \in 1 .. rev - from, j \in 1 .. Len(h) :
                   j - n = Len(h) - (rev - from) => NewerIn(h, from)[n] = h[j]
<1> DEFINE lo == IF from >= rev - Len(h) THEN from - (rev - Len(h)) + 1 ELSE 1
<1>1. Len(h) \in Nat /\ Len(h) <= rev /\ DOMAIN h = 1 .. Len(h)
  BY DEF Numbered
<1>2. lo \in 1 .. Len(h) + 1
  BY <1>1
<1>3. {k \in DOMAIN h : h[k].rev > from} = lo .. Len(h)
  <2>1. \A k \in 1 .. Len(h) : h[k].rev = rev - Len(h) + k
    BY DEF Numbered
  <2>2. \A k \in 1 .. Len(h) : rev - Len(h) + k > from <=> k >= lo
    BY <1>1
  <2>3. {k \in DOMAIN h : h[k].rev > from} = {k \in 1 .. Len(h) : k >= lo}
    BY <1>1, <2>1, <2>2
  <2>4. {k \in 1 .. Len(h) : k >= lo} = lo .. Len(h)
    BY <1>1, <1>2
  <2> QED  BY <2>3, <2>4
<1>4. NewerIn(h, from) = At(h, lo .. Len(h))
  BY <1>3 DEF NewerIn
<1>5. /\ NewerIn(h, from) \in Seq(Patch)
      /\ Len(NewerIn(h, from)) = Len(h) + 1 - lo
      /\ \A n \in 1 .. Len(h) + 1 - lo, j \in 1 .. Len(h) :
           j - n = lo - 1 => NewerIn(h, from)[n] = h[j]
  <2> HIDE DEF lo
  <2>1. /\ At(h, lo .. Len(h)) \in Seq(Patch)
        /\ Len(At(h, lo .. Len(h))) = Len(h) + 1 - lo
        /\ \A n \in 1 .. Len(h) + 1 - lo, j \in 1 .. Len(h) :
             j - n = lo - 1 => At(h, lo .. Len(h))[n] = h[j]
    BY <1>2, AtTheEnd
  <2> QED  BY <1>4, <2>1
<1>6. ASSUME from >= rev - Len(h)
      PROVE  Len(h) + 1 - lo = rev - from /\ lo - 1 = Len(h) - (rev - from)
  BY <1>1, <1>6
<1> HIDE DEF lo
<1> QED  BY <1>5, <1>6

\* Lemma: one more patch changes what replaying gives as it changes contents.
LEMMA ReplayOneMore ==
  ASSUME NEW c \in [Ids -> Nat], NEW n \in Nat, NEW p \in Patch, NEW before, NEW after,
         DOMAIN before = 1 .. n, DOMAIN after = 1 .. n + 1,
         \A k \in 1 .. n : after[k] = before[k],
         after[n + 1] = p
  PROVE  Replayed(c, after) = ApplyPatch(Replayed(c, before), p)
<1> DEFINE about(ps, i) == {k \in DOMAIN ps : ps[k].id = i}
<1>1. ASSUME NEW i \in Ids
      PROVE  Replayed(c, after)[i] = ApplyPatch(Replayed(c, before), p)[i]
  <2>1. CASE i = p.id
    <3>1. /\ n + 1 \in about(after, i) /\ about(after, i) \subseteq 1 .. n + 1
      BY <2>1
    <3>2. Max(about(after, i)) = n + 1
      <4> DEFINE A == about(after, i)
      <4>1. n + 1 \in A /\ A \subseteq 1 .. n + 1
        BY <3>1
      <4> HIDE DEF A
      <4>2. \A y \in A : n + 1 >= y
        BY <4>1
      <4>3. \A x \in A : (\A y \in A : x >= y) => x = n + 1
        BY <4>1
      <4>4. Max(A) = n + 1
        BY <4>1, <4>2, <4>3 DEF Max
      <4> QED  BY <4>4 DEF A
    <3>3. Replayed(c, after)[i] = p.ver
      BY <3>1, <3>2 DEF Replayed
    <3> QED  BY <2>1, <3>3 DEF ApplyPatch, Replayed
  <2>2. CASE i # p.id
    <3>1. about(after, i) = about(before, i)
      BY <2>2
    <3>2. about(after, i) # {} => after[Max(about(after, i))] = before[Max(about(after, i))]
      <4> DEFINE A == about(before, i)
      <4>1. A \in SUBSET (1 .. n)
        OBVIOUS
      <4>2. A # {} => Max(A) \in 1 .. n
        <5> HIDE DEF A
        <5> QED  BY <4>1, MaxInSet
      <4> QED  BY <3>1, <4>2
    <3>3. Replayed(c, after)[i] = Replayed(c, before)[i]
      BY <3>1, <3>2 DEF Replayed
    <3> QED  BY <2>2, <3>3 DEF ApplyPatch, Replayed
  <2> QED  BY <2>1, <2>2
<1> QED  BY <1>1 DEF Replayed, ApplyPatch

--------------------------------------------------------------------------------
\* What every write does: a new revision, its patch remembered and unsent, and the rows
\* changed by that patch.
Wrote(w, p) ==
  /\ Free(w)
  /\ p.rev = revision + 1
  /\ revision' = revision + 1 /\ revision' <= MaxRevision
  /\ history' = Remembered(p)
  /\ unsent' = [unsent EXCEPT ![w] = p]
  /\ past' = Append(past, Contents')
  /\ Contents' = ApplyPatch(Contents, p)
  /\ rows' \in Seq(Row)
  /\ index' \in [Ids -> 0 .. Len(rows')]
  /\ IndexAgrees'
  /\ UNCHANGED <<poisoned, query, sub>>

\* Lemma: the contents of a plane are a version for every identity.
LEMMA ContentsType == TypeOK => Contents \in [Ids -> Nat]
<1> SUFFICES ASSUME TypeOK, NEW i \in Ids, index[i] # 0
             PROVE  rows[index[i]].ver \in Nat
  BY DEF Contents
<1>1. Len(rows) \in Nat /\ index[i] \in 1 .. Len(rows)
  BY DEF TypeOK
<1>2. rows[index[i]] \in Row
  BY <1>1 DEF TypeOK
<1>3. rows[index[i]].ver \in 1 .. MaxRevision
  BY <1>2 DEF Row
<1> QED  BY <1>3, MemAssumption

\* Lemma: an upsert of a row that is there is a write.
LEMMA UpsertPresentWrites ==
  ASSUME TypeOK, IndexAgrees, NEW w \in Writer, NEW id \in Ids, UpsertPresent(w, id)
  PROVE  \E p \in Patch : Wrote(w, p)
<1> DEFINE i == index[id]
           ver == revision + 1
           p == [id |-> id, ver |-> ver, rev |-> revision + 1]
<1>1. /\ Len(rows) \in Nat /\ i \in 1 .. Len(rows) /\ revision \in Nat
      /\ ver \in 1 .. MaxRevision /\ revision < MaxRevision /\ MaxRevision \in Nat
  BY MemAssumption DEF TypeOK, UpsertPresent, Record
<1>2. rows[i] \in Row /\ rows[i].id = id
  BY <1>1 DEF TypeOK, IndexAgrees
<1>3. p \in Patch
  BY <1>1 DEF Patch
<1>4. [rows[i] EXCEPT !.ver = ver] \in Row
  BY <1>1, <1>2 DEF Row
<1>5. /\ rows' \in Seq(Row) /\ Len(rows') = Len(rows)
      /\ rows'[i].ver = ver
      /\ \A k \in 1 .. Len(rows) : rows'[k].id = rows[k].id
      /\ \A k \in 1 .. Len(rows) : k # i => rows'[k] = rows[k]
  <2>1. rows' = [rows EXCEPT ![i] = [rows[i] EXCEPT !.ver = ver]]
    BY DEF UpsertPresent
  <2>2. rows' \in Seq(Row) /\ Len(rows') = Len(rows)
    BY <1>1, <1>4, <2>1 DEF TypeOK
  <2>3. rows'[i] = [rows[i] EXCEPT !.ver = ver] /\ \A k \in 1 .. Len(rows) : k # i => rows'[k] = rows[k]
    BY <1>1, <2>1 DEF TypeOK
  <2>4. rows'[i].ver = ver /\ rows'[i].id = rows[i].id
    BY <1>2, <2>3 DEF Row
  <2> QED  BY <2>2, <2>3, <2>4
<1>6. index' = index
  BY DEF UpsertPresent
<1>7. IndexAgrees'
  <2>1. \A k \in DOMAIN rows' : index'[rows'[k].id] = k
    BY <1>5, <1>6 DEF IndexAgrees, TypeOK
  <2>2. \A j \in Ids : index'[j] # 0 => rows'[index'[j]].id = j
    BY <1>1, <1>5, <1>6 DEF IndexAgrees, TypeOK
  <2> QED  BY <2>1, <2>2 DEF IndexAgrees
<1>8. Contents' = ApplyPatch(Contents, p)
  <2>1. ASSUME NEW j \in Ids
        PROVE  Contents'[j] = ApplyPatch(Contents, p)[j]
    <3>1. CASE j = id
      BY <1>1, <1>5, <1>6, <3>1 DEF Contents, ApplyPatch
    <3>2. CASE j # id
      <4>1. index[j] # i
        BY <1>1, <1>2, <3>2 DEF IndexAgrees
      <4>2. index[j] # 0 => rows'[index[j]] = rows[index[j]]
        BY <1>5, <4>1 DEF TypeOK
      <4> QED  BY <1>6, <3>2, <4>2 DEF Contents, ApplyPatch
    <3> QED  BY <3>1, <3>2
  <2> QED  BY <2>1 DEF Contents, ApplyPatch
<1>9. Wrote(w, p)
  BY <1>1, <1>5, <1>6, <1>7, <1>8 DEF Wrote, UpsertPresent, Record, TypeOK
<1> QED  BY <1>3, <1>9

\* Lemma: an upsert of a new row is a write.
LEMMA UpsertNewWrites ==
  ASSUME TypeOK, IndexAgrees, NEW w \in Writer, NEW id \in Ids, UpsertNew(w, id)
  PROVE  \E p \in Patch : Wrote(w, p)
<1> DEFINE ver == revision + 1
           p == [id |-> id, ver |-> ver, rev |-> revision + 1]
           row == [id |-> id, ver |-> ver]
           n == Len(rows)
<1>1. /\ n \in Nat /\ index[id] = 0 /\ revision \in Nat
      /\ ver \in 1 .. MaxRevision /\ revision < MaxRevision /\ MaxRevision \in Nat
  BY MemAssumption DEF TypeOK, UpsertNew, Record
<1>2. p \in Patch /\ row \in Row
  BY <1>1 DEF Patch, Row
<1>3. /\ rows' \in Seq(Row) /\ Len(rows') = n + 1
      /\ rows'[n + 1] = row
      /\ \A k \in 1 .. n : rows'[k] = rows[k]
  BY <1>1, <1>2 DEF UpsertNew, TypeOK
<1>4. /\ index' \in [Ids -> 0 .. n + 1]
      /\ index'[id] = n + 1
      /\ \A j \in Ids : j # id => index'[j] = index[j] /\ index[j] \in 0 .. n
  BY <1>1 DEF UpsertNew, TypeOK
<1>5. \A k \in 1 .. n : rows[k].id \in Ids /\ rows[k].id # id
  <2>1. ASSUME NEW k \in 1 .. n
        PROVE  rows[k].id \in Ids /\ rows[k].id # id
    <3>1. rows[k] \in Row /\ index[rows[k].id] = k
      BY DEF TypeOK, IndexAgrees
    <3> QED  BY <1>1, <3>1 DEF Row
  <2> QED  BY <2>1
<1>6. IndexAgrees'
  <2>1. ASSUME NEW k \in 1 .. n + 1
        PROVE  index'[rows'[k].id] = k
    <3>1. CASE k = n + 1
      BY <1>3, <1>4, <3>1
    <3>2. CASE k # n + 1
      <4>1. k \in 1 .. n
        BY <1>1, <3>2
      <4>2. index[rows[k].id] = k
        BY <4>1 DEF IndexAgrees, TypeOK
      <4> QED  BY <1>3, <1>4, <1>5, <4>1, <4>2
    <3> QED  BY <3>1, <3>2
  <2>2. ASSUME NEW j \in Ids, index'[j] # 0
        PROVE  rows'[index'[j]].id = j
    <3>1. CASE j = id
      BY <1>3, <1>4, <3>1
    <3>2. CASE j # id
      <4>1. index'[j] = index[j] /\ index[j] \in 1 .. n
        BY <1>1, <1>4, <2>2, <3>2
      <4> QED  BY <1>3, <4>1 DEF IndexAgrees
    <3> QED  BY <3>1, <3>2
  <2>3. DOMAIN rows' = 1 .. n + 1
    BY <1>3
  <2> QED  BY <2>1, <2>2, <2>3 DEF IndexAgrees
<1>7. Contents' = ApplyPatch(Contents, p)
  <2>1. ASSUME NEW j \in Ids
        PROVE  Contents'[j] = ApplyPatch(Contents, p)[j]
    <3>1. CASE j = id
      <4>1. index'[j] # 0 /\ rows'[index'[j]] = row
        BY <1>1, <1>3, <1>4, <3>1
      <4> QED  BY <3>1, <4>1 DEF Contents, ApplyPatch
    <3>2. CASE j # id
      <4>1. index'[j] = index[j] /\ (index[j] # 0 => rows'[index[j]] = rows[index[j]])
        BY <1>1, <1>3, <1>4, <3>2
      <4> QED  BY <3>2, <4>1 DEF Contents, ApplyPatch
    <3> QED  BY <3>1, <3>2
  <2> QED  BY <2>1 DEF Contents, ApplyPatch
<1>8. Wrote(w, p)
  <2>1. index' \in [Ids -> 0 .. Len(rows')] /\ revision + 1 <= MaxRevision
    BY <1>1, <1>3, <1>4
  <2> QED  BY <1>3, <1>6, <1>7, <2>1 DEF Wrote, UpsertNew, Record
<1> QED  BY <1>2, <1>8

\* Lemma: removing a row that is there is a write, and the index follows the row that
\* takes its place.
LEMMA RemoveRowWrites ==
  ASSUME TypeOK, IndexAgrees, NEW w \in Writer, NEW id \in Ids, RemoveRow(w, id)
  PROVE  \E p \in Patch : Wrote(w, p)
<1> DEFINE p == [id |-> id, ver |-> 0, rev |-> revision + 1]
           n == Len(rows)
           i == index[id]
<1>1. /\ n \in Nat /\ i \in 1 .. n /\ revision \in Nat
      /\ revision + 1 \in 1 .. MaxRevision /\ revision < MaxRevision /\ MaxRevision \in Nat
  BY MemAssumption DEF TypeOK, RemoveRow, Record
<1>2. p \in Patch
  BY <1>1 DEF Patch
<1>3. \A k \in 1 .. n : rows[k] \in Row /\ rows[k].id \in Ids /\ index[rows[k].id] = k
  <2>1. \A k \in 1 .. n : rows[k] \in Row /\ index[rows[k].id] = k
    BY DEF TypeOK, IndexAgrees
  <2> QED  BY <2>1 DEF Row
<1>4. \A j \in Ids : index[j] \in 0 .. n /\ (index[j] # 0 => rows[index[j]].id = j)
  BY DEF TypeOK, IndexAgrees
<1>5. /\ rows' \in Seq(Row) /\ Len(rows') = n - 1 /\ DOMAIN rows' = 1 .. n - 1
      /\ \A k \in 1 .. n - 1 : rows'[k] = IF k = i THEN rows[n] ELSE rows[k]
  <2>1. rows' = [k \in 1 .. n - 1 |-> IF k = i THEN rows[n] ELSE rows[k]]
    BY DEF RemoveRow, SwapRemoved
  <2>2. n - 1 \in Nat /\ \A k \in 1 .. n - 1 : (IF k = i THEN rows[n] ELSE rows[k]) \in Row
    BY <1>1, <1>3
  <2>3. rows' \in [1 .. n - 1 -> Row]
    BY <2>1, <2>2
  <2>4. rows' \in Seq(Row) /\ Len(rows') = n - 1
    BY <2>2, <2>3, SeqDef, LenProperties
  <2> QED  BY <2>1, <2>4
<1>6. \A j \in Ids : index'[j] = IF j = id THEN 0 ELSE IF index[j] = n THEN i ELSE index[j]
  BY DEF RemoveRow, Reindexed
<1>7. \A j \in Ids : j # id => index[j] # i
  BY <1>1, <1>4
<1>8. \A j \in Ids : index'[j] \in 0 .. n - 1
  <2>1. ASSUME NEW j \in Ids
        PROVE  index'[j] \in 0 .. n - 1
    <3>1. CASE j = id
      BY <1>1, <1>6, <3>1
    <3>2. CASE j # id /\ index[j] = n
      BY <1>1, <1>6, <1>7, <3>2
    <3>3. CASE j # id /\ index[j] # n
      BY <1>1, <1>4, <1>6, <3>3
    <3> QED  BY <3>1, <3>2, <3>3
  <2> QED  BY <2>1
<1>9. IndexAgrees'
  <2>1. ASSUME NEW k \in 1 .. n - 1
        PROVE  index'[rows'[k].id] = k
    <3>1. CASE k = i
      <4>1. rows'[k] = rows[n] /\ rows[n].id \in Ids /\ index[rows[n].id] = n /\ n # i
        BY <1>1, <1>3, <1>5, <3>1
      <4>2. rows[n].id # id
        BY <4>1
      <4> QED  BY <1>6, <3>1, <4>1, <4>2
    <3>2. CASE k # i
      <4>1. k \in 1 .. n /\ k # n /\ rows'[k] = rows[k]
        BY <1>1, <1>5, <3>2
      <4>2. rows[k].id \in Ids /\ index[rows[k].id] = k
        BY <1>3, <4>1
      <4> QED  BY <1>6, <3>2, <4>1, <4>2
    <3> QED  BY <3>1, <3>2
  <2>2. ASSUME NEW j \in Ids, index'[j] # 0
        PROVE  rows'[index'[j]].id = j
    <3>1. j # id
      BY <1>6, <2>2
    <3>2. CASE index[j] = n
      <4>1. index'[j] = i /\ i \in 1 .. n - 1
        BY <1>6, <1>8, <2>2, <3>1, <3>2
      <4> QED  BY <1>1, <1>4, <1>5, <3>2, <4>1
    <3>3. CASE index[j] # n
      <4>1. index'[j] = index[j] /\ index[j] \in 1 .. n - 1 /\ index[j] # i
        BY <1>6, <1>7, <1>8, <2>2, <3>1, <3>3
      <4> QED  BY <1>4, <1>5, <4>1
    <3> QED  BY <3>2, <3>3
  <2> QED  BY <1>5, <2>1, <2>2 DEF IndexAgrees
<1>10. Contents' = ApplyPatch(Contents, p)
  <2>1. ASSUME NEW j \in Ids
        PROVE  Contents'[j] = ApplyPatch(Contents, p)[j]
    <3>1. CASE j = id
      BY <1>6, <3>1 DEF Contents, ApplyPatch
    <3>2. CASE j # id /\ index[j] = n
      <4>1. index'[j] = i /\ i # 0 /\ i \in 1 .. n - 1 /\ n # 0
        BY <1>1, <1>6, <1>7, <3>2
      <4>2. rows'[i] = rows[n]
        BY <1>5, <4>1
      <4> QED  BY <3>2, <4>1, <4>2 DEF Contents, ApplyPatch
    <3>3. CASE j # id /\ index[j] # n
      <4>1. index'[j] = index[j] /\ index[j] # i
        BY <1>6, <1>7, <3>3
      <4>2. index[j] # 0 => rows'[index[j]] = rows[index[j]]
        BY <1>5, <1>8, <4>1
      <4> QED  BY <3>3, <4>1, <4>2 DEF Contents, ApplyPatch
    <3> QED  BY <3>1, <3>2, <3>3
  <2> QED  BY <2>1 DEF Contents, ApplyPatch
<1>11. Wrote(w, p)
  <2>1. index' \in [Ids -> 0 .. Len(rows')]
    BY <1>5, <1>8 DEF RemoveRow, Reindexed
  <2> QED  BY <1>1, <1>5, <1>9, <1>10, <2>1 DEF Wrote, RemoveRow, Record
<1> QED  BY <1>2, <1>11

\* Lemma: a history that remembers one more patch ends with it, and what else it has are
\* the patches that came before, oldest dropped first.
LEMMA RememberedFacts ==
  ASSUME NEW p \in Patch, history \in Seq(Patch), Len(history) <= HistoryCap
  PROVE  LET h == Remembered(p)
         IN /\ h \in Seq(Patch)
            /\ Len(h) <= HistoryCap
            /\ Len(h) \in Len(history) .. Len(history) + 1
            /\ \A k \in 1 .. Len(h), j \in 1 .. Len(history) :
                 j - k = Len(history) + 1 - Len(h) => h[k] = history[j]
            /\ Len(h) # 0 => h[Len(h)] = p
<1> DEFINE longer == Append(history, p)
           n == Len(history)
<1>1. n \in Nat /\ HistoryCap \in Nat /\ n <= HistoryCap
  BY MemAssumption
<1>2. /\ longer \in Seq(Patch) /\ Len(longer) = n + 1 /\ longer[n + 1] = p
      /\ \A k \in 1 .. n : longer[k] = history[k]
  BY <1>1
<1>3. CASE n + 1 > HistoryCap
  <2>1. Remembered(p) = Tail(longer)
    BY <1>2, <1>3 DEF Remembered
  <2> HIDE DEF longer
  <2>2. longer # <<>>
    BY <1>1, <1>2
  <2>3. /\ Tail(longer) \in Seq(Patch) /\ Len(Tail(longer)) = n
        /\ \A k \in 1 .. n : Tail(longer)[k] = longer[k + 1]
    BY <1>1, <1>2, <2>2, HeadTailProperties
  <2>4. ASSUME NEW k \in 1 .. n, NEW j \in 1 .. n, j - k = n + 1 - n
        PROVE  Tail(longer)[k] = history[j]
    <3>1. j = k + 1
      BY <1>1, <2>4
    <3> QED  BY <1>2, <2>3, <3>1
  <2>5. n # 0 => Tail(longer)[n] = p
    BY <1>1, <1>2, <2>3
  <2>6. n <= HistoryCap /\ n \in n .. n + 1
    BY <1>1
  <2> QED  BY ONLY <2>1, <2>3, <2>4, <2>5, <2>6
<1>4. CASE ~ (n + 1 > HistoryCap)
  <2>1. Remembered(p) = longer
    BY <1>2, <1>4 DEF Remembered
  <2> HIDE DEF longer
  <2>2. ASSUME NEW k \in 1 .. n + 1, NEW j \in 1 .. n, j - k = n + 1 - (n + 1)
        PROVE  longer[k] = history[j]
    <3>1. j = k
      BY <1>1, <2>2
    <3> QED  BY <1>2, <3>1
  <2>3. n + 1 <= HistoryCap /\ n + 1 \in n .. n + 1
    BY <1>1, <1>4
  <2> QED  BY ONLY <1>2, <2>1, <2>2, <2>3
<1> QED  BY <1>3, <1>4

\* Lemma: the history stays numbered by the revisions.
LEMMA WriteKeepsNumbers ==
  ASSUME TypeOK, Numbered(history, revision), NEW w \in Writer, NEW p \in Patch, Wrote(w, p)
  PROVE  Numbered(history', revision')
<1> DEFINE m == Len(history')
           n == Len(history)
<1>1. /\ history \in Seq(Patch) /\ n \in Nat /\ n <= HistoryCap /\ revision \in Nat /\ n <= revision
      /\ \A k \in 1 .. n : history[k].rev = revision - n + k
  BY DEF TypeOK, Numbered
<1>2. /\ history' \in Seq(Patch) /\ m \in n .. n + 1
      /\ \A k \in 1 .. m, j \in 1 .. n : j - k = n + 1 - m => history'[k] = history[j]
      /\ m # 0 => history'[m] = p
  BY <1>1, RememberedFacts DEF Wrote
<1>3. revision' = revision + 1 /\ p.rev = revision + 1
  BY DEF Wrote
<1> HIDE DEF m, n
<1>4. ASSUME NEW k \in 1 .. m
      PROVE  history'[k].rev = revision' - m + k
  <2>1. CASE k = m
    BY <1>1, <1>2, <1>3, <2>1
  <2>2. CASE k # m
    <3> DEFINE j == k + (n + 1 - m)
    <3>1. j \in 1 .. n /\ j - k = n + 1 - m
      BY <1>1, <1>2, <2>2
    <3>2. history'[k].rev = revision - n + j
      BY <1>1, <1>2, <3>1
    <3> QED  BY <1>1, <1>2, <1>3, <3>2
  <2> QED  BY <2>1, <2>2
<1>5. m <= revision'
  BY <1>1, <1>2, <1>3
<1> QED  BY <1>4, <1>5 DEF Numbered, m

\* Lemma: replaying no patches gives what the consumer held.
LEMMA ReplayNothing ==
  ASSUME NEW c \in [Ids -> Nat], NEW patches, DOMAIN patches = {}
  PROVE  Replayed(c, patches) = c
BY DEF Replayed

\* Lemma: what a consumer rebuilds is a version for every identity.
LEMMA ReplayedType ==
  ASSUME NEW c \in [Ids -> Nat], NEW patches \in Seq(Patch)
  PROVE  Replayed(c, patches) \in [Ids -> Nat]
<1> SUFFICES ASSUME NEW i \in Ids
             PROVE  Replayed(c, patches)[i] \in Nat
  BY DEF Replayed
<1> DEFINE A == {k \in DOMAIN patches : patches[k].id = i}
<1>1. A \in SUBSET (1 .. Len(patches)) /\ Len(patches) \in Nat
  OBVIOUS
<1>2. Replayed(c, patches)[i] = IF A = {} THEN c[i] ELSE patches[Max(A)].ver
  BY DEF Replayed
<1> HIDE DEF A
<1>3. A # {} => patches[Max(A)] \in Patch
  <2>1. A # {} => Max(A) \in 1 .. Len(patches)
    BY ONLY <1>1, MaxInSet
  <2> QED  BY <2>1
<1>4. A # {} => patches[Max(A)].ver \in 0 .. MaxRevision
  BY <1>3 DEF Patch
<1> QED  BY <1>2, <1>4, MemAssumption

\* Lemma: the contents after every revision are a step of one patch, so what replayed to
\* the old contents replays, with the new patch, to the new.
LEMMA WriteKeepsReplays ==
  ASSUME TypeOK, Shapes, Numbered(history, revision), HistoryReplays,
         NEW w \in Writer, NEW p \in Patch, Wrote(w, p)
  PROVE  HistoryReplays'
<1> DEFINE m == Len(history')
           n == Len(history)
<1>1. /\ history \in Seq(Patch) /\ n \in Nat /\ n <= HistoryCap /\ revision \in Nat
      /\ past \in Seq([Ids -> Nat]) /\ Len(past) = revision + 1
  BY DEF TypeOK, Shapes
<1>2. /\ history' \in Seq(Patch) /\ m \in n .. n + 1
      /\ \A k \in 1 .. m, j \in 1 .. n : j - k = n + 1 - m => history'[k] = history[j]
      /\ m # 0 => history'[m] = p
  BY <1>1, RememberedFacts DEF Wrote
<1>3. revision' = revision + 1 /\ revision' \in Nat
  BY <1>1 DEF Wrote
<1>4. Numbered(history', revision')
  BY WriteKeepsNumbers
<1>5. Contents \in [Ids -> Nat] /\ Contents' \in [Ids -> Nat]
  <2>1. Contents \in [Ids -> Nat]
    BY ContentsType
  <2>2. p.ver \in Nat
    BY MemAssumption DEF Patch
  <2>3. Contents' = ApplyPatch(Contents, p)
    BY DEF Wrote
  <2> QED  BY <2>1, <2>2, <2>3 DEF ApplyPatch
<1>6. /\ past'[revision' + 1] = Contents'
      /\ \A r \in 0 .. revision : past'[r + 1] = past[r + 1] /\ past[r + 1] \in [Ids -> Nat]
  <2>1. past' = Append(past, Contents')
    BY DEF Wrote
  <2> QED  BY <1>1, <1>3, <1>5, <2>1
<1>7. m <= revision'
  BY <1>4 DEF Numbered
<1> HIDE DEF m, n
<1>8. ASSUME NEW r \in (revision' - m) .. revision'
      PROVE  Replayed(past'[r + 1], NewerIn(history', r)) = Contents'
  <2>1. r \in 0 .. revision'
    BY <1>2, <1>3, <1>7, <1>8
  <2>2. /\ NewerIn(history', r) \in Seq(Patch)
        /\ Len(NewerIn(history', r)) = revision' - r
        /\ \A k \in 1 .. revision' - r, j \in 1 .. m :
             j - k = m - (revision' - r) => NewerIn(history', r)[k] = history'[j]
    <3>1. r >= revision' - m
      BY <1>2, <1>3, <1>8
    <3> QED  BY <1>2, <1>3, <1>4, <2>1, <3>1, NewerFacts DEF m
  <2>3. CASE r = revision'
    <3>1. DOMAIN NewerIn(history', r) = {}
      BY <1>3, <2>2, <2>3
    <3> QED  BY <1>5, <1>6, <2>3, <3>1, ReplayNothing
  <2>4. CASE r # revision'
    <3> DEFINE d == revision - r
    <3>1. r \in 0 .. revision /\ r >= revision - n /\ d \in Nat /\ revision' - r = d + 1 /\ d + 1 <= m
      BY <1>1, <1>2, <1>3, <1>8, <2>1, <2>4
    <3>2. /\ NewerIn(history, r) \in Seq(Patch)
          /\ Len(NewerIn(history, r)) = d
          /\ \A k \in 1 .. d, j \in 1 .. n :
               j - k = n - d => NewerIn(history, r)[k] = history[j]
      BY <1>1, <3>1, NewerFacts DEF n
    <3>3. Replayed(past[r + 1], NewerIn(history, r)) = Contents
      <4>1. r \in (revision - n) .. revision
        BY <1>1, <3>1
      <4> QED  BY <4>1 DEF HistoryReplays, Newer, NewerIn, n
    <3> HIDE DEF d
    <3>4. ASSUME NEW k \in 1 .. d
          PROVE  NewerIn(history', r)[k] = NewerIn(history, r)[k]
      <4> DEFINE i == k + (n - d)
                 j == k + (m - (d + 1))
      <4>1. i \in 1 .. n /\ i - k = n - d /\ j \in 1 .. m /\ j - k = m - (d + 1)
            /\ i - j = n + 1 - m /\ k \in 1 .. d + 1
        BY <1>1, <1>2, <1>8, <2>4, <3>1 DEF d
      <4> HIDE DEF i, j
      <4>2. NewerIn(history', r)[k] = history'[j] /\ NewerIn(history, r)[k] = history[i]
        BY <2>2, <3>1, <3>2, <4>1
      <4> QED  BY <1>2, <4>1, <4>2
    <3>5. NewerIn(history', r)[d + 1] = p
      <4>1. d + 1 \in 1 .. d + 1 /\ m \in 1 .. m /\ m - (d + 1) = m - (d + 1) /\ m # 0
        BY <1>1, <1>2, <3>1
      <4> QED  BY <1>2, <2>2, <3>1, <4>1
    <3>6. DOMAIN NewerIn(history', r) = 1 .. d + 1 /\ DOMAIN NewerIn(history, r) = 1 .. d
      BY <2>2, <3>1, <3>2
    <3>7. Replayed(past[r + 1], NewerIn(history', r))
            = ApplyPatch(Replayed(past[r + 1], NewerIn(history, r)), p)
      BY <1>6, <3>1, <3>4, <3>5, <3>6, ReplayOneMore
    <3> QED  BY <1>6, <3>1, <3>3, <3>7 DEF Wrote
  <2> QED  BY <2>3, <2>4
<1> QED  BY <1>8 DEF HistoryReplays, Newer, NewerIn, m

--------------------------------------------------------------------------------
LEMMA InitInv == Init => PlaneInv
<1> SUFFICES ASSUME Init PROVE PlaneInv
  OBVIOUS
<1> USE MemAssumption
<1>1. /\ rows = <<>> /\ history = <<>> /\ revision = 0
      /\ index = [i \in Ids |-> 0] /\ past = << [i \in Ids |-> 0] >>
  BY DEF Init
<1>2. TypeOK
  <2>1. rows \in Seq(Row) /\ Len(rows) = 0 /\ history \in Seq(Patch) /\ Len(history) = 0
    BY <1>1
  <2>2. index \in [Ids -> 0 .. Len(rows)] /\ revision \in 0 .. MaxRevision /\ Len(past) = revision + 1
    BY <1>1, <2>1
  <2>3. unsent \in [Writer -> Patch \union {NoPatch}] /\ poisoned \in BOOLEAN
    BY DEF Init
  <2>4. /\ \A r \in Reader : query[r].phase \in {"none", "sort", "clone", "page", "panic"}
        /\ \A s \in Subscriber : sub[s].phase \in {"none", "copied", "live", "gone"}
    BY DEF Init, NoQuery, NoSub
  <2> QED  BY <2>1, <2>2, <2>3, <2>4 DEF TypeOK
<1>3. IndexAgrees
  BY <1>1 DEF IndexAgrees
<1>4. Shapes
  <2>1. past \in Seq([Ids -> Nat])
    BY <1>1
  <2>2. DOMAIN query = Reader /\ sub \in [Subscriber -> Subscription \union {NoSub}]
    BY DEF Init
  <2>3. \A s \in Subscriber : sub[s] \in Subscription => sub[s].from <= revision
    BY DEF Init, NoSub, Subscription
  <2> QED  BY <2>1, <2>2, <2>3 DEF Shapes
<1>5. Numbered(history, revision)
  BY <1>1 DEF Numbered
<1>6. HistoryReplays
  <2>1. Contents = [i \in Ids |-> 0]
    BY <1>1 DEF Contents
  <2>2. NewerIn(history, 0) \in Seq(Patch) /\ Len(NewerIn(history, 0)) = 0
    <3>1. /\ history \in Seq(Patch) /\ revision \in Nat /\ 0 \in 0 .. revision
          /\ 0 >= revision - Len(history) /\ revision - 0 = 0
      BY <1>1
    <3>2. /\ NewerIn(history, 0) \in Seq(Patch)
          /\ 0 >= revision - Len(history) => Len(NewerIn(history, 0)) = revision - 0
      BY ONLY <1>5, <3>1, NewerFacts
    <3> QED  BY <3>1, <3>2
  <2>3. Replayed(past[1], NewerIn(history, 0)) = past[1]
    <3>1. DOMAIN NewerIn(history, 0) = {} /\ past[1] \in [Ids -> Nat]
      BY <1>1, <2>2
    <3> QED  BY <3>1, ReplayNothing
  <2>4. \A r \in (revision - Len(history)) .. revision : r = 0
    BY <1>1
  <2> QED  BY <1>1, <2>1, <2>3, <2>4 DEF HistoryReplays, Newer, NewerIn
<1>7. QueryInv /\ PageExactWhenCurrent
  BY DEF Init, QueryInv, PageExactWhenCurrent, NoQuery
<1> QED  BY <1>2, <1>3, <1>4, <1>5, <1>6, <1>7 DEF PlaneInv

\* Lemma: a write outdates every query under way and every page.
LEMMA WriteKeeps ==
  ASSUME PlaneInv, NEW w \in Writer, NEW p \in Patch, Wrote(w, p)
  PROVE  PlaneInv'
<1> USE MemAssumption
<1>1. TypeOK /\ IndexAgrees /\ Shapes /\ Numbered(history, revision) /\ HistoryReplays
  BY DEF PlaneInv
<1>2. /\ revision \in Nat /\ revision' = revision + 1 /\ revision' \in 0 .. MaxRevision
      /\ query' = query /\ sub' = sub /\ poisoned' = poisoned
  BY <1>1 DEF TypeOK, Wrote
<1>3. Contents' \in [Ids -> Nat]
  <2>1. p.ver \in Nat /\ Contents \in [Ids -> Nat] /\ Contents' = ApplyPatch(Contents, p)
    BY <1>1, ContentsType DEF Patch, Wrote
  <2> QED  BY <2>1 DEF ApplyPatch
<1>4. past' \in Seq([Ids -> Nat]) /\ Len(past') = revision' + 1
  <2>1. past \in Seq([Ids -> Nat]) /\ Len(past) = revision + 1 /\ past' = Append(past, Contents')
    BY <1>1 DEF Shapes, TypeOK, Wrote
  <2> QED  BY <1>2, <1>3, <2>1
<1>5. TypeOK'
  <2>1. history' \in Seq(Patch) /\ Len(history') <= HistoryCap
    BY <1>1, RememberedFacts DEF TypeOK, Wrote
  <2>2. unsent' \in [Writer -> Patch \union {NoPatch}]
    BY <1>1 DEF TypeOK, Wrote
  <2>3. rows' \in Seq(Row) /\ index' \in [Ids -> 0 .. Len(rows')]
    BY DEF Wrote
  <2> QED  BY <1>1, <1>2, <1>4, <2>1, <2>2, <2>3 DEF TypeOK
<1>6. Shapes'
  <2>1. \A s \in Subscriber : sub[s] \in Subscription => sub[s].from \in Nat
    BY DEF Subscription
  <2> QED  BY <1>1, <1>2, <1>4, <2>1 DEF Shapes
<1>7. QueryInv' /\ PageExactWhenCurrent'
  <2>1. \A r \in Reader : query[r].phase \in {"sort", "clone", "page"} =>
          /\ query[r].rev \in Nat /\ query[r].rev <= revision'
          /\ query[r].rev # revision'
    BY <1>2 DEF PlaneInv, QueryInv
  <2> QED  BY <1>2, <2>1 DEF QueryInv, PageExactWhenCurrent
<1>8. Numbered(history', revision') /\ HistoryReplays'
  BY <1>1, WriteKeepsNumbers, WriteKeepsReplays
<1>9. IndexAgrees'
  BY DEF Wrote
<1> QED  BY <1>5, <1>6, <1>7, <1>8, <1>9 DEF PlaneInv

\* Lemma: a step that leaves the rows and the history alone has only its own variables to
\* answer for.
LEMMA RestKeeps ==
  ASSUME PlaneInv, UNCHANGED <<rows, index, revision, history, past>>,
         poisoned' \in BOOLEAN,
         unsent' \in [Writer -> Patch \union {NoPatch}],
         DOMAIN query' = Reader,
         \A r \in Reader : query'[r].phase \in {"none", "sort", "clone", "page", "panic"},
         sub' \in [Subscriber -> Subscription \union {NoSub}],
         \A s \in Subscriber : sub'[s] \in Subscription => sub'[s].from <= revision,
         QueryInv', PageExactWhenCurrent'
  PROVE  PlaneInv'
<1>1. TypeOK'
  <2>1. \A s \in Subscriber : sub'[s].phase \in {"none", "copied", "live", "gone"}
    BY DEF Subscription, NoSub
  <2> QED  BY <2>1 DEF PlaneInv, TypeOK
<1>2. IndexAgrees' /\ Numbered(history', revision')
  BY DEF PlaneInv, IndexAgrees
<1>3. HistoryReplays'
  BY DEF PlaneInv, HistoryReplays, Contents, Newer
<1>4. Shapes'
  BY DEF PlaneInv, Shapes
<1> QED  BY <1>1, <1>2, <1>3, <1>4 DEF PlaneInv

\* Lemma: the steps of a query keep the invariant, the page in particular.
LEMMA QueryKeeps ==
  ASSUME PlaneInv, NEW r \in Reader,
         \/ BeginQuery(r)
         \/ \E sorted \in BOOLEAN, shown \in SUBSET Ids, w \in Windows :
              SortRows(r, sorted, shown, w)
         \/ CloneRows(r) \/ ClonePanics(r)
  PROVE  PlaneInv'
<1>1. /\ UNCHANGED <<rows, index, revision, history, past, unsent, sub>>
      /\ poisoned \in BOOLEAN /\ poisoned' \in BOOLEAN
      /\ unsent \in [Writer -> Patch \union {NoPatch}]
      /\ sub \in [Subscriber -> Subscription \union {NoSub}]
      /\ \A s \in Subscriber : sub[s] \in Subscription => sub[s].from <= revision
      /\ revision \in Nat /\ DOMAIN query = Reader
      /\ \A x \in Reader : query[x].phase \in {"none", "sort", "clone", "page", "panic"}
  <2>1. UNCHANGED <<rows, index, revision, history, past, unsent, sub>>
    BY DEF BeginQuery, SortRows, CloneRows, ClonePanics, store
  <2>2. poisoned' = poisoned \/ poisoned' = TRUE
    BY DEF BeginQuery, SortRows, CloneRows, ClonePanics, store
  <2>3. poisoned \in BOOLEAN /\ revision \in Nat /\ unsent \in [Writer -> Patch \union {NoPatch}]
    BY MemAssumption DEF PlaneInv, TypeOK
  <2>4. \A x \in Reader : query[x].phase \in {"none", "sort", "clone", "page", "panic"}
    BY DEF PlaneInv, TypeOK
  <2>5. /\ sub \in [Subscriber -> Subscription \union {NoSub}] /\ DOMAIN query = Reader
        /\ \A s \in Subscriber : sub[s] \in Subscription => sub[s].from <= revision
    BY DEF PlaneInv, Shapes
  <2> QED  BY <2>1, <2>2, <2>3, <2>4, <2>5
<1>2. QueryInv /\ PageExactWhenCurrent
  BY DEF PlaneInv
<1>3. SUFFICES ASSUME NEW next, query' = [query EXCEPT ![r] = next],
                      next.phase \in {"sort", "clone", "page", "panic"},
                      next.phase \in {"sort", "clone", "page"} =>
                        next.rev \in Nat /\ next.rev <= revision,
                      next.phase \in {"clone", "page"} /\ next.rev = revision =>
                        LET match == Matching(rows, next.asked[1], next.asked[2])
                            picks == WindowOf(match, next.asked[3])
                        IN /\ next.total = Len(match)
                           /\ next.phase = "clone" => next.picks = picks
                           /\ next.phase = "page" =>
                                next.page = [k \in DOMAIN picks |-> rows[picks[k]]]
               PROVE  PlaneInv'
  <2>1. CASE BeginQuery(r)
    <3> DEFINE next == [phase |-> "sort", rev |-> revision]
    <3>1. query' = [query EXCEPT ![r] = next]
      BY <2>1 DEF BeginQuery
    <3>2. next.phase = "sort" /\ next.rev \in Nat /\ next.rev <= revision
      BY <1>1
    <3> HIDE DEF next
    <3> QED  BY <1>3, <3>1, <3>2
  <2>2. ASSUME NEW sorted \in BOOLEAN, NEW shown \in SUBSET Ids, NEW w \in Windows,
               SortRows(r, sorted, shown, w)
        PROVE  PlaneInv'
    <3> DEFINE order == Matching(rows, sorted, shown)
               next == [phase |-> "clone", rev |-> query[r].rev, total |-> Len(order),
                        picks |-> WindowOf(order, w), asked |-> <<sorted, shown, w>>]
    <3>1. query' = [query EXCEPT ![r] = next]
      BY <2>2 DEF SortRows
    <3>2. next.phase = "clone" /\ next.rev \in Nat /\ next.rev <= revision
      BY <1>2, <2>2 DEF SortRows, QueryInv
    <3>3. /\ next.asked[1] = sorted /\ next.asked[2] = shown /\ next.asked[3] = w
          /\ next.total = Len(order) /\ next.picks = WindowOf(order, w)
      OBVIOUS
    <3> HIDE DEF next
    <3> QED  BY <1>3, <3>1, <3>2, <3>3
  <2>3. CASE CloneRows(r)
    <3> DEFINE next == [phase |-> "page", rev |-> query[r].rev, total |-> query[r].total,
                        page  |-> [k \in DOMAIN query[r].picks |-> rows[query[r].picks[k]]],
                        asked |-> query[r].asked]
    <3>1. query' = [query EXCEPT ![r] = next]
      BY <2>3 DEF CloneRows
    <3>2. next.phase = "page" /\ next.rev \in Nat /\ next.rev <= revision
      BY <1>2, <2>3 DEF CloneRows, QueryInv
    <3>3. /\ next.rev = query[r].rev /\ next.asked = query[r].asked
          /\ next.total = query[r].total
          /\ next.page = [k \in DOMAIN query[r].picks |-> rows[query[r].picks[k]]]
      OBVIOUS
    <3>4. query[r].rev = revision =>
            LET match == Matching(rows, query[r].asked[1], query[r].asked[2])
            IN /\ query[r].total = Len(match)
               /\ query[r].picks = WindowOf(match, query[r].asked[3])
      BY <1>2, <2>3 DEF CloneRows, QueryInv
    <3> HIDE DEF next
    <3> QED  BY <1>3, <3>1, <3>2, <3>3, <3>4
  <2>4. CASE ClonePanics(r)
    <3> DEFINE next == [phase |-> "panic"]
    <3>1. query' = [query EXCEPT ![r] = next]
      BY <2>4 DEF ClonePanics
    <3>2. next.phase = "panic"
      OBVIOUS
    <3> HIDE DEF next
    <3> QED  BY <1>3, <3>1, <3>2
  <2> QED  BY <2>1, <2>2, <2>3, <2>4
<1>4. /\ DOMAIN query' = Reader /\ query'[r] = next
      /\ \A x \in Reader : x # r => query'[x] = query[x]
  BY <1>1, <1>3
<1>5. \A x \in Reader : query'[x].phase \in {"none", "sort", "clone", "page", "panic"}
  BY <1>1, <1>3, <1>4
<1>6. QueryInv'
  BY <1>1, <1>2, <1>3, <1>4 DEF QueryInv
<1>7. PageExactWhenCurrent'
  BY <1>1, <1>2, <1>3, <1>4 DEF PageExactWhenCurrent
<1> QED  BY <1>1, <1>4, <1>5, <1>6, <1>7, RestKeeps

\* Lemma: a subscription only ever has patches the plane recorded.
LEMMA SubscriptionKeeps ==
  ASSUME PlaneInv, UNCHANGED <<store, query>>,
         unsent' \in [Writer -> Patch \union {NoPatch}],
         sub' \in [Subscriber -> Subscription \union {NoSub}],
         \A s \in Subscriber : sub'[s] \in Subscription => sub'[s].from <= revision
  PROVE  PlaneInv'
<1>1. /\ UNCHANGED <<rows, index, revision, history, past, poisoned, query>>
      /\ poisoned \in BOOLEAN /\ DOMAIN query = Reader
      /\ \A x \in Reader : query[x].phase \in {"none", "sort", "clone", "page", "panic"}
      /\ QueryInv /\ PageExactWhenCurrent
  BY DEF store, PlaneInv, TypeOK, Shapes
<1>2. QueryInv' /\ PageExactWhenCurrent'
  BY <1>1 DEF QueryInv, PageExactWhenCurrent
<1> QED  BY <1>1, <1>2, RestKeeps

\* Lemma: what each step of a subscription writes.
LEMMA SubscriptionFacts ==
  ASSUME PlaneInv
  PROVE  /\ \A w \in Writer : Broadcast(w) =>
              /\ UNCHANGED <<store, query>>
              /\ unsent[w] \in Patch
              /\ unsent' = [unsent EXCEPT ![w] = NoPatch]
              /\ unsent' \in [Writer -> Patch \union {NoPatch}]
              /\ sub' \in [Subscriber -> Subscription \union {NoSub}]
              /\ \A s \in Subscriber :
                   /\ sub'[s].phase = sub[s].phase
                   /\ sub'[s] \in Subscription => sub[s] \in Subscription
                   /\ sub[s] \in Subscription =>
                        /\ sub'[s].from = sub[s].from /\ sub'[s].complete = sub[s].complete
                        /\ sub[s].phase = "copied" => sub'[s].raced
                        /\ sub[s].phase = "live" =>
                             /\ sub'[s].raced = sub[s].raced
                             /\ sub'[s].patches = Append(sub[s].patches, unsent[w])
         /\ \A x \in Subscriber, from \in 0 .. revision : CopyHistory(x, from) =>
              /\ UNCHANGED <<store, unsent, query>>
              /\ sub' \in [Subscriber -> Subscription \union {NoSub}]
              /\ sub'[x].from = from /\ sub'[x].patches = Newer(from)
              /\ sub'[x].complete = (from + Len(history) >= revision)
              /\ \A s \in Subscriber : s # x => sub'[s] = sub[s]
         /\ \A x \in Subscriber : Attach(x) \/ Leave(x) =>
              /\ UNCHANGED <<store, unsent, query>>
              /\ sub[x] \in Subscription /\ sub[x].phase \in {"copied", "live"}
              /\ \A s \in Subscriber : s # x => sub'[s] = sub[s]
              /\ sub' \in [Subscriber -> Subscription \union {NoSub}]
              /\ sub'[x].from = sub[x].from /\ sub'[x].patches = sub[x].patches
              /\ sub'[x].raced = sub[x].raced /\ sub'[x].complete = sub[x].complete
<1>1. /\ sub \in [Subscriber -> Subscription \union {NoSub}]
      /\ unsent \in [Writer -> Patch \union {NoPatch}]
      /\ history \in Seq(Patch) /\ revision \in Nat /\ Numbered(history, revision)
  BY MemAssumption DEF PlaneInv, TypeOK, Shapes
<1>2. ASSUME NEW w \in Writer, Broadcast(w)
      PROVE  /\ UNCHANGED <<store, query>>
             /\ unsent[w] \in Patch
             /\ unsent' = [unsent EXCEPT ![w] = NoPatch]
             /\ unsent' \in [Writer -> Patch \union {NoPatch}]
             /\ sub' \in [Subscriber -> Subscription \union {NoSub}]
             /\ \A s \in Subscriber :
                  /\ sub'[s].phase = sub[s].phase
                  /\ sub'[s] \in Subscription => sub[s] \in Subscription
                  /\ sub[s] \in Subscription =>
                       /\ sub'[s].from = sub[s].from /\ sub'[s].complete = sub[s].complete
                       /\ sub[s].phase = "copied" => sub'[s].raced
                       /\ sub[s].phase = "live" =>
                            /\ sub'[s].raced = sub[s].raced
                            /\ sub'[s].patches = Append(sub[s].patches, unsent[w])
  <2>1. unsent[w] \in Patch
    BY <1>1, <1>2 DEF Broadcast
  <2>2. /\ UNCHANGED <<store, query>> /\ unsent' = [unsent EXCEPT ![w] = NoPatch]
        /\ unsent' \in [Writer -> Patch \union {NoPatch}]
    BY <1>1, <1>2 DEF Broadcast
  <2> DEFINE sent(s) == CASE sub[s].phase = "live" -> [sub[s] EXCEPT !.patches = Append(@, unsent[w])]
                          [] sub[s].phase = "copied" -> [sub[s] EXCEPT !.raced = TRUE]
                          [] OTHER -> sub[s]
  <2>3. sub' = [s \in Subscriber |-> sent(s)]
    BY <1>2 DEF Broadcast
  <2>4. ASSUME NEW s \in Subscriber, sub[s] \in Subscription
        PROVE  /\ sent(s) \in Subscription
               /\ sent(s).phase = sub[s].phase
               /\ sent(s).from = sub[s].from /\ sent(s).complete = sub[s].complete
               /\ sub[s].phase = "copied" => sent(s).raced
               /\ sub[s].phase = "live" =>
                    /\ sent(s).raced = sub[s].raced
                    /\ sent(s).patches = Append(sub[s].patches, unsent[w])
    <3>1. CASE sub[s].phase = "live"
      <4>1. sent(s) = [sub[s] EXCEPT !.patches = Append(sub[s].patches, unsent[w])]
        BY <3>1
      <4>2. Append(sub[s].patches, unsent[w]) \in Seq(Patch)
        BY <2>1, <2>4 DEF Subscription
      <4> HIDE DEF sent
      <4> QED  BY <2>4, <3>1, <4>1, <4>2 DEF Subscription
    <3>2. CASE sub[s].phase = "copied"
      <4>1. sent(s) = [sub[s] EXCEPT !.raced = TRUE]
        BY <3>2
      <4> HIDE DEF sent
      <4> QED  BY <2>4, <3>2, <4>1 DEF Subscription
    <3>3. CASE sub[s].phase \notin {"live", "copied"}
      <4>1. sent(s) = sub[s]
        BY <3>3
      <4> HIDE DEF sent
      <4> QED  BY <2>4, <3>3, <4>1
    <3> QED  BY <3>1, <3>2, <3>3
  <2>5. ASSUME NEW s \in Subscriber, sub[s] = NoSub
        PROVE  sent(s) = NoSub
    BY <2>5 DEF NoSub
  <2>6. NoSub \notin Subscription
    BY DEF NoSub, Subscription
  <2> HIDE DEF sent
  <2>7. \A s \in Subscriber : sub[s] \in Subscription \/ sub[s] = NoSub
    BY <1>1
  <2>8. sub' \in [Subscriber -> Subscription \union {NoSub}]
    BY <2>3, <2>4, <2>5, <2>7
  <2>9. \A s \in Subscriber : sub'[s] = sent(s)
    BY <2>3
  <2> QED  BY <2>1, <2>2, <2>4, <2>5, <2>6, <2>7, <2>8, <2>9
<1>3. ASSUME NEW x \in Subscriber, NEW from \in 0 .. revision, CopyHistory(x, from)
      PROVE  /\ UNCHANGED <<store, unsent, query>>
             /\ sub' \in [Subscriber -> Subscription \union {NoSub}]
             /\ sub'[x].from = from /\ sub'[x].patches = Newer(from)
             /\ sub'[x].complete = (from + Len(history) >= revision)
             /\ \A s \in Subscriber : s # x => sub'[s] = sub[s]
  <2> DEFINE complete == (from + Len(history) >= revision)
             copy == [phase |-> "copied", from |-> from, patches |-> Newer(from),
                      raced |-> FALSE, complete |-> complete]
  <2>1. sub' = [sub EXCEPT ![x] = copy] /\ UNCHANGED <<store, unsent, query>>
    BY <1>3 DEF CopyHistory
  <2>2. Newer(from) \in Seq(Patch)
    BY <1>1, NewerFacts DEF Newer, NewerIn
  <2>3. complete \in BOOLEAN
    OBVIOUS
  <2> HIDE DEF complete
  <2>4. copy \in Subscription
    BY <2>2, <2>3 DEF Subscription
  <2>5. copy.from = from /\ copy.patches = Newer(from) /\ copy.complete = complete
    OBVIOUS
  <2> HIDE DEF copy
  <2> QED  BY <1>1, <2>1, <2>4, <2>5 DEF complete
<1>4. ASSUME NEW x \in Subscriber, Attach(x) \/ Leave(x)
      PROVE  /\ UNCHANGED <<store, unsent, query>>
             /\ sub[x] \in Subscription /\ sub[x].phase \in {"copied", "live"}
             /\ \A s \in Subscriber : s # x => sub'[s] = sub[s]
             /\ sub' \in [Subscriber -> Subscription \union {NoSub}]
             /\ sub'[x].from = sub[x].from /\ sub'[x].patches = sub[x].patches
             /\ sub'[x].raced = sub[x].raced /\ sub'[x].complete = sub[x].complete
  <2>1. UNCHANGED <<store, unsent, query>> /\ sub[x].phase \in {"copied", "live"}
    BY <1>4 DEF Attach, Leave
  <2>2. sub[x] \in Subscription
    BY <1>1, <2>1 DEF NoSub
  <2>3. PICK phase \in {"live", "gone"} : sub' = [sub EXCEPT ![x].phase = phase]
    BY <1>4 DEF Attach, Leave
  <2>4. sub' = [sub EXCEPT ![x] = [sub[x] EXCEPT !.phase = phase]]
    BY <1>1, <2>3
  <2>5. [sub[x] EXCEPT !.phase = phase] \in Subscription
    BY <2>2 DEF Subscription
  <2> QED  BY <1>1, <2>1, <2>2, <2>3, <2>4, <2>5 DEF Subscription
<1> QED  BY <1>2, <1>3, <1>4

\* Lemma: every step keeps the invariant.
LEMMA Inductive == PlaneInv /\ [Next]_vars => PlaneInv'
<1> SUFFICES ASSUME PlaneInv, [Next]_vars PROVE PlaneInv'
  OBVIOUS
<1>1. TypeOK /\ IndexAgrees /\ Shapes
  BY DEF PlaneInv
<1>2. \A s \in Subscriber : sub[s] \in Subscription => sub[s].from <= revision
  BY <1>1 DEF Shapes
<1>3. ASSUME NEW w \in Writer, NEW id \in Ids,
             UpsertPresent(w, id) \/ UpsertNew(w, id) \/ RemoveRow(w, id)
      PROVE  PlaneInv'
  <2>1. PICK p \in Patch : Wrote(w, p)
    BY <1>1, <1>3, UpsertPresentWrites, UpsertNewWrites, RemoveRowWrites
  <2> QED  BY <2>1, WriteKeeps
<1>4. ASSUME NEW w \in Writer, Broadcast(w)
      PROVE  PlaneInv'
  <2>1. /\ UNCHANGED <<store, query>>
        /\ unsent' \in [Writer -> Patch \union {NoPatch}]
        /\ sub' \in [Subscriber -> Subscription \union {NoSub}]
        /\ \A s \in Subscriber : sub'[s] \in Subscription =>
             sub[s] \in Subscription /\ sub'[s].from = sub[s].from
    BY <1>4, SubscriptionFacts
  <2> QED  BY <1>2, <2>1, SubscriptionKeeps
<1>5. ASSUME NEW r \in Reader,
             \/ BeginQuery(r)
             \/ \E sorted \in BOOLEAN, shown \in SUBSET Ids, w \in Windows :
                  SortRows(r, sorted, shown, w)
             \/ CloneRows(r) \/ ClonePanics(r)
      PROVE  PlaneInv'
  BY <1>5, QueryKeeps
<1>6. ASSUME NEW x \in Subscriber, NEW from \in 0 .. revision, CopyHistory(x, from)
      PROVE  PlaneInv'
  <2>1. /\ UNCHANGED <<store, unsent, query>>
        /\ sub' \in [Subscriber -> Subscription \union {NoSub}]
        /\ sub'[x].from = from
        /\ \A s \in Subscriber : s # x => sub'[s] = sub[s]
    BY <1>6, SubscriptionFacts
  <2>2. unsent' \in [Writer -> Patch \union {NoPatch}]
    BY <1>1, <2>1 DEF TypeOK
  <2>3. \A s \in Subscriber : sub'[s] \in Subscription => sub'[s].from <= revision
    BY <1>2, <2>1
  <2> QED  BY <2>1, <2>2, <2>3, SubscriptionKeeps
<1>7. ASSUME NEW x \in Subscriber, Attach(x) \/ Leave(x)
      PROVE  PlaneInv'
  <2>1. /\ UNCHANGED <<store, unsent, query>>
        /\ sub' \in [Subscriber -> Subscription \union {NoSub}]
        /\ sub[x] \in Subscription /\ sub'[x].from = sub[x].from
        /\ \A s \in Subscriber : s # x => sub'[s] = sub[s]
    BY <1>7, SubscriptionFacts
  <2>2. unsent' \in [Writer -> Patch \union {NoPatch}]
    BY <1>1, <2>1 DEF TypeOK
  <2>3. \A s \in Subscriber : sub'[s] \in Subscription => sub'[s].from <= revision
    BY <1>2, <2>1
  <2> QED  BY <2>1, <2>2, <2>3, SubscriptionKeeps
<1>8. CASE UNCHANGED vars
  <2>1. UNCHANGED <<store, unsent, query, sub>>
    BY <1>8 DEF vars, store
  <2>2. /\ unsent' \in [Writer -> Patch \union {NoPatch}]
        /\ sub' \in [Subscriber -> Subscription \union {NoSub}]
    BY <1>1, <2>1 DEF TypeOK, Shapes
  <2> QED  BY <1>2, <2>1, <2>2, SubscriptionKeeps
<1> QED  BY <1>3, <1>4, <1>5, <1>6, <1>7, <1>8 DEF Next

LEMMA PlaneInvariant == Spec => []PlaneInv
BY InitInv, Inductive, PTL DEF Spec

\* Theorem: through any sequence of upserts, updates and swap-removes the index names every
\* row's position and nothing else, and the history stays bounded.
THEOREM PlaneAlwaysAgrees == Spec => []PlaneAgrees
<1>1. PlaneInv => PlaneAgrees
  BY DEF PlaneInv, PlaneAgrees
<1> QED  BY PlaneInvariant, <1>1, PTL

\* Theorem: as far back as the bounded history reaches, replaying it rebuilds the rows,
\* whatever number of threads wrote and whatever the bound.
THEOREM HistoryAlwaysReplays == Spec => []HistoryReplays
<1>1. PlaneInv => HistoryReplays
  BY DEF PlaneInv
<1> QED  BY PlaneInvariant, <1>1, PTL

\* Theorem: a page stamped with the current revision is the window asked for, though the
\* lock was let go between the sort and the clone.
THEOREM PagesExactWhenCurrent == Spec => []PageExactWhenCurrent
<1>1. PlaneInv => PageExactWhenCurrent
  BY DEF PlaneInv
<1> QED  BY PlaneInvariant, <1>1, PTL

--------------------------------------------------------------------------------
\* Lemma: no patch of the plane is the mark of none.
LEMMA PatchIsSome == NoPatch \notin Patch
BY DEF NoPatch, Patch

\* Lemma: with one writer, a write finds every subscriber that keeps up level with the
\* rows, and leaves it one patch behind.
LEMMA WriteKeepsSubscribers ==
  ASSUME OneWriter, PlaneInv, SubscriberInv, NEW w \in Writer, NEW p \in Patch, Wrote(w, p)
  PROVE  SubscriberInv'
<1>1. /\ Quiet /\ sub' = sub /\ unsent' = [unsent EXCEPT ![w] = p]
      /\ Contents' = ApplyPatch(Contents, p) /\ past' = Append(past, Contents')
  BY DEF Wrote, Free, Quiet, OneWriter
<1>2. /\ unsent \in [Writer -> Patch \union {NoPatch}] /\ Contents \in [Ids -> Nat]
      /\ past \in Seq([Ids -> Nat]) /\ Len(past) = revision + 1 /\ revision \in Nat
      /\ sub \in [Subscriber -> Subscription \union {NoSub}]
  BY MemAssumption, ContentsType DEF PlaneInv, TypeOK, Shapes
<1>3. /\ \A v \in Writer : unsent'[v] = p
      /\ ~ Quiet'
  <2>1. \A v \in Writer : unsent'[v] = p
    BY <1>1, <1>2 DEF OneWriter
  <2> QED  BY <2>1, PatchIsSome DEF Quiet
<1>4. Contents'[p.id] = p.ver
  BY <1>1, <1>2 DEF ApplyPatch, Patch
<1>5. ASSUME NEW s \in Subscriber, sub[s].phase \in {"copied", "live"}
      PROVE  Rebuilt(s)' = Rebuilt(s)
  <2>1. sub[s] \in Subscription /\ sub[s].from \in Nat /\ sub[s].from <= revision
    BY <1>2, <1>5 DEF NoSub, Subscription, PlaneInv, Shapes
  <2>2. past'[sub[s].from + 1] = past[sub[s].from + 1]
    BY <1>1, <1>2, <2>1
  <2> QED  BY <1>1, <2>2 DEF Rebuilt
<1>6. \A s \in Subscriber :
        (sub[s].phase \in {"copied", "live"} /\ sub[s].complete /\ ~sub[s].raced) =>
          ApplyPatch(Rebuilt(s), p) = Contents'
  BY <1>1 DEF SubscriberInv
<1> QED  BY <1>1, <1>3, <1>4, <1>5, <1>6 DEF SubscriberInv

\* Lemma: a broadcast brings the attached subscribers level again, and marks those that
\* had copied the history and not yet attached.
LEMMA BroadcastKeepsSubscribers ==
  ASSUME OneWriter, PlaneInv, SubscriberInv, NEW w \in Writer, Broadcast(w)
  PROVE  SubscriberInv'
<1>1. /\ UNCHANGED <<rows, index, revision, past>>
      /\ unsent[w] \in Patch /\ unsent' = [unsent EXCEPT ![w] = NoPatch]
      /\ unsent \in [Writer -> Patch \union {NoPatch}]
      /\ past \in Seq([Ids -> Nat]) /\ Len(past) = revision + 1 /\ revision \in Nat
      /\ sub \in [Subscriber -> Subscription \union {NoSub}]
  BY MemAssumption, SubscriptionFacts DEF PlaneInv, TypeOK, Shapes, store
<1>2. Contents' = Contents
  BY <1>1 DEF Contents
<1>3. \A v \in Writer : unsent'[v] = NoPatch
  BY <1>1 DEF OneWriter
<1>4. ASSUME NEW s \in Subscriber, sub'[s].phase \in {"copied", "live"},
             sub'[s].complete, ~sub'[s].raced
      PROVE  Rebuilt(s)' = Contents
  <2>1. sub'[s].phase = sub[s].phase /\ sub[s] \in Subscription
    <3>1. sub'[s].phase = sub[s].phase
      BY SubscriptionFacts
    <3> QED  BY <1>1, <1>4, <3>1 DEF NoSub
  <2>2. /\ sub[s].phase = "live" /\ sub[s].complete /\ ~sub[s].raced
        /\ sub'[s].from = sub[s].from
        /\ sub'[s].patches = Append(sub[s].patches, unsent[w])
    BY <1>4, <2>1, SubscriptionFacts
  <2>3. /\ sub[s].from \in Nat /\ sub[s].from <= revision /\ sub[s].patches \in Seq(Patch)
    BY <2>1 DEF Subscription, PlaneInv, Shapes
  <2> DEFINE c == past[sub[s].from + 1]
             before == sub[s].patches
             n == Len(before)
             after == Append(before, unsent[w])
  <2>4. c \in [Ids -> Nat]
    <3>1. sub[s].from + 1 \in 1 .. Len(past)
      BY <1>1, <2>3
    <3> HIDE DEF before, after, n
    <3> QED  BY <1>1, <3>1
  <2>5. /\ n \in Nat /\ DOMAIN before = 1 .. n /\ DOMAIN after = 1 .. n + 1
        /\ \A k \in 1 .. n : after[k] = before[k]
        /\ after[n + 1] = unsent[w]
    BY <1>1, <2>3
  <2>6. Rebuilt(s) = Replayed(c, before) /\ Rebuilt(s)' = Replayed(c, after)
    BY <1>1, <2>2 DEF Rebuilt
  <2> HIDE DEF c, before, after, n
  <2>7. Replayed(c, after) = ApplyPatch(Replayed(c, before), unsent[w])
    <3>1. unsent[w] \in Patch
      BY <1>1
    <3> QED  BY ONLY <2>4, <2>5, <3>1, ReplayOneMore
  <2>8. ApplyPatch(Rebuilt(s), unsent[w]) = Contents
    BY <1>1, <2>2, PatchIsSome DEF SubscriberInv
  <2> QED  BY <2>6, <2>7, <2>8
<1> QED  BY <1>2, <1>3, <1>4 DEF SubscriberInv

\* Lemma: a subscriber that copies the history has the rows as they are, the patch that is
\* recorded and not yet sent included: that one it will get twice.
LEMMA CopyKeepsSubscribers ==
  ASSUME PlaneInv, SubscriberInv,
         NEW x \in Subscriber, NEW from \in 0 .. revision, CopyHistory(x, from)
  PROVE  SubscriberInv'
<1>1. /\ UNCHANGED <<rows, index, revision, history, past, unsent>>
      /\ sub'[x].from = from /\ sub'[x].patches = Newer(from)
      /\ sub'[x].complete = (from + Len(history) >= revision)
      /\ \A s \in Subscriber : s # x => sub'[s] = sub[s]
  BY SubscriptionFacts DEF store
<1>2. Contents' = Contents /\ Quiet' = Quiet
  BY <1>1 DEF Contents, Quiet
<1>3. Contents \in [Ids -> Nat] /\ revision \in Nat /\ Len(history) \in Nat
  BY MemAssumption, ContentsType DEF PlaneInv, TypeOK
<1>4. sub'[x].complete => Rebuilt(x)' = Contents
  <2>1. ASSUME from + Len(history) >= revision
        PROVE  Replayed(past[from + 1], Newer(from)) = Contents
    <3>1. from \in (revision - Len(history)) .. revision
      BY <1>3, <2>1
    <3> QED  BY <3>1 DEF PlaneInv, HistoryReplays
  <2> QED  BY <1>1, <2>1 DEF Rebuilt
<1>5. ASSUME NEW w \in Writer, unsent[w] # NoPatch
      PROVE  ApplyPatch(Contents, unsent[w]) = Contents
  <2>1. Contents[unsent[w].id] = unsent[w].ver
    BY <1>5 DEF SubscriberInv
  <2> QED  BY <1>3, <2>1 DEF ApplyPatch
<1>6. \A s \in Subscriber : s # x => Rebuilt(s)' = Rebuilt(s)
  BY <1>1 DEF Rebuilt
<1> QED  BY <1>1, <1>2, <1>4, <1>5, <1>6 DEF SubscriberInv

\* Lemma: a step that touches neither the rows nor the patches changes nothing for them.
LEMMA OthersKeepSubscribers ==
  ASSUME SubscriberInv, UNCHANGED <<rows, index, past, unsent>>,
         \A s \in Subscriber :
           \/ sub'[s] = sub[s]
           \/ /\ sub[s].phase \in {"copied", "live"}
              /\ sub'[s].from = sub[s].from /\ sub'[s].patches = sub[s].patches
              /\ sub'[s].raced = sub[s].raced /\ sub'[s].complete = sub[s].complete
  PROVE  SubscriberInv'
<1>1. Contents' = Contents /\ Quiet' = Quiet
  BY DEF Contents, Quiet
<1>2. \A s \in Subscriber : Rebuilt(s)' = Rebuilt(s)
  BY DEF Rebuilt
<1> QED  BY <1>1, <1>2 DEF SubscriberInv

\* Lemma: with one writer, every step keeps the subscribers at most one patch behind.
LEMMA SubscribersInductive ==
  ASSUME OneWriter
  PROVE  PlaneInv /\ SubscriberInv /\ [Next]_vars => SubscriberInv'
<1> SUFFICES ASSUME PlaneInv, SubscriberInv, [Next]_vars PROVE SubscriberInv'
  OBVIOUS
<1>1. ASSUME NEW w \in Writer, NEW id \in Ids,
             UpsertPresent(w, id) \/ UpsertNew(w, id) \/ RemoveRow(w, id)
      PROVE  SubscriberInv'
  <2>1. TypeOK /\ IndexAgrees
    BY DEF PlaneInv
  <2>2. PICK p \in Patch : Wrote(w, p)
    BY <1>1, <2>1, UpsertPresentWrites, UpsertNewWrites, RemoveRowWrites
  <2> QED  BY <2>2, WriteKeepsSubscribers
<1>2. ASSUME NEW w \in Writer, Broadcast(w)
      PROVE  SubscriberInv'
  BY <1>2, BroadcastKeepsSubscribers
<1>3. ASSUME NEW r \in Reader,
             \/ BeginQuery(r)
             \/ \E sorted \in BOOLEAN, shown \in SUBSET Ids, w \in Windows :
                  SortRows(r, sorted, shown, w)
             \/ CloneRows(r) \/ ClonePanics(r)
      PROVE  SubscriberInv'
  <2>1. UNCHANGED <<rows, index, past, unsent, sub>>
    BY <1>3 DEF BeginQuery, SortRows, CloneRows, ClonePanics, store
  <2> QED  BY <2>1, OthersKeepSubscribers
<1>4. ASSUME NEW x \in Subscriber, NEW from \in 0 .. revision, CopyHistory(x, from)
      PROVE  SubscriberInv'
  BY <1>4, CopyKeepsSubscribers
<1>5. ASSUME NEW x \in Subscriber, Attach(x) \/ Leave(x)
      PROVE  SubscriberInv'
  <2>1. /\ UNCHANGED <<rows, index, past, unsent>>
        /\ sub[x].phase \in {"copied", "live"}
        /\ sub'[x].from = sub[x].from /\ sub'[x].patches = sub[x].patches
        /\ sub'[x].raced = sub[x].raced /\ sub'[x].complete = sub[x].complete
        /\ \A s \in Subscriber : s # x => sub'[s] = sub[s]
    BY <1>5, SubscriptionFacts DEF store
  <2> QED  BY <2>1, OthersKeepSubscribers
<1>6. CASE UNCHANGED vars
  <2>1. UNCHANGED <<rows, index, past, unsent, sub>>
    BY <1>6 DEF vars
  <2> QED  BY <2>1, OthersKeepSubscribers
<1> QED  BY <1>1, <1>2, <1>3, <1>4, <1>5, <1>6 DEF Next

\* Theorem: with one writer, a subscriber that held a revision the history reached back to,
\* and that no broadcast overtook between its copy and its attachment, rebuilds the rows
\* from its patches, some of which it got twice.
THEOREM SubscribersFollow ==
  ASSUME OneWriter
  PROVE  Spec => []SubscriberFollows
<1>1. Init => SubscriberInv
  BY DEF Init, SubscriberInv, NoSub
<1>2. PlaneInv /\ SubscriberInv /\ [Next]_vars => SubscriberInv'
  BY SubscribersInductive
<1>3. SubscriberInv => SubscriberFollows
  BY DEF SubscriberInv, SubscriberFollows, Rebuilt
<1> QED  BY PlaneInvariant, <1>1, <1>2, <1>3, PTL DEF Spec
================================================================================
