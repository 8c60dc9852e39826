---------------------------- MODULE WatchRing_proofs ----------------------------
(***************************************************************************)
(* Proofs about WatchRing, for any objects, capacities, limits and bounds: *)
(* types, what the ring holds, and what the stream's records say, each     *)
(* from one inductive invariant.                                           *)
(***************************************************************************)
EXTENDS WatchRing, ApiServer_proofs, SequenceTheorems

Filling == pc \in {"list", "baseline", "connect", "watch"}

\* RingIsRecent, record by record.
Recent ==
  /\ Len(ring) = IF Len(seen) <= capacity THEN Len(seen) ELSE capacity
  /\ \A i \in 1 .. Len(ring), j \in 1 .. Len(seen) :
       j - i = Len(seen) - Len(ring) => ring[i] = seen[j]

\* As long as more may be pushed, there is room for it within the limit; the one record
\* over a limit of 0 is the first.
Counted ==
  /\ pushed <= Larger(max, 1)
  /\ Filling => pushed = 0 \/ pushed < max

\* What a record says of the revision that sent it.
Tells(record, r) ==
  /\ record.object = Changed(r)
  /\ record.event = "Deleted" <=> etcd[r][record.object] = Absent

\* The last records are those of the revisions that the stream has sent.
Told ==
  pc = "watch" =>
    /\ rv <= cursor /\ cursor - rv <= Len(seen)
    /\ \A r \in 2 .. Rev, j \in 1 .. Len(seen) :
         rv < r /\ r - cursor = j - Len(seen) => Tells(seen[j], r)

RingInv ==
  /\ TypeOK
  /\ ApiInv
  /\ pc = "baseline" => rv >= 1
  /\ Recent
  /\ Counted
  /\ Told
--------------------------------------------------------------------------------
\* Lemma: what every proof below needs of the types, in a form the provers like.
LEMMA TypeFacts ==
  ASSUME RingInv
  PROVE  /\ Rev \in Nat /\ Rev >= 1
         /\ oldest \in 1 .. Rev
         /\ \A r \in 1 .. Rev : etcd[r] \in Collection
         /\ capacity \in Nat /\ capacity >= 1 /\ max \in Nat
         /\ ring \in Seq(Record) /\ seen \in Seq(Record)
         /\ pushed = Len(seen) /\ pushed \in Nat
         /\ rv \in 0 .. Rev /\ cursor \in 0 .. Rev
         /\ pc \in Pc
BY DEF RingInv, TypeOK, ApiTypeOK, Rev

\* Lemma: a push keeps the ring the recent end of what was pushed, whatever is pushed.
LEMMA PushFacts ==
  ASSUME RingInv, NEW record \in Record, Push(record), capacity' = capacity
  PROVE  /\ ring' \in Seq(Record) /\ seen' \in Seq(Record)
         /\ Len(seen') = Len(seen) + 1 /\ pushed' = Len(seen')
         /\ \A i \in 1 .. Len(seen) : seen'[i] = seen[i]
         /\ seen'[Len(seen) + 1] = record
         /\ Recent'
<1>1. /\ seen' \in Seq(Record)
      /\ Len(seen') = Len(seen) + 1
      /\ \A i \in 1 .. Len(seen) : seen'[i] = seen[i]
      /\ seen'[Len(seen) + 1] = record
  BY TypeFacts, AppendProperties DEF Push
<1>2. pushed' = Len(seen')
  BY <1>1, TypeFacts DEF Push
<1>3. CASE Len(ring) >= capacity
  <2>1. Len(ring) = capacity /\ Len(seen) >= capacity /\ ring # <<>>
    BY <1>3, TypeFacts DEF RingInv, Recent
  <2> DEFINE kept == Tail(ring)
  <2>2. /\ kept \in Seq(Record)
        /\ Len(kept) = capacity - 1
        /\ \A i \in 1 .. capacity - 1 : kept[i] = ring[i + 1]
    BY <2>1, TypeFacts, HeadTailProperties
  <2> HIDE DEF kept
  <2>3. ring' = Append(kept, record)
    BY <1>3 DEF Push, kept
  <2>4. /\ ring' \in Seq(Record)
        /\ Len(ring') = capacity
        /\ \A i \in 1 .. capacity - 1 : ring'[i] = kept[i]
        /\ ring'[capacity] = record
    BY <2>2, <2>3, TypeFacts, AppendProperties
  <2>5. ASSUME NEW i \in 1 .. capacity, NEW j \in 1 .. Len(seen) + 1,
               j - i = Len(seen) + 1 - capacity
        PROVE  ring'[i] = seen'[j]
    <3>1. CASE i = capacity
      <4>1. j = Len(seen) + 1
        BY <2>5, <3>1, TypeFacts
      <4> QED  BY <1>1, <2>4, <3>1, <4>1
    <3>2. CASE i \in 1 .. capacity - 1
      <4>1. i + 1 \in 1 .. Len(ring) /\ j \in 1 .. Len(seen) /\ j - (i + 1) = Len(seen) - Len(ring)
        BY <2>1, <2>5, <3>2, TypeFacts
      <4>2. ring[i + 1] = seen[j]
        BY <4>1 DEF RingInv, Recent
      <4> QED  BY <1>1, <2>2, <2>4, <3>2, <4>1, <4>2
    <3> QED  BY <3>1, <3>2, TypeFacts
  <2> QED  BY <1>1, <1>2, <2>1, <2>4, <2>5, TypeFacts DEF Recent
<1>4. CASE Len(ring) < capacity
  <2>1. Len(ring) = Len(seen) /\ Len(seen) + 1 <= capacity
    BY <1>4, TypeFacts DEF RingInv, Recent
  <2>2. ring' = Append(ring, record)
    BY <1>4, TypeFacts DEF Push
  <2>3. /\ ring' \in Seq(Record)
        /\ Len(ring') = Len(seen) + 1
        /\ \A i \in 1 .. Len(seen) : ring'[i] = ring[i]
        /\ ring'[Len(seen) + 1] = record
    BY <2>1, <2>2, TypeFacts, AppendProperties
  <2>4. \A i \in 1 .. Len(seen) : ring[i] = seen[i]
    BY <2>1, TypeFacts DEF RingInv, Recent
  <2>5. ASSUME NEW i \in 1 .. Len(seen) + 1
        PROVE  ring'[i] = seen'[i]
    <3>1. CASE i \in 1 .. Len(seen)
      BY ONLY <1>1, <2>3, <2>4, <3>1
    <3>2. CASE i = Len(seen) + 1
      BY ONLY <1>1, <2>3, <3>2
    <3> QED  BY <3>1, <3>2, TypeFacts
  <2>6. \A i \in 1 .. Len(ring'), j \in 1 .. Len(seen') :
          j - i = Len(seen') - Len(ring') => i = j
    BY <1>1, <2>3, TypeFacts
  <2> QED  BY <1>1, <1>2, <2>1, <2>3, <2>5, <2>6, TypeFacts DEF Recent
<1> QED  BY <1>3, <1>4, TypeFacts

\* Lemma: what a step keeps that pushes nothing and leaves the cluster alone.
LEMMA NothingPushed ==
  ASSUME RingInv, UNCHANGED <<api, call, ring, pushed, seen>>
  PROVE  /\ Recent' /\ ApiInv'
         /\ (Filling' => Filling) => Counted'
         /\ (pc' = "watch" => pc = "watch" /\ rv' = rv /\ cursor' = cursor) => Told'
<1>1. /\ UNCHANGED <<etcd, oldest, capacity, max, ring, pushed, seen>>
      /\ Rev' = Rev
  BY DEF api, call, Rev
<1>2. Recent'
  BY <1>1 DEF RingInv, Recent
<1>3. ApiInv'
  BY <1>1 DEF RingInv, ApiInv, ApiTypeOK, OneWritePerRevision, VersionsBounded
<1>4. ASSUME Filling' => Filling PROVE Counted'
  BY <1>1, <1>4 DEF RingInv, Counted
<1>5. ASSUME pc' = "watch" => pc = "watch" /\ rv' = rv /\ cursor' = cursor PROVE Told'
  <2>1. \A record, r : Tells(record, r)' <=> Tells(record, r)
    BY <1>1 DEF Tells, Changed
  <2> QED  BY <1>1, <1>5, <2>1 DEF RingInv, Told
<1> QED  BY <1>2, <1>3, <1>4, <1>5

\* Lemma: the event of a revision is a record, and tells what that revision did.
LEMMA EventFacts ==
  ASSUME ApiInv, NEW r \in 2 .. Rev
  PROVE  EventOf(r) \in Record /\ Tells(EventOf(r), r)
<1>1. Changed(r) \in Object
  BY ChangedFacts
<1>2. \E o \in Object : etcd[r][o] # etcd[r - 1][o]
  BY DEF ApiInv, OneWritePerRevision
<1>3. etcd[r][Changed(r)] # etcd[r - 1][Changed(r)]
  BY <1>2 DEF Changed
<1> QED  BY <1>1, <1>3 DEF EventOf, Observed, Record, Tells

\* Lemma: the ring that no call has filled satisfies the invariant.
LEMMA RingInvInit == Init => RingInv
<1> SUFFICES ASSUME Init PROVE RingInv
  OBVIOUS
<1>1. ApiInv /\ Rev \in Nat /\ Rev >= 1
  BY ApiInvInit DEF Init, ApiInv, ApiTypeOK, Rev
<1>2. capacity \in Nat \ {0} /\ max \in Nat
  BY RingAssumption DEF Init, Larger
<1>3. TypeOK
  BY <1>1, <1>2, RingAssumption DEF Init, TypeOK, ApiInv, Pc
<1> QED  BY <1>1, <1>2, <1>3 DEF Init, RingInv, Recent, Counted, Told, Larger

\* Lemma: every step keeps the invariant.
LEMMA RingInvStep == RingInv /\ [Next]_vars => RingInv'
<1> SUFFICES ASSUME RingInv, [Next]_vars PROVE RingInv'
  OBVIOUS
<1> USE TypeFacts
<1>1. CASE List
  <2>1. Latest \in Collection /\ Present(Latest) \subseteq Object
    BY DEF Latest, Present
  <2>2. TypeOK'
    BY <1>1, <2>1 DEF List, RingInv, TypeOK, ApiTypeOK, api, call, Pc, Rev
  <2>3. /\ UNCHANGED <<api, call, ring, pushed, seen>>
        /\ pc = "list" /\ pc' = "baseline" /\ rv' = Rev
    BY <1>1 DEF List
  <2>4. Filling
    BY <2>3 DEF Filling
  <2>5. rv' >= 1
    BY <2>3
  <2> QED  BY <2>2, <2>3, <2>4, <2>5, NothingPushed DEF RingInv
<1>2. CASE PushItem
  <2>1. PICK o \in items :
          /\ Push(Observed("Added", o))
          /\ items' = IF pushed + 1 >= max THEN {} ELSE items \ {o}
    BY <1>2 DEF PushItem
  <2>2. /\ UNCHANGED <<api, call, rv, cursor, quiet>>
        /\ pc = "baseline"
        /\ pc' = IF pushed + 1 >= max THEN "done" ELSE pc
    BY <1>2 DEF PushItem
  <2>3. Observed("Added", o) \in Record
    BY DEF RingInv, TypeOK, Observed, Record
  <2>4. /\ ring' \in Seq(Record) /\ seen' \in Seq(Record)
        /\ Len(seen') = pushed + 1 /\ pushed' = Len(seen')
        /\ Recent'
    BY <2>1, <2>2, <2>3, PushFacts DEF call
  <2>5. TypeOK'
    BY <2>1, <2>2, <2>4 DEF RingInv, TypeOK, ApiTypeOK, api, call, Pc, Rev
  <2>6. Counted'
    BY <2>2, <2>4 DEF RingInv, Counted, Filling, Larger, call
  <2>7. ApiInv' /\ Told' /\ (pc' = "baseline" => rv' >= 1)
    BY <2>2 DEF RingInv, ApiInv, ApiTypeOK, OneWritePerRevision, VersionsBounded, Told, api, Rev
  <2> QED  BY <2>4, <2>5, <2>6, <2>7 DEF RingInv
<1>3. CASE BaselineDone
  <2>1. TypeOK'
    BY <1>3 DEF BaselineDone, RingInv, TypeOK, ApiTypeOK, api, call, Pc, Rev
  <2>2. /\ UNCHANGED <<api, call, ring, pushed, rv, seen>>
        /\ pc = "baseline" /\ pc' \in {"done", "connect"} /\ cursor' = cursor
    BY <1>3 DEF BaselineDone
  <2>3. Filling
    BY <2>2 DEF Filling
  <2> QED  BY <2>1, <2>2, <2>3, NothingPushed DEF RingInv
<1>4. CASE Connect
  <2>1. TypeOK'
    BY <1>4 DEF Connect, RingInv, TypeOK, ApiTypeOK, api, call, Pc, Rev
  <2>2. Told'
    BY <1>4 DEF Connect, Told
  <2>3. /\ UNCHANGED <<api, call, ring, pushed, rv, seen>>
        /\ pc = "connect" /\ pc' = "watch"
    BY <1>4 DEF Connect
  <2>4. Filling
    BY <2>3 DEF Filling
  <2> QED  BY <2>1, <2>2, <2>3, <2>4, NothingPushed DEF RingInv
<1>5. CASE CallFails
  <2>1. TypeOK'
    BY <1>5 DEF CallFails, RingInv, TypeOK, ApiTypeOK, api, call, Pc, Rev
  <2>2. /\ UNCHANGED <<api, call, ring, pushed, rv, seen>>
        /\ pc' \notin {"list", "baseline", "connect", "watch"} /\ cursor' = cursor
    BY <1>5 DEF CallFails
  <2>3. ~ Filling'
    BY <2>2 DEF Filling
  <2> QED  BY <2>1, <2>2, <2>3, NothingPushed DEF RingInv
<1>6. CASE Deliver
  <2>1. /\ pc = "watch" /\ cursor < Rev /\ cursor >= oldest
        /\ Push(EventOf(cursor + 1))
        /\ cursor' = cursor + 1
        /\ pc' = Stops(pushed + 1)
        /\ UNCHANGED <<api, call, rv, items, quiet>>
    BY <1>6 DEF Deliver
  <2>2. cursor + 1 \in 2 .. Rev
    BY <2>1
  <2> DEFINE record == EventOf(cursor + 1)
  <2>3. record \in Record /\ Tells(record, cursor + 1)
    BY <2>2, EventFacts DEF RingInv
  <2> HIDE DEF record
  <2>4. /\ ring' \in Seq(Record) /\ seen' \in Seq(Record)
        /\ Len(seen') = Len(seen) + 1 /\ pushed' = Len(seen')
        /\ \A i \in 1 .. Len(seen) : seen'[i] = seen[i]
        /\ seen'[Len(seen) + 1] = record
        /\ Recent'
    BY <2>1, <2>3, PushFacts DEF call, record
  <2>5. TypeOK'
    BY <2>1, <2>2, <2>4 DEF RingInv, TypeOK, ApiTypeOK, api, call, Pc, Rev, Stops
  <2>6. Counted'
    BY <2>1, <2>4 DEF RingInv, Counted, Filling, Larger, Stops, call
  <2>7. Told'
    <3>1. etcd' = etcd /\ rv' = rv /\ Rev' = Rev
      BY <2>1 DEF api, Rev
    <3>2. rv <= cursor' /\ cursor' - rv <= Len(seen')
      BY <2>1, <2>4 DEF RingInv, Told
    <3>3. ASSUME NEW r \in 2 .. Rev, NEW j \in 1 .. Len(seen'),
                 rv < r, r - cursor' = j - Len(seen')
          PROVE  Tells(seen'[j], r)
      <4>1. CASE j = Len(seen) + 1
        <5>1. r = cursor + 1
          BY <2>1, <2>4, <3>3, <4>1
        <5> QED  BY <2>3, <2>4, <4>1, <5>1
      <4>2. CASE j \in 1 .. Len(seen)
        <5>1. r - cursor = j - Len(seen)
          <6>1. r - (cursor + 1) = j - (Len(seen) + 1) /\ r \in Int /\ j \in Int
            BY <2>1, <2>4, <3>3
          <6>2. cursor \in Int /\ Len(seen) \in Int
            OBVIOUS
          <6> QED  BY ONLY <6>1, <6>2
        <5>2. Tells(seen[j], r)
          BY <2>1, <3>3, <4>2, <5>1 DEF RingInv, Told
        <5> QED  BY <2>4, <4>2, <5>2
      <4> QED  BY <2>4, <4>1, <4>2
    <3>4. \A record_, r : Tells(record_, r)' <=> Tells(record_, r)
      BY <3>1 DEF Tells, Changed
    <3> QED  BY <3>1, <3>2, <3>3, <3>4 DEF Told
  <2>8. ApiInv' /\ (pc' = "baseline" => rv' >= 1)
    BY <2>1 DEF RingInv, ApiInv, ApiTypeOK, OneWritePerRevision, VersionsBounded, api, Rev, Stops
  <2> QED  BY <2>4, <2>5, <2>6, <2>7, <2>8 DEF RingInv
<1>7. CASE Quiet
  <2>1. TypeOK'
    <3>1. quiet' \in 0 .. MaxQuiet
      BY <1>7, RingAssumption DEF Quiet, RingInv, TypeOK
    <3> QED
      BY <1>7, <3>1 DEF Quiet, RingInv, TypeOK, ApiTypeOK, api, call, Pc, Rev, Stops
  <2>2. /\ UNCHANGED <<api, call, ring, pushed, rv, seen>>
        /\ pc = "watch" /\ pc' # "baseline" /\ cursor' = cursor
    BY <1>7 DEF Quiet, Stops
  <2>3. Filling
    BY <2>2 DEF Filling
  <2> QED  BY <2>1, <2>2, <2>3, NothingPushed DEF RingInv
<1>8. CASE StreamEnds
  <2>1. TypeOK'
    BY <1>8 DEF StreamEnds, RingInv, TypeOK, ApiTypeOK, api, call, Pc, Rev
  <2>2. /\ UNCHANGED <<api, call, ring, pushed, rv, seen>>
        /\ pc = "watch" /\ pc' = "done" /\ cursor' = cursor
    BY <1>8 DEF StreamEnds
  <2>3. Filling
    BY <2>2 DEF Filling
  <2> QED  BY <2>1, <2>2, <2>3, NothingPushed DEF RingInv
<1>9. CASE Cluster
  <2>1. /\ ApiInv'
        /\ Rev' \in Nat /\ Rev' >= Rev
        /\ \A r \in 1 .. Rev : etcd'[r] = etcd[r]
    BY <1>9, ApiFacts DEF RingInv, Cluster
  <2>2. UNCHANGED <<mode, capacity, max, ring, pushed, pc, rv, items, cursor, quiet, seen>>
    BY <1>9 DEF Cluster, call
  <2>3. TypeOK'
    BY <2>1, <2>2 DEF RingInv, TypeOK, ApiInv
  <2>4. Told'
    <3> SUFFICES ASSUME pc = "watch", NEW r \in 2 .. Rev', NEW j \in 1 .. Len(seen),
                        rv < r, r - cursor = j - Len(seen)
                 PROVE  Tells(seen[j], r)'
      BY <2>2 DEF RingInv, Told
    <3>1. r \in 2 .. Rev
      BY <2>1
    <3>2. etcd'[r] = etcd[r] /\ etcd'[r - 1] = etcd[r - 1]
      BY <2>1, <3>1
    <3>3. Tells(seen[j], r)
      BY <3>1 DEF RingInv, Told
    <3> QED  BY <2>2, <3>2, <3>3 DEF Tells, Changed
  <2> QED
    BY <2>1, <2>2, <2>3, <2>4 DEF RingInv, Recent, Counted, Filling
<1>10. CASE UNCHANGED vars
  <2>1. /\ UNCHANGED <<api, call, ring, pushed, rv, seen>>
        /\ pc' = pc /\ cursor' = cursor
    BY <1>10 DEF vars, api, call
  <2>2. TypeOK'
    BY <1>10 DEF vars, RingInv, TypeOK, ApiTypeOK, Rev
  <2>3. Filling' => Filling
    BY <2>1 DEF Filling
  <2> QED  BY <2>1, <2>2, <2>3, NothingPushed DEF RingInv
<1> QED
  BY <1>1, <1>2, <1>3, <1>4, <1>5, <1>6, <1>7, <1>8, <1>9, <1>10 DEF Next
--------------------------------------------------------------------------------
\* Lemma: the invariant holds of every behaviour.
LEMMA RingInvariant == Spec => []RingInv
BY RingInvInit, RingInvStep, PTL DEF Spec

\* Lemma: record by record, a recent ring is the end of what was pushed.
LEMMA RecentIsEnd == ASSUME RingInv PROVE RingIsRecent
<1> USE TypeFacts
<1> DEFINE from == Larger(Len(seen) - capacity, 0) + 1
<1> DEFINE last == Len(seen)
<1> DEFINE end == SubSeq(seen, from, last)
<1>1. /\ from \in Int /\ from >= 1 /\ last \in Nat /\ last = Len(seen)
      /\ from = IF last <= capacity THEN 1 ELSE last - capacity + 1
  BY DEF Larger
<1> HIDE DEF from, last
<1>2. \A i \in from .. last : seen[i] \in Record
  BY <1>1
<1>3. /\ end \in Seq(Record)
      /\ Len(end) = IF from <= last THEN last - from + 1 ELSE 0
      /\ \A i \in 1 .. last - from + 1 : end[i] = seen[from + i - 1]
  BY ONLY <1>1, <1>2, SubSeqProperties
<1> HIDE DEF end
<1>4. Len(ring) = last - from + 1 /\ Len(end) = Len(ring)
  BY <1>1, <1>3 DEF RingInv, Recent
<1>5. ASSUME NEW i \in 1 .. Len(ring) PROVE ring[i] = end[i]
  <2> DEFINE j == from + i - 1
  <2>1. i \in 1 .. last - from + 1
    BY <1>4
  <2>2. j \in 1 .. last /\ j - i = last - (last - from + 1)
    BY ONLY <1>1, <2>1
  <2>3. end[i] = seen[j]
    BY <1>3, <2>1
  <2> HIDE DEF j
  <2> QED  BY <1>1, <1>4, <2>2, <2>3 DEF RingInv, Recent
<1>6. ring = end
  BY <1>3, <1>4, <1>5, SeqEqual
<1> QED  BY <1>6 DEF RingIsRecent, from, last, end

\* Theorem: at any capacity and limit, the ring is the unbroken recent end of what was
\* recorded, all of it where there is room for what was asked (push, watch_into_ring).
THEOREM RingAlwaysWhole == Spec => []RingIsWhole
<1>1. ASSUME RingInv PROVE RingIsWhole
  <2> USE <1>1, TypeFacts
  <2>1. TypeOK /\ RingIsRecent
    BY RecentIsEnd DEF RingInv
  <2>2. ASSUME capacity >= Larger(max, 1) PROVE ring = seen
    <3>1. Len(ring) = Len(seen) /\ \A i \in 1 .. Len(ring) : ring[i] = seen[i]
      BY <2>2 DEF RingInv, Recent, Counted, Larger
    <3> QED  BY <3>1, SeqEqual
  <2> QED  BY <2>1, <2>2 DEF RingIsWhole, CallersLoseNothing
<1> QED  BY <1>1, RingInvariant, PTL

\* Theorem: what came over the stream is every change since the list, in order and once,
\* whatever happened between the list call and the watch call.
THEOREM RecordsAlwaysTheChanges == Spec => []RecordsAreTheChanges
<1>1. ASSUME RingInv PROVE RecordsAreTheChanges
  <2> USE <1>1, TypeFacts
  <2> SUFFICES ASSUME pc = "watch"
               PROVE  /\ cursor - rv <= Len(seen)
                      /\ \A k \in 1 .. (cursor - rv) : Tells(Streamed[k], rv + k)
    BY DEF RecordsAreTheChanges, Tells
  <2> DEFINE from == Len(seen) - (cursor - rv) + 1
  <2> DEFINE last == Len(seen)
  <2>1. /\ rv <= cursor /\ cursor - rv <= last /\ rv >= 1
        /\ from \in Int /\ from >= 1 /\ last \in Nat
        /\ last = Len(seen) /\ from = last - (cursor - rv) + 1
        /\ rv \in Int /\ cursor \in Int /\ cursor <= Rev /\ Rev \in Int
    BY DEF RingInv, Told, TypeOK
  <2>2. Streamed = SubSeq(seen, from, last)
    BY DEF Streamed
  <2> HIDE DEF from, last
  <2>3. \A i \in from .. last : seen[i] \in Record
    BY <2>1
  <2>4. \A k \in 1 .. last - from + 1 : Streamed[k] = seen[from + k - 1]
    BY ONLY <2>1, <2>2, <2>3, SubSeqProperties
  <2>5. ASSUME NEW k \in 1 .. (cursor - rv) PROVE Tells(Streamed[k], rv + k)
    <3> DEFINE j == from + k - 1
    <3> DEFINE r == rv + k
    <3>1. /\ k \in 1 .. last - from + 1
          /\ j \in 1 .. Len(seen) /\ r \in 2 .. Rev
          /\ rv < r /\ r - cursor = j - Len(seen)
      <4>1. k \in Int /\ 1 <= k /\ k <= cursor - rv
        BY <2>1
      <4> QED  BY ONLY <2>1, <4>1
    <3>2. Streamed[k] = seen[j]
      BY <2>4, <3>1
    <3> HIDE DEF j, r
    <3>3. Tells(seen[j], r)
      BY <3>1 DEF RingInv, Told
    <3> QED  BY <3>2, <3>3 DEF r
  <2> QED  BY <2>1, <2>5 DEF last
<1> QED  BY <1>1, RingInvariant, PTL
================================================================================
