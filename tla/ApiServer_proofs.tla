---------------------------- MODULE ApiServer_proofs ----------------------------
(***************************************************************************)
(* Lemmas about ApiServer that the proofs of its clients rest on: the      *)
(* cluster's history only grows, one object at a time.                     *)
(***************************************************************************)
EXTENDS ApiServer, TLAPS

\* No object was last written after the revision that shows it.
VersionsBounded == \A r \in 1 .. Rev : \A o \in Object : etcd[r][o] <= r

ApiInv == ApiTypeOK /\ OneWritePerRevision /\ VersionsBounded

\* Lemma: the invariant holds of every initial collection.
LEMMA ApiInvInit == ApiInit => ApiInv
<1> SUFFICES ASSUME ApiInit PROVE ApiInv
  OBVIOUS
<1>1. PICK present \in SUBSET Object :
        etcd = << [o \in Object |-> IF o \in present THEN 1 ELSE Absent] >>
  BY DEF ApiInit
<1> DEFINE first == [o \in Object |-> IF o \in present THEN 1 ELSE Absent]
<1>2. first \in Collection /\ \A o \in Object : first[o] <= 1
  BY DEF Collection, Absent
<1> HIDE DEF first
<1>3. /\ etcd \in Seq(Collection)
      /\ Rev = 1
      /\ etcd[1] = first
  BY <1>1, <1>2 DEF Rev, first
<1>4. ApiTypeOK
  BY <1>3 DEF ApiTypeOK, ApiInit
<1> QED  BY <1>2, <1>3, <1>4 DEF ApiInv, OneWritePerRevision, VersionsBounded

\* Lemma: a write appends one revision that differs from the last at one object.
LEMMA CommitFacts ==
  ASSUME ApiInv, NEW o \in Object, NEW version \in 0 .. Rev + 1, version # Latest[o],
         Commit(o, version)
  PROVE  /\ ApiInv'
         /\ Rev' = Rev + 1
         /\ \A r \in 1 .. Rev : etcd'[r] = etcd[r]
<1> DEFINE new == [Latest EXCEPT ![o] = version]
<1>1. /\ etcd \in Seq(Collection)
      /\ Rev \in Nat /\ Rev >= 1
      /\ Latest \in Collection
  BY DEF ApiInv, ApiTypeOK, Rev, Latest
<1>2. new \in Collection /\ new[o] = version
  BY <1>1 DEF Collection
<1>3. /\ etcd' \in Seq(Collection)
      /\ Rev' = Rev + 1
      /\ etcd'[Rev + 1] = new
      /\ \A r \in 1 .. Rev : etcd'[r] = etcd[r]
  BY <1>1, <1>2 DEF Commit, Rev
<1>4. ApiTypeOK'
  BY <1>1, <1>3 DEF ApiInv, ApiTypeOK, Commit
<1>5. OneWritePerRevision'
  <2> SUFFICES ASSUME NEW r \in 2 .. Rev'
               PROVE  \E x \in Object :
                        /\ etcd'[r][x] # etcd'[r - 1][x]
                        /\ etcd'[r] = [etcd'[r - 1] EXCEPT ![x] = etcd'[r][x]]
    BY DEF OneWritePerRevision
  <2>1. CASE r = Rev + 1
    <3>1. etcd'[r - 1] = Latest
      BY <1>1, <1>3, <2>1 DEF Latest
    <3> QED  BY <1>2, <1>3, <2>1, <3>1
  <2>2. CASE r \in 2 .. Rev
    <3>1. etcd'[r] = etcd[r] /\ etcd'[r - 1] = etcd[r - 1]
      BY <1>1, <1>3, <2>2
    <3> QED  BY <2>2, <3>1 DEF ApiInv, OneWritePerRevision
  <2>3. r = Rev + 1 \/ r \in 2 .. Rev
    BY <1>1, <1>3
  <2> QED  BY <2>1, <2>2, <2>3
<1>6. VersionsBounded'
  <2> SUFFICES ASSUME NEW r \in 1 .. Rev', NEW x \in Object
               PROVE  etcd'[r][x] <= r
    BY DEF VersionsBounded
  <2>1. CASE r = Rev + 1
    <3>1. Latest[x] \in Nat /\ Latest[x] <= Rev
      BY <1>1 DEF ApiInv, VersionsBounded, Latest, Collection
    <3>2. etcd'[r][x] = (IF x = o THEN version ELSE Latest[x])
      BY <1>1, <1>3, <2>1 DEF Collection
    <3> QED  BY <1>1, <2>1, <3>1, <3>2
  <2>2. CASE r \in 1 .. Rev
    BY <1>3, <2>2 DEF ApiInv, VersionsBounded
  <2>3. r = Rev + 1 \/ r \in 1 .. Rev
    BY <1>1, <1>3
  <2> QED  BY <2>1, <2>2, <2>3
<1> QED  BY <1>3, <1>4, <1>5, <1>6 DEF ApiInv

\* Lemma: any step of the cluster keeps its invariant and every revision so far.
LEMMA ApiFacts ==
  ASSUME ApiInv, ApiNext
  PROVE  /\ ApiInv'
         /\ Rev' \in Nat /\ Rev' >= Rev
         /\ \A r \in 1 .. Rev : etcd'[r] = etcd[r]
<1>1. Rev \in Nat /\ Rev >= 1
  BY DEF ApiInv, ApiTypeOK, Rev
<1>2. \A o \in Object : Latest[o] \in Nat /\ Latest[o] <= Rev
  <2>1. Latest \in Collection
    BY <1>1 DEF ApiInv, ApiTypeOK, Latest, Rev
  <2> QED  BY <1>1, <2>1 DEF ApiInv, VersionsBounded, Latest, Collection
<1>3. ASSUME NEW o \in Object, Create(o) \/ Modify(o) \/ Delete(o)
      PROVE  \E version \in 0 .. Rev + 1 : version # Latest[o] /\ Commit(o, version)
  BY <1>1, <1>2, <1>3 DEF Create, Modify, Delete, Absent
<1>4. CASE Compact
  <2>1. etcd' = etcd /\ Rev' = Rev
    BY <1>4 DEF Compact, Rev
  <2>2. ApiTypeOK'
    BY <1>1, <1>4, <2>1 DEF Compact, ApiInv, ApiTypeOK
  <2>3. OneWritePerRevision' /\ VersionsBounded'
    BY <2>1 DEF ApiInv, OneWritePerRevision, VersionsBounded
  <2> QED  BY <1>1, <2>1, <2>2, <2>3 DEF ApiInv
<1>5. CASE ~Compact
  <2>1. PICK o \in Object, version \in 0 .. Rev + 1 : version # Latest[o] /\ Commit(o, version)
    BY <1>3, <1>5 DEF ApiNext
  <2> QED  BY <1>1, <2>1, CommitFacts
<1> QED  BY <1>4, <1>5

\* Lemma: the collection after a revision is the one before with the written object's entry.
LEMMA ChangedFacts ==
  ASSUME ApiInv, NEW r \in 2 .. Rev
  PROVE  /\ Changed(r) \in Object
         /\ etcd[r] = [etcd[r - 1] EXCEPT ![Changed(r)] = etcd[r][Changed(r)]]
<1>1. PICK o \in Object : /\ etcd[r][o] # etcd[r - 1][o]
                          /\ etcd[r] = [etcd[r - 1] EXCEPT ![o] = etcd[r][o]]
  BY DEF ApiInv, OneWritePerRevision
<1>2. etcd[r - 1] \in Collection
  BY DEF ApiInv, ApiTypeOK, Rev
<1>3. \A x \in Object : etcd[r][x] # etcd[r - 1][x] => x = o
  BY <1>1, <1>2 DEF Collection
<1>4. Changed(r) = o
  BY <1>1, <1>3 DEF Changed
<1> QED  BY <1>1, <1>4
================================================================================
