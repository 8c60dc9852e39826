----------------------------- MODULE Session_proofs -----------------------------
(***************************************************************************)
(* Proofs about what runs inside one kaptein process, part by part: the    *)
(* informer manager; the view session that shares it among its watch       *)
(* tasks; the table of the TUI; the port-forwards beside it.  Each part    *)
(* has variables and an assumption of its own, and its proofs cite no      *)
(* other part's, but that the session rests on the manager.                *)
(***************************************************************************)
EXTENDS ViewSession, TuiTable, PortForward, FiniteSetTheorems, SequenceTheorems,
        WellFoundedInduction, TLAPS

(***************************************************************************)
(* The informer manager, for any watch targets, threads, policy and clock: *)
(* types, the hard cap, and what a registration may evict.                 *)
(***************************************************************************)
Table == [WatchKey -> Time \union {NotLive}]

\* Lemma: evicting keys from a table (evict_idle_locked, release) leaves a table that
\* holds exactly the other keys, at their old instants.
LEMMA WithoutFacts ==
  ASSUME NEW w \in Table, NEW S
  PROVE  /\ Without(w, S) \in Table
         /\ Live(Without(w, S)) = Live(w) \ S
         /\ \A k \in WatchKey \ S : Without(w, S)[k] = w[k]
BY DEF Table, Without, Live, NotLive, Time

\* Lemma: stamping a key (register, touch) adds at most that key to the live ones.
LEMMA StampFacts ==
  ASSUME NEW w \in Table, NEW k \in WatchKey, NEW t \in Time
  PROVE  /\ [w EXCEPT ![k] = t] \in Table
         /\ Live([w EXCEPT ![k] = t]) = Live(w) \union {k}
BY DEF Table, Live, NotLive, Time

\* Lemma: whatever `register` keeps in a full table is a table, it keeps only keys that
\* were live, at their instants, and it lost only the idle keys and one coldest other.
LEMMA MakeRoomFacts ==
  ASSUME NEW w \in Table, NEW t, NEW room \in MakeRoom(w, t)
  PROVE  /\ room \in Table
         /\ \/ Live(room) = Live(w) \ Expired(w, t) /\ (~Full(room) \/ Live(room) = {})
            \/ \E k \in Live(w) \ Expired(w, t) :
                 /\ Live(room) = (Live(w) \ Expired(w, t)) \ {k}
                 /\ \A j \in Live(w) \ Expired(w, t) : w[k] <= w[j]
         /\ \A j \in Live(room) : room[j] = w[j]
<1> DEFINE fresh == EvictIdleLocked(w, t)
<1>1. /\ fresh \in Table
      /\ Live(fresh) = Live(w) \ Expired(w, t)
      /\ \A j \in Live(fresh) : fresh[j] = w[j]
  BY WithoutFacts DEF EvictIdleLocked, Live
<1>2. CASE Full(fresh) /\ Live(fresh) # {}
  <2>1. PICK k \in Coldest(fresh) : room = Without(fresh, {k})
    BY <1>2 DEF MakeRoom
  <2>2. /\ k \in Live(fresh)
        /\ \A j \in Live(fresh) : fresh[k] <= fresh[j]
    BY DEF Coldest
  <2>3. /\ room \in Table
        /\ Live(room) = Live(fresh) \ {k}
        /\ \A j \in Live(room) : room[j] = fresh[j]
    BY <1>1, <2>1, WithoutFacts DEF Live
  <2> QED  BY <1>1, <2>2, <2>3
<1>3. CASE ~(Full(fresh) /\ Live(fresh) # {})
  <2>1. room = fresh
    BY <1>3 DEF MakeRoom
  <2> QED  BY <1>1, <1>3, <2>1
<1> QED  BY <1>2, <1>3
--------------------------------------------------------------------------------
\* Lemma: a thread inside a timed operation is in it with a key and a clock reading.
LEMMA CallFacts ==
  ASSUME TypeOK, NEW c \in Caller, call[c].op \in {"register", "touch"}
  PROVE  call[c].key \in WatchKey /\ call[c].at \in Time
BY DEF TypeOK, Timed, NoCall

\* Lemma: every step of every thread keeps the table a map from targets to instants and
\* the replies legal.
LEMMA TypeStep == ASSUME TypeOK, [Next]_vars PROVE TypeOK'
<1> USE DEF TypeOK, Reply
<1>1. CASE Tick
  BY <1>1, ManagerAssumption DEF Tick, Time, Timed
<1>2. ASSUME NEW c \in Caller, NEW op \in {"register", "touch"}, NEW k \in WatchKey,
             ReadClock(c, op, k)
      PROVE  TypeOK'
  BY <1>2 DEF ReadClock, Timed
<1>3. ASSUME NEW c \in Caller, RegisterLive(c)
      PROVE  TypeOK'
  <2>1. watches' \in Table
    BY <1>3, CallFacts, StampFacts DEF RegisterLive, Table
  <2> QED  BY <1>3, <2>1 DEF RegisterLive, Return, Table
<1>4. ASSUME NEW c \in Caller, RegisterNew(c)
      PROVE  TypeOK'
  <2>1. PICK room \in (IF Full(watches) THEN MakeRoom(watches, call[c].at) ELSE {watches}) :
          \/ watches' = room /\ Return(c, "denied")
          \/ /\ watches' = [room EXCEPT ![call[c].key] = call[c].at]
             /\ Return(c, "granted")
    BY <1>4 DEF RegisterNew
  <2>2. room \in Table
    BY MakeRoomFacts DEF Table
  <2>3. watches' \in Table
    BY <1>4, <2>1, <2>2, CallFacts, StampFacts DEF RegisterNew
  <2> QED  BY <1>4, <2>1, <2>3 DEF RegisterNew, Return, Table
<1>5. ASSUME NEW c \in Caller, Touch(c)
      PROVE  TypeOK'
  <2>1. watches' \in Table
    BY <1>5, CallFacts, StampFacts DEF Touch, Table
  <2> QED  BY <1>5, <2>1 DEF Touch, Return, Table
<1>6. ASSUME NEW c \in Caller, NEW k \in WatchKey, Release(c, k)
      PROVE  TypeOK'
  <2>1. watches' \in Table
    BY <1>6, WithoutFacts DEF Release, Table
  <2> QED  BY <1>6, <2>1 DEF Release, Return, Table
<1>7. ASSUME NEW c \in Caller, NEW t \in Time, EvictIdle(c, t)
      PROVE  TypeOK'
  <2>1. watches' \in Table
    BY <1>7, WithoutFacts DEF EvictIdle, EvictIdleLocked, Table
  <2> QED  BY <1>7, <2>1 DEF EvictIdle, Return, Table
<1>8. CASE UNCHANGED vars
  BY <1>8 DEF vars
<1> QED  BY <1>1, <1>2, <1>3, <1>4, <1>5, <1>6, <1>7, <1>8 DEF Next

\* Lemma: the manager starts with an empty table and no thread in a call.
LEMMA TypeInit == Init => TypeOK
BY ManagerAssumption DEF Init, TypeOK, Time, NotLive, NoCall, Reply

\* Type correctness of the manager: the table is always a map from targets to instants.
THEOREM TypeCorrect == Spec => []TypeOK
BY TypeInit, TypeStep, PTL DEF Spec
--------------------------------------------------------------------------------
\* Lemma: a table's live keys are finitely many, and so are those of any part of them.
LEMMA LiveFinite ==
  ASSUME NEW w, NEW S \in SUBSET Live(w)
  PROVE  /\ IsFiniteSet(S)
         /\ Cardinality(S) \in Nat
         /\ Cardinality(S) <= Cardinality(Live(w))
         /\ Cardinality(Live(w)) \in Nat
<1>1. IsFiniteSet(Live(w))
  BY FS_Subset, ManagerAssumption DEF Live
<1> QED  BY <1>1, FS_Subset, FS_CardinalityType

\* Lemma: a table that lost keys (a release, an eviction) still respects the cap.
LEMMA CapAfterLoss ==
  ASSUME TypeOK, SlotsWithinCap, NEW w \in Table, Live(w) \subseteq Live(watches)
  PROVE  Cardinality(Live(w)) <= policy.max_watches
BY LiveFinite DEF TypeOK, SlotsWithinCap, Policy

\* Lemma: after `register` has made room under a positive cap, one more key fits.
LEMMA RoomForOne ==
  ASSUME TypeOK, SlotsWithinCap, policy.max_watches # 0, NEW t,
         NEW room \in (IF Full(watches) THEN MakeRoom(watches, t) ELSE {watches}),
         NEW k \in WatchKey
  PROVE  Cardinality(Live(room) \union {k}) <= policy.max_watches
<1>1. policy.max_watches \in Nat /\ watches \in Table
  BY ManagerAssumption DEF TypeOK, Policy, Table
<1>2. Live(room) \subseteq Live(watches)
  BY <1>1, MakeRoomFacts
<1>3. /\ IsFiniteSet(Live(room))
      /\ Cardinality(Live(room)) \in Nat
      /\ Cardinality(Live(room)) <= Cardinality(Live(watches))
      /\ Cardinality(Live(watches)) \in Nat
  BY <1>2, LiveFinite
<1>4. Cardinality(Live(room)) + 1 <= policy.max_watches
  <2>1. CASE ~Full(watches)
    BY <1>1, <1>3, <2>1 DEF Full
  <2>2. CASE Full(watches) /\ ~Full(room)
    BY <1>1, <1>3, <2>2 DEF Full
  <2>3. CASE Full(watches) /\ Live(room) = {}
    BY <1>1, <1>3, <2>3, FS_EmptySet
  <2>4. CASE /\ Full(watches)
             /\ \E j \in Live(watches) \ Expired(watches, t) :
                  Live(room) = (Live(watches) \ Expired(watches, t)) \ {j}
    <3>1. PICK j \in Live(watches) \ Expired(watches, t) :
            Live(room) = (Live(watches) \ Expired(watches, t)) \ {j}
      BY <2>4
    <3> DEFINE fresh == Live(watches) \ Expired(watches, t)
    <3>2. /\ IsFiniteSet(fresh)
          /\ Cardinality(fresh) \in Nat
          /\ Cardinality(fresh) <= Cardinality(Live(watches))
      BY LiveFinite
    <3> HIDE DEF fresh
    <3>3. Cardinality(fresh \ {j}) = IF j \in fresh THEN Cardinality(fresh) - 1
                                     ELSE Cardinality(fresh)
      BY <3>2, FS_RemoveElement, Zenon
    <3>4. Cardinality(Live(room)) = Cardinality(fresh) - 1
      BY <3>1, <3>3 DEF fresh
    <3> QED  BY <1>1, <1>3, <3>2, <3>4 DEF SlotsWithinCap
  <2> QED  BY <1>1, <2>1, <2>2, <2>3, <2>4, MakeRoomFacts
<1>5. Cardinality(Live(room) \union {k}) =
        IF k \in Live(room) THEN Cardinality(Live(room)) ELSE Cardinality(Live(room)) + 1
  BY <1>3, FS_AddElement, Zenon
<1> QED  BY <1>1, <1>3, <1>4, <1>5

\* The hard cap of ADR-0006: no interleaving of threads ever puts more keys in the table
\* than the policy allows.
THEOREM CapAlwaysHolds == Spec => []CapHolds
<1>1. Init => SlotsWithinCap
  <2> SUFFICES ASSUME Init PROVE SlotsWithinCap
    OBVIOUS
  <2>1. Live(watches) = {}
    BY DEF Init, Live
  <2>2. policy.max_watches \in Nat
    BY ManagerAssumption DEF Init, Policy
  <2> QED  BY <2>1, <2>2, FS_EmptySet DEF SlotsWithinCap
<1>2. TypeOK /\ SlotsWithinCap /\ [Next]_vars => SlotsWithinCap'
  <2> SUFFICES ASSUME TypeOK, SlotsWithinCap, [Next]_vars PROVE SlotsWithinCap'
    OBVIOUS
  <2>0. watches \in Table
    BY DEF TypeOK, Table
  <2>1. ASSUME policy' = policy, watches' \in Table, Live(watches') \subseteq Live(watches)
        PROVE  SlotsWithinCap'
    BY <2>1, CapAfterLoss DEF SlotsWithinCap
  <2>2. ASSUME policy' = policy, watches' = watches
        PROVE  SlotsWithinCap'
    BY <2>2 DEF SlotsWithinCap
  <2>3. ASSUME NEW c \in Caller, RegisterLive(c)
        PROVE  SlotsWithinCap'
    <3>1. /\ watches' \in Table
          /\ Live(watches') = Live(watches) \union {call[c].key}
      BY <2>0, <2>3, CallFacts, StampFacts DEF RegisterLive
    <3> QED  BY <2>1, <2>3, <3>1 DEF RegisterLive
  <2>4. ASSUME NEW c \in Caller, RegisterNew(c)
        PROVE  SlotsWithinCap'
    <3>1. PICK room \in (IF Full(watches) THEN MakeRoom(watches, call[c].at) ELSE {watches}) :
            IF policy.max_watches = 0
            THEN watches' = room
            ELSE watches' = [room EXCEPT ![call[c].key] = call[c].at]
      BY <2>4 DEF RegisterNew
    <3>2. room \in Table /\ Live(room) \subseteq Live(watches)
      BY <2>0, MakeRoomFacts
    <3>3. policy' = policy
      BY <2>4 DEF RegisterNew
    <3>4. CASE policy.max_watches = 0
      BY <2>1, <3>1, <3>2, <3>3, <3>4
    <3>5. CASE policy.max_watches # 0
      <4>1. Live(watches') = Live(room) \union {call[c].key}
        BY <2>4, <3>1, <3>2, <3>5, CallFacts, StampFacts DEF RegisterNew
      <4> QED  BY <2>4, <3>3, <3>5, <4>1, CallFacts, RoomForOne DEF RegisterNew, SlotsWithinCap
    <3> QED  BY <3>4, <3>5
  <2>5. ASSUME NEW c \in Caller, Touch(c)
        PROVE  SlotsWithinCap'
    BY <2>0, <2>1, <2>2, <2>5, CallFacts, StampFacts DEF Touch
  <2>6. ASSUME NEW c \in Caller, NEW k \in WatchKey, Release(c, k)
        PROVE  SlotsWithinCap'
    BY <2>0, <2>1, <2>6, WithoutFacts DEF Release
  <2>7. ASSUME NEW c \in Caller, NEW t \in Time, EvictIdle(c, t)
        PROVE  SlotsWithinCap'
    BY <2>0, <2>1, <2>7, WithoutFacts DEF EvictIdle, EvictIdleLocked
  <2> QED
    BY <2>2, <2>3, <2>4, <2>5, <2>6, <2>7 DEF Next, Tick, ReadClock, vars
<1>3. TypeOK /\ SlotsWithinCap => CapHolds
  BY DEF CapHolds
<1> QED  BY <1>1, <1>2, <1>3, TypeCorrect, PTL DEF Spec
--------------------------------------------------------------------------------
\* Lemma: the step in which a thread's registration returns is its locked section.
LEMMA RegistersFacts ==
  ASSUME TypeOK, [Next]_vars, NEW c \in Caller, Registers(c)
  PROVE  RegisterLive(c) \/ RegisterNew(c)
<1> USE DEF Registers, Return
<1>1. ASSUME NEW d \in Caller, Return(d, "none") \/ \E r : Return(d, r)
      PROVE  d = c
  BY <1>1 DEF TypeOK
<1>2. CASE Tick \/ UNCHANGED vars
  BY <1>2 DEF Tick, vars
<1>3. ASSUME NEW d \in Caller, NEW op \in {"register", "touch"}, NEW k \in WatchKey,
             ReadClock(d, op, k)
      PROVE  FALSE
  BY <1>3 DEF ReadClock, NoCall, TypeOK
<1>4. ASSUME NEW d \in Caller, RegisterLive(d) \/ RegisterNew(d)
      PROVE  RegisterLive(c) \/ RegisterNew(c)
  BY <1>1, <1>4 DEF RegisterLive, RegisterNew
<1>5. ASSUME NEW d \in Caller, Touch(d)
      PROVE  FALSE
  BY <1>1, <1>5 DEF Touch
<1>6. ASSUME NEW d \in Caller, NEW k \in WatchKey, Release(d, k)
      PROVE  FALSE
  BY <1>1, <1>6 DEF Release
<1>7. ASSUME NEW d \in Caller, NEW t \in Time, EvictIdle(d, t)
      PROVE  FALSE
  BY <1>1, <1>7 DEF EvictIdle
<1> QED  BY <1>2, <1>3, <1>4, <1>5, <1>6, <1>7 DEF Next

\* Lemma: a registration that evicts was new, found the table full, and evicted exactly the
\* idle keys, or these and a coldest of the others.
LEMMA EvictionFacts ==
  ASSUME TypeOK, [Next]_vars, NEW c \in Caller, Registers(c),
         NEW k \in Live(watches), Evicted(k)
  PROVE  /\ call[c].key \notin Live(watches)
         /\ Full(watches)
         /\ \/ \A j \in Live(watches) : Evicted(j) <=> j \in Expired(watches, call[c].at)
            \/ \E x \in Live(watches) \ Expired(watches, call[c].at) :
                 /\ \A j \in Live(watches) :
                      Evicted(j) <=> j \in Expired(watches, call[c].at) \/ j = x
                 /\ \A j \in Live(watches) \ Expired(watches, call[c].at) :
                      watches[x] <= watches[j]
<1>1. watches \in Table
  BY DEF TypeOK, Table
<1>2. ~RegisterLive(c)
  BY <1>1, CallFacts, StampFacts DEF RegisterLive, Evicted, Live
<1>3. RegisterNew(c)
  BY <1>2, RegistersFacts
<1>4. /\ call[c].key \in WatchKey
      /\ call[c].at \in Time
      /\ call[c].key \notin Live(watches)
  BY <1>3, CallFacts DEF RegisterNew
<1>5. PICK room \in (IF Full(watches) THEN MakeRoom(watches, call[c].at) ELSE {watches}) :
        watches' = room \/ watches' = [room EXCEPT ![call[c].key] = call[c].at]
  BY <1>3 DEF RegisterNew
<1>6. room \in Table
  BY <1>1, <1>5, MakeRoomFacts
<1>7. \A j \in Live(watches) : Evicted(j) <=> j \notin Live(room)
  <2>1. CASE watches' = room
    BY <2>1 DEF Evicted, Live
  <2>2. CASE watches' = [room EXCEPT ![call[c].key] = call[c].at]
    <3>1. \A j \in Live(watches) : watches'[j] = room[j]
      BY <1>4, <1>6, <2>2 DEF Table, Live
    <3> QED  BY <3>1 DEF Evicted, Live
  <2> QED  BY <1>5, <2>1, <2>2
<1>8. Full(watches)
  BY <1>5, <1>7
<1>9. room \in MakeRoom(watches, call[c].at)
  BY <1>5, <1>8
<1>10. CASE Live(room) = Live(watches) \ Expired(watches, call[c].at)
  BY <1>4, <1>7, <1>8, <1>10 DEF Expired
<1>11. CASE \E x \in Live(watches) \ Expired(watches, call[c].at) :
              /\ Live(room) = (Live(watches) \ Expired(watches, call[c].at)) \ {x}
              /\ \A j \in Live(watches) \ Expired(watches, call[c].at) :
                   watches[x] <= watches[j]
  BY <1>4, <1>7, <1>8, <1>11
<1> QED  BY <1>1, <1>9, <1>10, <1>11, MakeRoomFacts

\* Lemma: an idle key was touched no later than a key that is not idle.
LEMMA IdleIsColder ==
  ASSUME TypeOK, NEW t \in Time,
         NEW k \in Expired(watches, t), NEW j \in Live(watches) \ Expired(watches, t)
  PROVE  watches[k] <= watches[j]
<1>1. /\ watches[k] \in Nat /\ watches[j] \in Nat
      /\ t \in Nat
      /\ policy.idle_ttl \in Nat
  BY ManagerAssumption DEF TypeOK, Expired, Live, Time, NotLive, Policy
<1>2. Age(watches, k, t) >= policy.idle_ttl /\ ~(Age(watches, j, t) >= policy.idle_ttl)
  BY DEF Expired
<1> QED  BY <1>1, <1>2 DEF Age

\* Admitting a view never sacrifices a hotter view for a colder one, whatever the order in
\* which threads read the clock and take the lock.
THEOREM ColdestGoFirst == Spec => EvictsColdestFirst
<1>1. ASSUME TypeOK, [Next]_vars, NEW c \in Caller, Registers(c),
             NEW k \in Live(watches), NEW j \in Live(watches), Evicted(k), ~Evicted(j)
      PROVE  watches[k] <= watches[j]
  <2>1. call[c].at \in Time
    BY <1>1, CallFacts DEF Registers
  <2>2. j \notin Expired(watches, call[c].at)
    BY <1>1, EvictionFacts
  <2>3. CASE k \in Expired(watches, call[c].at)
    BY <1>1, <2>1, <2>2, <2>3, IdleIsColder
  <2>4. CASE k \notin Expired(watches, call[c].at)
    BY <1>1, <2>2, <2>4, EvictionFacts
  <2> QED  BY <2>3, <2>4
<1>2. TypeOK /\ [Next]_vars =>
        [\A c \in Caller : Registers(c) =>
           \A k, j \in Live(watches) :
             (Evicted(k) /\ ~Evicted(j)) => watches[k] <= watches[j]]_vars
  BY <1>1
<1> QED  BY <1>2, TypeCorrect, PTL DEF Spec, EvictsColdestFirst

\* A registration evicts only on a full table, for a key that had no slot, and at most one
\* key that was not idle.
THEOREM EvictionUnderPressure == Spec => EvictsOnlyUnderPressure
<1>1. ASSUME TypeOK, SlotsWithinCap, [Next]_vars, NEW c \in Caller, Registers(c),
             NEW k \in WatchKey, Evicted(k)
      PROVE  /\ call[c].key \notin Live(watches)
             /\ Cardinality(Live(watches)) = policy.max_watches
             /\ \A j \in WatchKey :
                  (Evicted(j) /\ {j, k} \intersect Expired(watches, call[c].at) = {}) => j = k
  <2>1. k \in Live(watches)
    BY <1>1 DEF Evicted
  <2>2. /\ Cardinality(Live(watches)) \in Nat
        /\ policy.max_watches \in Nat
    BY <1>1, LiveFinite, ManagerAssumption DEF TypeOK, Policy
  <2>3. Cardinality(Live(watches)) = policy.max_watches
    BY <1>1, <2>1, <2>2, EvictionFacts DEF Full, SlotsWithinCap
  <2>4. ASSUME NEW j \in WatchKey, Evicted(j),
               {j, k} \intersect Expired(watches, call[c].at) = {}
        PROVE  j = k
    <3>1. j \in Live(watches)
      BY <2>4 DEF Evicted
    <3> QED  BY <1>1, <2>1, <2>4, <3>1, EvictionFacts
  <2> QED  BY <1>1, <2>1, <2>3, <2>4, EvictionFacts
<1>2. TypeOK /\ SlotsWithinCap /\ [Next]_vars =>
        [\A c \in Caller : Registers(c) =>
           \A k \in WatchKey : Evicted(k) =>
             /\ call[c].key \notin Live(watches)
             /\ Cardinality(Live(watches)) = policy.max_watches
             /\ \A j \in WatchKey :
                  (Evicted(j) /\ {j, k} \intersect Expired(watches, call[c].at) = {}) => j = k]_vars
  BY <1>1
<1>3. CapHolds => SlotsWithinCap
  BY DEF CapHolds
<1> QED  BY <1>2, <1>3, TypeCorrect, CapAlwaysHolds, PTL DEF Spec, EvictsOnlyUnderPressure
--------------------------------------------------------------------------------
(***************************************************************************)
(* The view session, for any tasks and views: the slots its tasks hold,    *)
(* and that its use of the manager is the manager's own specification.     *)
(***************************************************************************)
\* The tasks of a session: each serves the view it was born for, is inside register() for
\* that view exactly while it registers, and is born before it can be aborted.
TasksInv ==
  /\ shown \in WatchKey
  /\ handle \in Task \union {"none"}
  /\ key \in [Task -> WatchKey \union {"none"}]
  /\ state \in [Task -> {"unborn", "spawned", "registering", "streaming", "dropped"}]
  /\ aborted \in SUBSET Task /\ handle \notin aborted
  /\ \A t \in Task : key[t] = "none" <=> state[t] = "unborn"
  /\ \A t \in aborted : state[t] # "unborn"
  /\ handle # "none" => state[handle] # "unborn"

CallsInv ==
  \A t \in Task : IF state[t] = "registering"
                  THEN call[t].op = "register" /\ call[t].key = key[t]
                  ELSE call[t] = NoCall

SlotsInv == \A k \in Live(watches) : \E t \in Task : state[t] = "streaming" /\ key[t] = k

SessionInv == TypeOK /\ TasksInv /\ CallsInv /\ SlotsInv

\* Lemma: SessionInv says that slots are held.
LEMMA SessionMeans == ASSUME SessionInv PROVE SlotsAreHeld
<1>1. SessionTypeOK
  BY DEF SessionInv, TasksInv, SessionTypeOK, None, TaskState
<1>2. NoSlotLeak
  BY DEF SessionInv, SlotsInv, NoSlotLeak, Live, Streaming
<1> QED  BY <1>1, <1>2 DEF SlotsAreHeld

\* Lemma: a session starts with one spawned task and an empty table.
LEMMA SessionStarts == SessionInit => SessionInv /\ Init
<1> SUFFICES ASSUME SessionInit PROVE SessionInv /\ Init
  OBVIOUS
<1>1. Init
  BY DEF SessionInit
<1>2. TypeOK
  BY <1>1, TypeInit
<1>3. TasksInv
  BY SessionAssumption DEF SessionInit, None, TasksInv
<1>4. CallsInv
  BY <1>1, SessionAssumption DEF SessionInit, Init, CallsInv
<1>5. SlotsInv
  BY <1>1 DEF Init, Live, SlotsInv
<1> QED  BY <1>1, <1>2, <1>3, <1>4, <1>5 DEF SessionInv

\* Lemma: a registration gives a slot to its own key at most, and ends the call.
LEMMA RegistersOwn ==
  ASSUME TypeOK, NEW c \in Caller, RegisterLive(c) \/ RegisterNew(c)
  PROVE  /\ Live(watches') \subseteq Live(watches) \union {call[c].key}
         /\ call' = [call EXCEPT ![c] = NoCall]
<1>1. watches \in Table
  BY DEF TypeOK, Table
<1>2. call' = [call EXCEPT ![c] = NoCall]
  BY DEF RegisterLive, RegisterNew, Return
<1>3. CASE RegisterLive(c)
  BY <1>1, <1>2, <1>3, CallFacts, StampFacts DEF RegisterLive
<1>4. CASE RegisterNew(c)
  <2>1. PICK room \in (IF Full(watches) THEN MakeRoom(watches, call[c].at) ELSE {watches}) :
          watches' = room \/ watches' = [room EXCEPT ![call[c].key] = call[c].at]
    BY <1>4 DEF RegisterNew
  <2>2. room \in Table /\ Live(room) \subseteq Live(watches)
    BY <1>1, <2>1, MakeRoomFacts
  <2>3. call[c].key \in WatchKey /\ call[c].at \in Time
    BY <1>4, CallFacts DEF RegisterNew
  <2> QED  BY <1>2, <2>1, <2>2, <2>3, StampFacts
<1> QED  BY <1>3, <1>4

\* Lemma: switching views, spawning and the drop of a task never polled leave the manager
\* alone.
LEMMA SwitchesKeep ==
  ASSUME SessionInv,
         \/ \E k \in WatchKey : SwitchView(k)
         \/ \E t \in Task : SpawnWatch(t) \/ DropUnstarted(t)
         \/ UNCHANGED sessionVars
  PROVE  SessionInv' /\ UNCHANGED vars
<1>1. UNCHANGED vars
  BY DEF SwitchView, SpawnWatch, DropUnstarted, sessionVars, vars
<1>2. /\ TypeOK'
      /\ call' = call /\ watches' = watches /\ Live(watches') = Live(watches)
  BY <1>1, TypeStep DEF SessionInv, vars
<1>3. ASSUME NEW k \in WatchKey, SwitchView(k) PROVE SessionInv'
  <2>1. TasksInv'
    BY <1>3, SessionAssumption DEF SwitchView, None, SessionInv, TasksInv
  <2>2. CallsInv' /\ SlotsInv'
    BY <1>2, <1>3 DEF SwitchView, SessionInv, CallsInv, SlotsInv
  <2> QED  BY <1>2, <2>1, <2>2 DEF SessionInv
<1>4. ASSUME NEW t \in Task, SpawnWatch(t) PROVE SessionInv'
  <2>1. TasksInv'
    BY <1>4, SessionAssumption DEF SpawnWatch, None, SessionInv, TasksInv
  <2>2. CallsInv'
    BY <1>2, <1>4 DEF SpawnWatch, SessionInv, TasksInv, CallsInv
  <2>3. SlotsInv'
    BY <1>2, <1>4 DEF SpawnWatch, SessionInv, TasksInv, SlotsInv
  <2> QED  BY <1>2, <2>1, <2>2, <2>3 DEF SessionInv
<1>5. ASSUME NEW t \in Task, DropUnstarted(t) PROVE SessionInv'
  <2>1. TasksInv'
    BY <1>5, SessionAssumption DEF DropUnstarted, SessionInv, TasksInv
  <2>2. CallsInv'
    BY <1>2, <1>5 DEF DropUnstarted, SessionInv, TasksInv, CallsInv
  <2>3. SlotsInv'
    BY <1>2, <1>5 DEF DropUnstarted, SessionInv, TasksInv, SlotsInv
  <2> QED  BY <1>2, <2>1, <2>2, <2>3 DEF SessionInv
<1>6. ASSUME UNCHANGED sessionVars PROVE SessionInv'
  BY <1>2, <1>6 DEF sessionVars, tasks, SessionInv, TasksInv, CallsInv, SlotsInv
<1> QED  BY <1>1, <1>3, <1>4, <1>5, <1>6

\* Lemma: what the event loop asks of the manager is a step of the manager, and so is the
\* clock; neither is a task's.
LEMMA QueriesKeep ==
  ASSUME SessionInv, BeginQuery \/ EndQuery \/ Clock
  PROVE  SessionInv' /\ Next
<1>1. ReadClock(Tui, "touch", shown) \/ Touch(Tui) \/ Tick
  BY DEF BeginQuery, EndQuery, Clock
<1>2. UNCHANGED <<shown, handle, key, state, aborted>>
  BY DEF BeginQuery, EndQuery, Clock, tasks
<1>3. Tui \in Caller /\ Tui \notin Task /\ shown \in WatchKey
  BY SessionAssumption DEF SessionInv, TasksInv
<1>4. Next
  BY <1>1, <1>3 DEF Next
<1>5. TypeOK'
  BY <1>4, TypeStep DEF SessionInv
<1>6. TasksInv'
  BY <1>2 DEF SessionInv, TasksInv
<1>7. \A t \in Task : call'[t] = call[t]
  BY <1>1, <1>3, SessionAssumption DEF ReadClock, Touch, Tick, Return, SessionInv, TypeOK
<1>8. CallsInv'
  BY <1>2, <1>7 DEF SessionInv, CallsInv
<1>9. Live(watches') = Live(watches)
  <2>1. CASE Touch(Tui) /\ watches' # watches
    <3>1. /\ call[Tui].key \in WatchKey /\ call[Tui].at \in Time
          /\ call[Tui].key \in Live(watches) /\ watches \in Table
          /\ watches' = [watches EXCEPT ![call[Tui].key] = call[Tui].at]
      BY <1>3, <2>1, CallFacts DEF Touch, SessionInv, TypeOK, Table
    <3>2. Live(watches') = Live(watches) \union {call[Tui].key}
      BY <3>1, StampFacts
    <3> QED  BY <3>1, <3>2
  <2>2. CASE ~(Touch(Tui) /\ watches' # watches)
    <3>1. watches' = watches
      BY <1>1, <2>2 DEF ReadClock, Tick
    <3> QED  BY <3>1
  <2> QED  BY <2>1, <2>2
<1>10. SlotsInv'
  BY <1>2, <1>9 DEF SessionInv, SlotsInv
<1> QED  BY <1>4, <1>5, <1>6, <1>8, <1>10 DEF SessionInv

\* Lemma: a task takes a slot for its own view, and gives its view's slot back when it is
\* dropped: both are calls of the manager, and no other slot loses its task.
LEMMA TasksKeep ==
  ASSUME SessionInv, NEW t \in Task,
         StartTask(t) \/ RegisterTask(t) \/ DropTask(t)
  PROVE  SessionInv' /\ Next
<1>1. t \in Caller /\ watches \in Table /\ call \in [Caller -> Timed \union {NoCall}]
  BY SessionAssumption DEF SessionInv, TypeOK, Table
<1>2. CASE StartTask(t)
  <2>1. /\ ReadClock(t, "register", key[t]) /\ state[t] = "spawned"
        /\ state' = [state EXCEPT ![t] = "registering"]
        /\ UNCHANGED <<shown, handle, key, aborted>>
    BY <1>2 DEF StartTask
  <2>2. key[t] \in WatchKey
    BY <2>1 DEF SessionInv, TasksInv
  <2>3. Next
    BY <1>1, <2>1, <2>2 DEF Next
  <2>4. TypeOK'
    BY <2>3, TypeStep DEF SessionInv
  <2>5. TasksInv'
    BY <2>1 DEF SessionInv, TasksInv
  <2>6. CallsInv'
    BY <1>1, <2>1, <2>2, SessionAssumption DEF ReadClock, SessionInv, TasksInv, CallsInv
  <2>7. SlotsInv'
    BY <2>1 DEF ReadClock, SessionInv, TasksInv, SlotsInv
  <2> QED  BY <2>3, <2>4, <2>5, <2>6, <2>7 DEF SessionInv
<1>3. CASE RegisterTask(t)
  <2>1. /\ RegisterLive(t) \/ RegisterNew(t)
        /\ state[t] = "registering"
        /\ state' = [state EXCEPT ![t] = "streaming"]
        /\ UNCHANGED <<shown, handle, key, aborted>>
    BY <1>3 DEF RegisterTask
  <2>2. /\ Live(watches') \subseteq Live(watches) \union {key[t]}
        /\ call' = [call EXCEPT ![t] = NoCall]
    BY <1>1, <2>1, RegistersOwn DEF SessionInv, CallsInv
  <2>3. Next
    BY <1>1, <2>1 DEF Next
  <2>4. TypeOK'
    BY <2>3, TypeStep DEF SessionInv
  <2>5. TasksInv'
    BY <2>1 DEF SessionInv, TasksInv
  <2>6. CallsInv'
    BY <1>1, <2>1, <2>2, SessionAssumption DEF SessionInv, TasksInv, CallsInv
  <2>7. SlotsInv'
    BY <2>1, <2>2 DEF SessionInv, TasksInv, SlotsInv
  <2> QED  BY <2>3, <2>4, <2>5, <2>6, <2>7 DEF SessionInv
<1>4. CASE DropTask(t)
  <2>1. /\ Release(t, key[t]) /\ state[t] = "streaming"
        /\ state' = [state EXCEPT ![t] = "dropped"]
        /\ UNCHANGED <<shown, handle, key, aborted>>
    BY <1>4 DEF DropTask
  <2>2. key[t] \in WatchKey
    BY <2>1 DEF SessionInv, TasksInv
  <2>3. /\ Live(watches') = Live(watches) \ {key[t]}
        /\ call' = [call EXCEPT ![t] = NoCall]
    BY <1>1, <2>1, WithoutFacts DEF Release, Return
  <2>4. Next
    BY <1>1, <2>1, <2>2 DEF Next
  <2>5. TypeOK'
    BY <2>4, TypeStep DEF SessionInv
  <2>6. TasksInv'
    BY <2>1 DEF SessionInv, TasksInv
  <2>7. CallsInv'
    BY <1>1, <2>1, <2>3, SessionAssumption DEF SessionInv, TasksInv, CallsInv
  <2>8. SlotsInv'
    BY <2>1, <2>3 DEF SessionInv, TasksInv, SlotsInv
  <2> QED  BY <2>4, <2>5, <2>6, <2>7, <2>8 DEF SessionInv
<1> QED  BY <1>2, <1>3, <1>4

\* Lemma: every step of a session keeps SessionInv, and is one of its manager's or none.
LEMMA SessionStep ==
  ASSUME SessionInv, [SessionNext]_sessionVars
  PROVE  SessionInv' /\ [Next]_vars
BY SwitchesKeep, QueriesKeep, TasksKeep DEF SessionNext

\* Theorem: no slot outlives the tasks that hold it (finding N): whatever order the switches,
\* aborts, evictions and drops take, the key of every live slot belongs to a task that
\* streams.
THEOREM SlotsAreAlwaysHeld == SessionSpec => []SlotsAreHeld
<1>1. SessionInit => SessionInv
  BY SessionStarts
<1>2. SessionInv /\ [SessionNext]_sessionVars => SessionInv'
  BY SessionStep
<1>3. SessionInv => SlotsAreHeld
  BY SessionMeans
<1> QED  BY <1>1, <1>2, <1>3, PTL DEF SessionSpec

\* Theorem: a session uses its manager as the manager is specified, its calls included: what
\* is proved of the manager holds of it.
THEOREM SessionImplementsManager == SessionSpec => Spec
<1>1. SessionInit => SessionInv /\ Init
  BY SessionStarts
<1>2. SessionInv /\ [SessionNext]_sessionVars => SessionInv' /\ [Next]_vars
  BY SessionStep
<1> QED  BY <1>1, <1>2, PTL DEF SessionSpec, Spec

\* Theorem: the hard cap and the order of evictions hold in a session, however its views are
\* switched and its tasks dropped.
THEOREM SessionKeepsCap ==
  SessionSpec => []CapHolds /\ EvictsColdestFirst /\ EvictsOnlyUnderPressure
BY SessionImplementsManager, CapAlwaysHolds, ColdestGoFirst, EvictionUnderPressure, PTL
--------------------------------------------------------------------------------
(***************************************************************************)
(* The table of the TUI, for any rows, views and terminal heights: its     *)
(* positions, what its remembered revision tells, what its keys act on.    *)
(***************************************************************************)
\* Lemma: a finite set of numbers has, for each place, one element with as many before it.
LEMMA Places ==
  ASSUME NEW S \in SUBSET Nat, IsFiniteSet(S), NEW desc \in BOOLEAN,
         NEW k \in 1 .. Cardinality(S)
  PROVE  \E x \in S : Cardinality({y \in S : IF desc THEN y > x ELSE y < x}) = k - 1
<1> DEFINE Before(x) == {y \in S : IF desc THEN y > x ELSE y < x}
           n == Cardinality(S)
           rank == [x \in S |-> Cardinality(Before(x))]
<1>1. n \in Nat
  BY FS_CardinalityType
<1>2. \A x \in S : /\ IsFiniteSet(Before(x))
                   /\ Before(x) \subseteq S
                   /\ x \notin Before(x)
                   /\ Cardinality(Before(x)) \in Nat
  BY FS_Subset, FS_CardinalityType
<1>3. \A x \in S : Cardinality(Before(x)) \in 0 .. n - 1
  <2> TAKE x \in S
  <2>1. Cardinality(Before(x)) <= n /\ (Cardinality(Before(x)) = n => S = Before(x))
    BY <1>2, FS_Subset
  <2> HIDE DEF Before, n
  <2> QED  BY <1>1, <1>2, <2>1
<1>4. \A x, y \in S : y \in Before(x) => Cardinality(Before(y)) < Cardinality(Before(x))
  <2> SUFFICES ASSUME NEW x \in S, NEW y \in S, y \in Before(x)
               PROVE  Cardinality(Before(y)) < Cardinality(Before(x))
    OBVIOUS
  <2>1. Before(y) \subseteq Before(x)
    <3> SUFFICES ASSUME NEW z \in Before(y) PROVE z \in Before(x)
      OBVIOUS
    <3>1. x \in Nat /\ y \in Nat /\ z \in Nat /\ z \in S
      OBVIOUS
    <3>2. IF desc THEN y > x /\ z > y ELSE y < x /\ z < y
      OBVIOUS
    <3>3. IF desc THEN z > x ELSE z < x
      BY <3>1, <3>2
    <3> QED  BY <3>1, <3>3
  <2>2. /\ Cardinality(Before(y)) <= Cardinality(Before(x))
        /\ Cardinality(Before(y)) = Cardinality(Before(x)) => Before(x) = Before(y)
    BY <1>2, <2>1, FS_Subset
  <2>3. Before(x) # Before(y)
    BY <1>2
  <2> HIDE DEF Before
  <2> QED  BY <1>2, <2>2, <2>3
<1>5. \A x, y \in S : x = y \/ y \in Before(x) \/ x \in Before(y)
  OBVIOUS
<1>6. rank \in [S -> 0 .. n - 1] /\ \A x, y \in S : rank[x] = rank[y] => x = y
  <2> HIDE DEF Before, n
  <2> QED  BY <1>1, <1>2, <1>3, <1>4, <1>5
<1>7. rank \in Injection(S, 0 .. n - 1)
  <2> HIDE DEF rank, n
  <2> QED  BY <1>6 DEF Injection, IsInjective
<1>8. IsFiniteSet(0 .. n - 1) /\ Cardinality(0 .. n - 1) = n
  <2> HIDE DEF n
  <2> QED  BY <1>1, FS_Interval
<1>9. rank \in Surjection(S, 0 .. n - 1)
  <2> HIDE DEF rank
  <2> QED  BY <1>7, <1>8, FS_Injection
<1>10. \E x \in S : rank[x] = k - 1
  <2>1. k - 1 \in 0 .. n - 1
    BY <1>1
  <2> HIDE DEF rank, n
  <2> QED  BY <1>9, <2>1 DEF Surjection
<1> QED  BY <1>10

\* Lemma: sorting a finite set gives a sequence of its elements, as many as there are.
LEMMA SortedFacts ==
  ASSUME NEW S \in SUBSET Nat, IsFiniteSet(S), NEW desc \in BOOLEAN
  PROVE  /\ Sorted(S, desc) \in Seq(S)
         /\ Len(Sorted(S, desc)) = Cardinality(S)
         /\ Cardinality(S) \in Nat
<1> DEFINE Before(x) == {y \in S : IF desc THEN y > x ELSE y < x}
           n == Cardinality(S)
<1>1. n \in Nat
  BY FS_CardinalityType
<1>2. Sorted(S, desc) =
        [k \in 1 .. n |-> CHOOSE x \in S : Cardinality(Before(x)) = k - 1]
  BY DEF Sorted
<1>3. \A k \in 1 .. n : \E x \in S : Cardinality(Before(x)) = k - 1
  BY Places
<1> HIDE DEF Before, n
<1>4. \A k \in 1 .. n : (CHOOSE x \in S : Cardinality(Before(x)) = k - 1) \in S
  BY <1>3
<1> DEFINE sorted == [k \in 1 .. n |-> CHOOSE x \in S : Cardinality(Before(x)) = k - 1]
<1>5. sorted \in Seq(S) /\ Len(sorted) = n
  <2>1. sorted \in [1 .. n -> S]
    BY <1>4
  <2> HIDE DEF sorted
  <2> QED  BY <1>1, <2>1
<1> HIDE DEF sorted
<1>6. Sorted(S, desc) = sorted
  BY <1>2 DEF sorted
<1> QED  BY <1>1, <1>5, <1>6 DEF n

\* Lemma: a slice of [start, end) has elements of the sequence only, at most end - start.
LEMMA SliceFacts ==
  ASSUME NEW S, NEW s \in Seq(S), NEW start \in Nat, NEW end \in Nat, start <= end
  PROVE  /\ Slice(s, start, end) \in Seq(S)
         /\ Len(Slice(s, start, end)) <= end - start
         /\ \A k \in DOMAIN Slice(s, start, end) :
              Slice(s, start, end)[k] = s[start + k] /\ start + k \in DOMAIN s
<1> DEFINE last == IF end <= Len(s) THEN end ELSE Len(s)
<1>1. last \in Nat /\ last <= Len(s) /\ last <= end
  OBVIOUS
<1>2. Slice(s, start, end) = SubSeq(s, start + 1, last)
  BY DEF Slice, Least
<1> HIDE DEF last
<1>3. SubSeq(s, start + 1, last) = [k \in 1 .. (last - start) |-> s[start + k]]
  BY <1>1
<1> QED  BY <1>1, <1>2, <1>3
--------------------------------------------------------------------------------
Count == Cardinality(Ids)

ScreenTypes ==
  /\ view \in View /\ present \subseteq Ids /\ revision \in Nat
  /\ height \in Heights /\ lastRevision \in Nat /\ seen \in Nat
  /\ detail.id \in Ids \union {-1}
  /\ pc \in {"loop", "refresh", "draw", "key", "query", "revision", "window", "command"}
  /\ deltas \in 0 .. MaxDeltas

ScreenFlags == descending \in BOOLEAN /\ palette \in BOOLEAN /\ raced \in BOOLEAN

WindowTypes ==
  /\ rows \in Seq(Ids) /\ \E h \in Heights : Len(rows) <= h
  /\ total \in 0 .. Count /\ selected \in 0 .. Count /\ scroll \in 0 .. Count
  /\ fetched \subseteq Ids

\* A jump ranks rows of its master, and the frame is never below its selection: what it
\* shows at the selection is what the selection means.
JumpInv ==
  /\ jump \in [on : BOOLEAN, master : Seq(Ids), of : SUBSET View, order : Seq(Nat)]
  /\ Len(jump.master) <= Count /\ Len(jump.order) <= Count
  /\ \A k \in DOMAIN jump.order : jump.order[k] \in DOMAIN jump.master
  /\ jump.on => /\ ~palette
                /\ scroll <= selected
                /\ selected = 0 \/ selected < Len(jump.order)
  /\ pc = "refresh" => ~jump.on

\* A remembered revision is not ahead of the plane's, and if it is the plane's the window
\* is fresh: between any two steps but those of a rebuild, which look in the other order.
WatchInv ==
  /\ (pc \notin {"query", "revision"} /\ ~raced) =>
       lastRevision <= revision /\ (lastRevision = revision => fetched = present)
  /\ pc = "refresh" => seen <= revision
  /\ pc = "revision" => seen <= revision /\ (seen = revision => fetched = present)

ScreenInv == ScreenTypes /\ ScreenFlags /\ WindowTypes /\ JumpInv /\ WatchInv

\* Lemma: the rows of the plane, sorted, are no more than the identities.
LEMMA AllRows ==
  ASSUME ScreenTypes, NEW desc \in BOOLEAN
  PROVE  /\ Sorted(present, desc) \in Seq(Ids)
         /\ Len(Sorted(present, desc)) \in 0 .. Count
         /\ Count \in Nat
<1>1. /\ present \in SUBSET Ids /\ IsFiniteSet(Ids) /\ Ids \subseteq Nat
  BY TuiAssumption DEF ScreenTypes
<1>2. /\ IsFiniteSet(present) /\ Cardinality(present) <= Count /\ Count \in Nat
  BY <1>1, FS_Subset, FS_CardinalityType DEF Count
<1> DEFINE all == Sorted(present, desc)
<1>3. /\ all \in Seq(present)
      /\ Len(all) = Cardinality(present)
      /\ Cardinality(present) \in Nat
  BY <1>1, <1>2, SortedFacts
<1>4. all \in Seq(Ids) /\ Len(all) \in 0 .. Count
  <2> HIDE DEF all
  <2>1. all \in Seq(Ids)
    BY <1>1, <1>3, SeqMonotonic
  <2> QED  BY <1>2, <1>3, <2>1
<1> QED  BY <1>2, <1>4

\* Lemma: what a query leaves.
LEMMA QueryFacts ==
  ASSUME ScreenTypes, descending' \in BOOLEAN, NEW start \in Nat,
         Query(start, start + height)
  PROVE  /\ rows' \in Seq(Ids) /\ \E h \in Heights : Len(rows') <= h
         /\ total' \in 0 .. Count
         /\ fetched' = present /\ fetched' \subseteq Ids
<1>1. height \in Heights /\ height \in Nat
  BY TuiAssumption DEF ScreenTypes
<1> DEFINE all == Sorted(present, descending')
<1>2. all \in Seq(Ids) /\ Len(all) \in 0 .. Count
  BY AllRows
<1>3. rows' = Slice(all, start, start + height) /\ total' = Len(all) /\ fetched' = present
  BY DEF Query
<1> HIDE DEF all
<1>4. rows' \in Seq(Ids) /\ Len(rows') <= height
  <2> DEFINE end == start + height
  <2>1. end \in Nat /\ start <= end /\ end - start = height
    BY <1>1
  <2>2. rows' = Slice(all, start, end)
    BY <1>3
  <2> HIDE DEF end
  <2>3. rows' \in Seq(Ids) /\ Len(rows') <= end - start
    BY <1>2, <2>1, <2>2, SliceFacts
  <2> QED  BY <2>1, <2>3
<1> QED  BY <1>1, <1>2, <1>3, <1>4 DEF ScreenTypes

\* Lemma: clamped positions are positions.
LEMMA ClampFacts ==
  ASSUME NEW n \in Nat, NEW sel \in Nat, NEW scr \in Nat, NEW h \in Nat
  PROVE  /\ ClampSelected(n, sel) \in 0 .. n
         /\ ClampScroll(n, sel, scr, h) \in 0 .. n
BY DEF ClampSelected, ClampScroll, Least, SatSub

\* Lemma: a re-queried window is a window, whatever positions were asked for.
LEMMA RequeryFacts ==
  ASSUME ScreenTypes, descending' \in BOOLEAN,
         NEW sel \in Nat, NEW scr \in Nat, Requery(sel, scr)
  PROVE  WindowTypes' /\ fetched' = present
<1>1. height \in Nat /\ Count \in Nat
  BY AllRows, TuiAssumption DEF ScreenTypes
<1>2. /\ rows' \in Seq(Ids) /\ \E h \in Heights : Len(rows') <= h
      /\ total' \in 0 .. Count
      /\ fetched' = present /\ fetched' \subseteq Ids
  BY QueryFacts DEF Requery
<1>3. selected' \in 0 .. total' /\ scroll' \in 0 .. total'
  BY <1>1, <1>2, ClampFacts DEF Requery
<1> QED  BY <1>1, <1>2, <1>3 DEF WindowTypes, Count

\* Lemma: what a movement leaves; in jump mode it only moves.
LEMMA MoveFacts ==
  ASSUME ScreenInv, descending' \in BOOLEAN,
         NEW sel \in 0 .. Count, NEW scr \in 0 .. Count, Move(sel, scr)
  PROVE  /\ WindowTypes'
         /\ fetched' \in {fetched, present}
         /\ jump.on => selected' = sel /\ scroll' = scr
<1>1. Count \in Nat
  BY AllRows DEF ScreenInv
<1>2. CASE jump.on
  BY <1>1, <1>2 DEF Move, window, ScreenInv, WindowTypes, Count
<1>3. CASE ~jump.on
  BY <1>1, <1>3, RequeryFacts DEF Move, ScreenInv
<1> QED  BY <1>2, <1>3

\* Lemma: outside a rebuild, a fetch or none leaves the window as watched as it was.
LEMMA WatchKept ==
  ASSUME ScreenInv, revision' = revision, present' = present,
         lastRevision' = lastRevision, raced' = raced, fetched' \in {fetched, present},
         pc \notin {"query", "revision"}, pc' \notin {"refresh", "query", "revision"}
  PROVE  WatchInv'
BY DEF ScreenInv, ScreenTypes, WatchInv
--------------------------------------------------------------------------------
\* Lemma: the table starts watched.
LEMMA ScreenStarts == TableInit => ScreenInv
<1> SUFFICES ASSUME TableInit PROVE ScreenInv
  OBVIOUS
<1>1. present \in SUBSET Ids /\ IsFiniteSet(present) /\ Cardinality(present) \in Nat
      /\ Cardinality(present) <= Count /\ Count \in Nat /\ height \in Nat
  BY FS_Subset, FS_CardinalityType, TuiAssumption DEF TableInit, Count
<1>2. revision = Cardinality(present) /\ total = Cardinality(present)
  BY DEF TableInit
<1>3. ScreenTypes
  BY <1>1, <1>2, TuiAssumption DEF TableInit, ScreenTypes, Nothing
<1>4. ScreenFlags
  BY DEF TableInit, ScreenFlags
<1>5. WindowTypes
  <2>1. Sorted(present, FALSE) \in Seq(Ids)
    BY <1>3, AllRows
  <2>2. rows \in Seq(Ids) /\ Len(rows) <= height - 0
    <3> DEFINE all == Sorted(present, FALSE)
    <3>1. rows = Slice(all, 0, height) /\ all \in Seq(Ids)
      BY <2>1 DEF TableInit
    <3> HIDE DEF all
    <3> QED  BY <1>1, <3>1, SliceFacts
  <2>3. height \in Heights /\ Len(rows) <= height
    <3>1. height \in Heights
      BY DEF TableInit
    <3> QED  BY <1>1, <2>2, <3>1
  <2>4. total \in 0 .. Count /\ selected = 0 /\ scroll = 0 /\ fetched = present
    BY <1>1, <1>2 DEF TableInit
  <2> QED  BY <1>1, <2>2, <2>3, <2>4 DEF WindowTypes
<1>6. JumpInv
  BY <1>1 DEF TableInit, JumpInv, NoJump
<1>7. WatchInv
  BY <1>1, <1>2 DEF TableInit, WatchInv
<1> QED  BY <1>3, <1>4, <1>5, <1>6, <1>7 DEF ScreenInv
--------------------------------------------------------------------------------
\* Lemma: what happens at the top of the loop and at a frame moves nothing of the table.
LEMMA LoopKeeps ==
  ASSUME ScreenInv, LoopIdle \/ LoopChanged \/ Draw \/ NoKey
  PROVE  ScreenInv'
<1>1. /\ UNCHANGED <<view, present, revision, descending, rows, total, fetched, selected>>
      /\ UNCHANGED <<scroll, lastRevision, jump, palette, detail, raced, deltas>>
      /\ height' \in Heights
      /\ pc' \in {"loop", "refresh", "draw", "key"} /\ pc \notin {"query", "revision"}
      /\ seen' = IF pc' = "refresh" THEN revision ELSE seen
      /\ pc' = "refresh" => ~jump.on
  BY DEF LoopIdle, LoopChanged, Draw, NoKey, plane, window, viewport, Normal, ScreenInv,
         ScreenTypes
<1>2. ScreenTypes' /\ WindowTypes'
  BY <1>1 DEF ScreenInv, ScreenTypes, WindowTypes
<1>3. ScreenFlags'
  BY <1>1, Zenon DEF ScreenInv, ScreenFlags
<1>4. JumpInv'
  BY <1>1, Zenon DEF ScreenInv, JumpInv
<1>5. WatchInv'
  BY <1>1 DEF ScreenInv, ScreenTypes, WatchInv
<1> QED  BY <1>2, <1>3, <1>4, <1>5 DEF ScreenInv

\* Lemma: the window is fetched after the revision it is remembered under was read.
LEMMA RefreshKeeps ==
  ASSUME ScreenInv, Refresh PROVE ScreenInv'
<1>1. /\ UNCHANGED <<view, present, revision, descending, height, jump, palette, detail, deltas>>
      /\ pc = "refresh" /\ pc' = "draw" /\ lastRevision' = seen /\ raced' = FALSE /\ seen' = 0
      /\ Requery(selected, scroll)
  BY DEF Refresh, plane
<1>2. descending' \in BOOLEAN /\ selected \in Nat /\ scroll \in Nat
  BY <1>1, AllRows DEF ScreenInv, ScreenFlags, WindowTypes
<1>3. WindowTypes' /\ fetched' = present
  BY <1>1, <1>2, RequeryFacts DEF ScreenInv
<1>4. ScreenTypes'
  BY <1>1 DEF ScreenInv, ScreenTypes
<1>5. ScreenFlags'
  <2>1. raced' \in BOOLEAN
    BY <1>1
  <2> QED  BY <1>1, <2>1, Zenon DEF ScreenInv, ScreenFlags
<1>6. JumpInv'
  <2>1. ~jump.on
    BY <1>1 DEF ScreenInv, JumpInv
  <2> QED  BY <1>1, <2>1 DEF ScreenInv, JumpInv
<1>7. WatchInv'
  BY <1>1, <1>3 DEF ScreenInv, WatchInv
<1> QED  BY <1>3, <1>4, <1>5, <1>6, <1>7 DEF ScreenInv

\* Lemma: a movement keeps the selection in the frame of a jump list, and moves within the
\* table else.
LEMMA MovesKeep ==
  ASSUME ScreenInv, Down \/ Up \/ Top \/ Bottom \/ Sort
  PROVE  ScreenInv'
<1>1. /\ UNCHANGED <<view, present, revision, height, seen>>
      /\ UNCHANGED <<lastRevision, jump, palette, detail, raced, deltas>>
      /\ pc = "key" /\ pc' = "loop" /\ descending' \in BOOLEAN
  BY DEF Down, Up, Top, Bottom, Sort, Key, Still, plane, ScreenInv, ScreenFlags
<1>2. /\ Count \in Nat /\ height \in Nat /\ height > 0 /\ selected \in 0 .. Count
      /\ scroll \in 0 .. Count /\ ListLen \in 0 .. Count
      /\ jump.on => /\ ListLen = Len(jump.order) /\ scroll <= selected
                    /\ selected = 0 \/ selected < Len(jump.order)
  BY AllRows, TuiAssumption DEF ScreenInv, ScreenTypes, WindowTypes, JumpInv, ListLen
<1>3. \E sel \in 0 .. Count, scr \in 0 .. Count :
        /\ Move(sel, scr)
        /\ jump.on => scr <= sel /\ (sel = 0 \/ sel < Len(jump.order))
  <2> DEFINE n == ListLen
  <2>1. n \in 0 .. Count /\ (jump.on => n = Len(jump.order))
    BY <1>2
  <2> HIDE DEF n
  <2>2. CASE Down
    <3> DEFINE sel == Least(selected + 1, SatSub(n, 1))
               scr == IF sel >= scroll + height THEN SatSub(sel + 1, height) ELSE scroll
    <3>1. Move(sel, scr)
      BY <2>2 DEF Down, n
    <3>2. sel \in 0 .. Count /\ scr \in 0 .. Count
      BY <1>2, <2>1 DEF Least, SatSub
    <3>3. jump.on => scr <= sel /\ (sel = 0 \/ sel < Len(jump.order))
      BY <1>2, <2>1 DEF Least, SatSub
    <3> HIDE DEF sel, scr
    <3> QED  BY <3>1, <3>2, <3>3
  <2>3. CASE Up
    <3> DEFINE sel == SatSub(selected, 1)
               scr == Least(scroll, sel)
    <3>1. Move(sel, scr)
      BY <2>3 DEF Up
    <3>2. sel \in 0 .. Count /\ scr \in 0 .. Count
      BY <1>2 DEF Least, SatSub
    <3>3. jump.on => scr <= sel /\ (sel = 0 \/ sel < Len(jump.order))
      BY <1>2, <2>1 DEF Least, SatSub
    <3> HIDE DEF sel, scr
    <3> QED  BY <3>1, <3>2, <3>3
  <2>4. CASE Bottom
    <3> DEFINE sel == SatSub(n, 1)
               scr == SatSub(sel, height)
    <3>1. Move(sel, scr)
      BY <2>4 DEF Bottom, n
    <3>2. sel \in 0 .. Count /\ scr \in 0 .. Count
      BY <1>2, <2>1 DEF SatSub
    <3>3. jump.on => scr <= sel /\ (sel = 0 \/ sel < Len(jump.order))
      BY <1>2, <2>1 DEF SatSub
    <3> HIDE DEF sel, scr
    <3> QED  BY <3>1, <3>2, <3>3
  <2>5. CASE Top \/ Sort
    <3>1. Move(0, 0) /\ 0 \in 0 .. Count /\ 0 <= 0
      BY <1>2, <2>5 DEF Top, Sort
    <3> QED  BY <3>1
  <2> QED  BY <2>2, <2>3, <2>4, <2>5
<1>4. PICK sel \in 0 .. Count, scr \in 0 .. Count :
        /\ Move(sel, scr)
        /\ jump.on => scr <= sel /\ (sel = 0 \/ sel < Len(jump.order))
  BY <1>3
<1>5. /\ WindowTypes' /\ fetched' \in {fetched, present}
      /\ jump.on => selected' = sel /\ scroll' = scr
  BY <1>1, <1>4, MoveFacts
<1>6. ScreenTypes'
  BY <1>1 DEF ScreenInv, ScreenTypes
<1>7. ScreenFlags'
  BY <1>1, Zenon DEF ScreenInv, ScreenFlags
<1>8. JumpInv'
  BY <1>1, <1>4, <1>5 DEF ScreenInv, JumpInv
<1>9. WatchInv'
  BY <1>1, <1>5, WatchKept
<1> QED  BY <1>5, <1>6, <1>7, <1>8, <1>9 DEF ScreenInv

\* Lemma: a rebuild forgets what it knew of the plane, and knows of it again when the
\* revision after its query is the one before.
LEMMA RebuildsKeep ==
  ASSUME ScreenInv, NEW v \in View,
         Navigate(v) \/ PaletteNavigate(v)
  PROVE  ScreenInv'
<1>1. /\ UNCHANGED <<descending, rows, total, fetched, selected, scroll>>
      /\ UNCHANGED <<lastRevision, jump, palette, detail, deltas, height, seen>>
      /\ view' = v /\ present' \in Contents /\ revision' = Cardinality(present')
      /\ raced' \in BOOLEAN /\ (pc' = "query" \/ (pc' = "command" /\ raced' = TRUE))
  BY DEF Navigate, PaletteNavigate, Rebuilt, Key, plane, window, viewport, ScreenInv,
         ScreenFlags
<1>2. present' \subseteq Ids /\ revision' \in Nat
  <2>1. present' \in SUBSET Ids /\ IsFiniteSet(Ids)
    BY <1>1, TuiAssumption
  <2>2. Cardinality(present') \in Nat
    BY <2>1, FS_Subset, FS_CardinalityType
  <2> QED  BY <1>1, <2>1, <2>2
<1>3. ScreenTypes'
  BY <1>1, <1>2 DEF ScreenInv, ScreenTypes
<1>4. WindowTypes'
  BY <1>1 DEF ScreenInv, WindowTypes
<1>5. ScreenFlags' /\ JumpInv'
  BY <1>1, Zenon DEF ScreenInv, ScreenFlags, JumpInv
<1>6. WatchInv'
  BY <1>1 DEF WatchInv
<1> QED  BY <1>3, <1>4, <1>5, <1>6 DEF ScreenInv

\* Lemma: the two halves of a rebuild by a key, and the one of a palette command.
LEMMA FetchesKeep ==
  ASSUME ScreenInv, NavigateQuery \/ NavigateRevision \/ PaletteSort \/ PaletteQuery
  PROVE  ScreenInv'
<1>1. CASE NavigateQuery
  <2>1. /\ UNCHANGED <<view, present, revision, descending, height, lastRevision, jump>>
        /\ UNCHANGED <<palette, detail, raced, deltas>>
        /\ pc' = "revision" /\ selected' = 0 /\ scroll' = 0 /\ seen' = revision
    BY <1>1 DEF NavigateQuery, plane
  <2>2. height \in Nat /\ Count \in Nat /\ descending' \in BOOLEAN
    BY <2>1, AllRows, TuiAssumption DEF ScreenInv, ScreenTypes, ScreenFlags
  <2>3. Query(0, 0 + height)
    <3>1. 0 + height = height
      BY <2>2
    <3> QED  BY <1>1, <3>1 DEF NavigateQuery
  <2>4. /\ rows' \in Seq(Ids) /\ \E h \in Heights : Len(rows') <= h
        /\ total' \in 0 .. Count
        /\ fetched' = present /\ fetched' \subseteq Ids
    BY <2>2, <2>3, QueryFacts DEF ScreenInv
  <2>5. WindowTypes'
    BY <2>1, <2>2, <2>4 DEF WindowTypes, Count
  <2>6. ScreenTypes'
    BY <2>1 DEF ScreenInv, ScreenTypes
  <2>7. ScreenFlags'
    BY <2>1, Zenon DEF ScreenInv, ScreenFlags
  <2>8. JumpInv'
    BY <2>1 DEF ScreenInv, JumpInv
  <2>9. WatchInv'
    BY <2>1, <2>4 DEF ScreenInv, ScreenTypes, WatchInv
  <2> QED  BY <2>5, <2>6, <2>7, <2>8, <2>9 DEF ScreenInv
<1>2. CASE NavigateRevision
  <2>1. /\ UNCHANGED <<view, present, revision, descending, rows, total, fetched, selected>>
        /\ UNCHANGED <<scroll, height, jump, palette, deltas>>
        /\ pc = "revision" /\ pc' = "loop" /\ lastRevision' = revision
        /\ raced' = (revision # seen) /\ seen' = 0 /\ detail'.id = -1
    BY <1>2 DEF NavigateRevision, plane, window, viewport, Nothing
  <2>2. ScreenTypes'
    BY <2>1 DEF ScreenInv, ScreenTypes
  <2>3. WindowTypes'
    BY <2>1 DEF ScreenInv, WindowTypes
  <2>4. JumpInv'
    BY <2>1, Zenon DEF ScreenInv, JumpInv
  <2>5. ScreenFlags'
    <3>1. raced' \in BOOLEAN
      BY <2>1
    <3> QED  BY <2>1, <3>1, Zenon DEF ScreenInv, ScreenFlags
  <2>6. WatchInv'
    BY <2>1 DEF ScreenInv, ScreenTypes, WatchInv
  <2> QED  BY <2>2, <2>3, <2>4, <2>5, <2>6 DEF ScreenInv
<1>3. CASE PaletteSort
  <2>1. /\ UNCHANGED <<view, present, revision, rows, total, fetched, selected, scroll>>
        /\ UNCHANGED <<height, seen, lastRevision, jump, palette, detail, raced, deltas>>
        /\ descending' \in BOOLEAN /\ pc = "key" /\ pc' = "command"
    BY <1>3 DEF PaletteSort, plane, window, viewport, Key
  <2>2. ScreenTypes' /\ WindowTypes'
    BY <2>1 DEF ScreenInv, ScreenTypes, WindowTypes
  <2>3. ScreenFlags' /\ JumpInv'
    BY <2>1, Zenon DEF ScreenInv, ScreenFlags, JumpInv
  <2>4. WatchInv'
    BY <2>1, WatchKept
  <2> QED  BY <2>2, <2>3, <2>4 DEF ScreenInv
<1>4. CASE PaletteQuery
  <2>1. /\ UNCHANGED <<view, present, revision, descending, total, height, lastRevision>>
        /\ UNCHANGED <<jump, seen, raced, deltas>>
        /\ rows' = Slice(Sorted(present, descending), 0, height)
        /\ pc = "command" /\ pc' = "loop" /\ fetched' = present /\ selected' = 0
        /\ scroll' = 0 /\ detail'.id = -1 /\ palette' = FALSE
    BY <1>4 DEF PaletteQuery, plane, Nothing
  <2>2. height \in Nat /\ height \in Heights /\ descending \in BOOLEAN
    BY TuiAssumption DEF ScreenInv, ScreenTypes, ScreenFlags
  <2>3. rows' \in Seq(Ids) /\ \E h \in Heights : Len(rows') <= h
    <3> DEFINE all == Sorted(present, descending)
    <3>1. all \in Seq(Ids)
      BY <2>2, AllRows DEF ScreenInv
    <3>2. rows' = Slice(all, 0, height)
      BY <2>1
    <3> HIDE DEF all
    <3>3. rows' \in Seq(Ids) /\ Len(rows') <= height - 0
      BY <2>2, <3>1, <3>2, SliceFacts
    <3> QED  BY <2>2, <3>3
  <2>4. WindowTypes'
    <3>1. Count \in Nat
      BY AllRows DEF ScreenInv, ScreenFlags
    <3> QED  BY <2>1, <2>3, <3>1 DEF ScreenInv, ScreenTypes, WindowTypes, Count
  <2>5. ScreenTypes'
    BY <2>1 DEF ScreenInv, ScreenTypes
  <2>6. ScreenFlags'
    BY <2>1, Zenon DEF ScreenInv, ScreenFlags
  <2>7. JumpInv'
    BY <2>1 DEF ScreenInv, JumpInv
  <2>8. WatchInv'
    BY <2>1, WatchKept
  <2> QED  BY <2>4, <2>5, <2>6, <2>7, <2>8 DEF ScreenInv
<1> QED  BY <1>1, <1>2, <1>3, <1>4
--------------------------------------------------------------------------------
\* Lemma: the row a key acts on is a row.
LEMMA TargetFacts ==
  ASSUME ScreenInv
  PROVE  Target.id \in Ids \union {-1}
<1>1. CASE jump.on
  <2>1. CASE selected + 1 \in DOMAIN jump.order
    <3>1. jump.order[selected + 1] \in DOMAIN jump.master
      BY <2>1 DEF ScreenInv, JumpInv
    <3>2. jump.master[jump.order[selected + 1]] \in Ids
      BY <3>1 DEF ScreenInv, JumpInv
    <3> QED  BY <1>1, <2>1, <3>2 DEF Target, RowOf
  <2>2. CASE selected + 1 \notin DOMAIN jump.order
    BY <1>1, <2>2 DEF Target, Nothing
  <2> QED  BY <2>1, <2>2
<1>2. CASE ~jump.on
  BY <1>2 DEF Target, Nothing, RowOf, ScreenInv, WindowTypes
<1> QED  BY <1>1, <1>2

\* Lemma: a key that acts on a row, or a palette command that does, moves nothing.
LEMMA ActsKeep ==
  ASSUME ScreenInv, Act \/ PaletteAct
  PROVE  ScreenInv'
<1>1. /\ UNCHANGED <<view, present, revision, descending, rows, total, fetched, selected>>
      /\ UNCHANGED <<scroll, height, seen, lastRevision, jump, raced, deltas>>
      /\ palette' \in {palette, FALSE} /\ pc = "key" /\ pc' = "loop"
  BY DEF Act, PaletteAct, Key, plane, window, viewport
<1>2. detail'.id \in Ids \union {-1}
  <2>1. CASE Act
    BY <2>1, TargetFacts DEF Act, Nothing
  <2>2. CASE PaletteAct
    BY <2>2 DEF PaletteAct, Nothing, RowOf, ScreenInv, WindowTypes
  <2> QED  BY <2>1, <2>2
<1>3. ScreenTypes' /\ WindowTypes'
  BY <1>1, <1>2 DEF ScreenInv, ScreenTypes, WindowTypes
<1>4. ScreenFlags'
  <2>1. palette' \in BOOLEAN
    BY <1>1, Zenon DEF ScreenInv, ScreenFlags
  <2> QED  BY <1>1, <2>1, Zenon DEF ScreenInv, ScreenFlags
<1>5. JumpInv'
  <2>1. jump.on => ~palette'
    BY <1>1 DEF ScreenInv, JumpInv
  <2> QED  BY <1>1, <2>1 DEF ScreenInv, JumpInv
<1>6. WatchInv'
  BY <1>1, WatchKept
<1> QED  BY <1>3, <1>4, <1>5, <1>6 DEF ScreenInv

\* Lemma: the palette opens over the table only, and closes.
LEMMA PalettesKeep ==
  ASSUME ScreenInv, OpenPalette \/ ClosePalette
  PROVE  ScreenInv'
<1>1. /\ UNCHANGED <<view, present, revision, descending, rows, total, fetched, selected>>
      /\ UNCHANGED <<scroll, height, seen, lastRevision, jump, detail, raced, deltas>>
      /\ pc = "key" /\ pc' = "loop" /\ palette' \in BOOLEAN
      /\ palette' => ~jump.on
  BY DEF OpenPalette, ClosePalette, Normal, Key, plane, window, viewport
<1>2. ScreenTypes' /\ WindowTypes'
  BY <1>1 DEF ScreenInv, ScreenTypes, WindowTypes
<1>3. ScreenFlags'
  BY <1>1, Zenon DEF ScreenInv, ScreenFlags
<1>4. JumpInv'
  BY <1>1 DEF ScreenInv, JumpInv
<1>5. WatchInv'
  BY <1>1, WatchKept
<1> QED  BY <1>2, <1>3, <1>4, <1>5 DEF ScreenInv

\* Lemma: a change of the plane moves its revision past every one that was read.
LEMMA DeltasKeep ==
  ASSUME ScreenInv, NEW id \in Ids, Delta(id)
  PROVE  ScreenInv'
<1>1. /\ UNCHANGED <<view, descending, rows, total, fetched, selected, scroll, height>>
      /\ UNCHANGED <<lastRevision, jump, palette, detail, pc, seen, raced>>
      /\ revision' = revision + 1 /\ deltas < MaxDeltas /\ deltas' = deltas + 1
      /\ present' = IF id \in present THEN present \ {id} ELSE present \union {id}
  BY DEF Delta, window, viewport
<1>2. ScreenTypes'
  BY <1>1, TuiAssumption DEF ScreenInv, ScreenTypes
<1>3. WindowTypes'
  BY <1>1 DEF ScreenInv, WindowTypes
<1>4. ScreenFlags'
  BY <1>1, Zenon DEF ScreenInv, ScreenFlags
<1>5. JumpInv'
  BY <1>1, Zenon DEF ScreenInv, JumpInv
<1>6. WatchInv'
  BY <1>1 DEF ScreenInv, ScreenTypes, WatchInv
<1> QED  BY <1>2, <1>3, <1>4, <1>5, <1>6 DEF ScreenInv

\* Lemma: a nonempty set of numbers has a least.
LEMMA HasLeast ==
  ASSUME NEW S \in SUBSET Nat, S # {}
  PROVE  (CHOOSE k \in S : \A j \in S : k <= j) \in S
<1>1. \E k \in S : \A j \in S : ~(<<j, k>> \in OpToRel(<, Nat))
  BY NatLessThanWellFounded, WFMin
<1>2. \A j, k \in S : ~(<<j, k>> \in OpToRel(<, Nat)) => k <= j
  BY DEF OpToRel
<1>3. \E k \in S : \A j \in S : k <= j
  BY <1>1, <1>2
<1> QED  BY <1>3

\* Lemma: a jump list opens with every row of the plane, in order.
LEMMA OpenJumpKeeps ==
  ASSUME ScreenInv, OpenJump
  PROVE  ScreenInv'
<1> DEFINE all == Sorted(present, descending)
<1>1. all \in Seq(Ids) /\ Len(all) \in 0 .. Count /\ Count \in Nat
  BY AllRows DEF ScreenInv, ScreenFlags
<1>2. /\ jump' = [on |-> TRUE, master |-> all, of |-> {view},
                  order |-> [k \in DOMAIN all |-> k]]
      /\ total' = Len(all)
  BY DEF OpenJump
<1> HIDE DEF all
<1>3. /\ UNCHANGED <<view, present, revision, descending, rows, fetched, height, seen>>
      /\ UNCHANGED <<lastRevision, palette, detail, raced, deltas>>
      /\ pc = "key" /\ pc' = "loop" /\ ~palette /\ selected' = 0 /\ scroll' = 0
  BY DEF OpenJump, Key, plane
<1>4. ScreenTypes'
  BY <1>3 DEF ScreenInv, ScreenTypes
<1>5. WindowTypes'
  BY <1>1, <1>2, <1>3 DEF ScreenInv, WindowTypes, Count
<1>6. ScreenFlags'
  BY <1>3, Zenon DEF ScreenInv, ScreenFlags
<1>7. JumpInv'
  <2> DEFINE n == Len(all)
             order == [k \in 1 .. n |-> k]
  <2>1. n \in Nat /\ DOMAIN all = 1 .. n
    BY <1>1
  <2>2. jump' = [on |-> TRUE, master |-> all, of |-> {view}, order |-> order]
    BY <1>2, <2>1
  <2>3. order \in Seq(Nat) /\ Len(order) = n /\ \A k \in DOMAIN order : order[k] \in 1 .. n
    <3> HIDE DEF n
    <3>1. order \in [1 .. n -> Nat]
      OBVIOUS
    <3> QED  BY <2>1, <3>1
  <2> HIDE DEF order
  <2>4. view \in View
    BY DEF ScreenInv, ScreenTypes
  <2>5. jump' \in [on : BOOLEAN, master : Seq(Ids), of : SUBSET View, order : Seq(Nat)]
    BY <1>1, <2>2, <2>3, <2>4
  <2> QED  BY <1>1, <1>3, <2>1, <2>2, <2>3, <2>5 DEF JumpInv, Count
<1>8. WatchInv'
  BY <1>3, WatchKept
<1> QED  BY <1>4, <1>5, <1>6, <1>7, <1>8 DEF ScreenInv

\* Lemma: a typed character ranks some of the rows again, none of them twice.
LEMMA ReranksKeep ==
  ASSUME ScreenInv, Rerank
  PROVE  ScreenInv'
<1>1. /\ UNCHANGED <<view, present, revision, descending, rows, total, fetched, height>>
      /\ UNCHANGED <<seen, lastRevision, palette, detail, raced, deltas>>
      /\ pc = "key" /\ pc' = "loop" /\ ~palette /\ selected' = 0 /\ scroll' = 0
  BY DEF Rerank, Key, plane, window
<1>2. PICK S \in SUBSET DOMAIN jump.master, best \in BOOLEAN :
        jump' = [jump EXCEPT !.order = Sorted(S, best)]
  BY DEF Rerank
<1> DEFINE order == Sorted(S, best)
           n == Len(jump.master)
<1>3. n \in 0 .. Count /\ Count \in Nat /\ DOMAIN jump.master = 1 .. n
  BY AllRows DEF ScreenInv, ScreenFlags, JumpInv
<1>4. IsFiniteSet(1 .. n) /\ Cardinality(1 .. n) = n
  <2> HIDE DEF n
  <2>1. n \in Nat /\ n \in Int /\ 1 \in Int
    BY <1>3
  <2>2. IsFiniteSet(1 .. n) /\ Cardinality(1 .. n) = IF 1 > n THEN 0 ELSE n - 1 + 1
    BY <2>1, FS_Interval
  <2> QED  BY <2>1, <2>2
<1>5. S \in SUBSET (1 .. n) /\ S \in SUBSET Nat /\ IsFiniteSet(S) /\ Cardinality(S) <= n
  <2>1. S \in SUBSET (1 .. n)
    BY <1>3
  <2> HIDE DEF n
  <2> QED  BY <1>3, <1>4, <2>1, FS_Subset
<1>6. order \in Seq(S) /\ Len(order) = Cardinality(S) /\ Cardinality(S) \in Nat
  BY <1>5, SortedFacts
<1> HIDE DEF order
<1>7. order \in Seq(Nat) /\ Len(order) <= Count /\ \A k \in DOMAIN order : order[k] \in 1 .. n
  <2>1. order \in Seq(Nat)
    BY <1>5, <1>6, SeqMonotonic
  <2>2. \A k \in DOMAIN order : order[k] \in S
    BY <1>6
  <2> HIDE DEF n
  <2> QED  BY <1>3, <1>5, <1>6, <2>1, <2>2
<1>8. jump' = [jump EXCEPT !.order = order]
  BY <1>2 DEF order
<1>9. JumpInv'
  <2>1. jump \in [on : BOOLEAN, master : Seq(Ids), of : SUBSET View, order : Seq(Nat)]
    BY DEF ScreenInv, JumpInv
  <2>2. /\ jump'.master = jump.master /\ jump'.order = order
        /\ jump' \in [on : BOOLEAN, master : Seq(Ids), of : SUBSET View, order : Seq(Nat)]
    BY <1>7, <1>8, <2>1
  <2> QED  BY <1>1, <1>3, <1>7, <2>2 DEF JumpInv, Count
<1>10. ScreenTypes'
  BY <1>1 DEF ScreenInv, ScreenTypes
<1>11. WindowTypes'
  BY <1>1, <1>3 DEF ScreenInv, WindowTypes, Count
<1>12. ScreenFlags'
  BY <1>1, Zenon DEF ScreenInv, ScreenFlags
<1>13. WatchInv'
  BY <1>1, WatchKept
<1> QED  BY <1>9, <1>10, <1>11, <1>12, <1>13 DEF ScreenInv

\* Lemma: the jump list closes, and the window is fetched anew.
LEMMA JumpsEnd ==
  ASSUME ScreenInv, CancelJump \/ AcceptNone \/ AcceptWindow
  PROVE  ScreenInv'
<1>1. /\ UNCHANGED <<view, present, revision, descending, height, scroll, seen>>
      /\ UNCHANGED <<lastRevision, palette, detail, raced, deltas>>
      /\ pc \in {"key", "window"} /\ pc' = "loop"
  BY DEF CancelJump, AcceptNone, AcceptWindow, Key, plane, window, viewport
<1>2. height \in Nat /\ Count \in Nat /\ scroll \in 0 .. Count /\ selected \in 0 .. Count
  BY AllRows, TuiAssumption DEF ScreenInv, ScreenTypes, ScreenFlags, WindowTypes
<1>3. /\ rows' \in Seq(Ids) /\ \E h \in Heights : Len(rows') <= h
      /\ total' \in 0 .. Count
      /\ fetched' \in {fetched, present} /\ fetched' \subseteq Ids
  <2>1. CASE CancelJump \/ AcceptWindow
    <3>1. Query(scroll, scroll + height)
      BY <2>1 DEF CancelJump, AcceptWindow
    <3>2. descending' \in BOOLEAN
      BY <1>1, Zenon DEF ScreenInv, ScreenFlags
    <3> QED  BY <1>2, <3>1, <3>2, QueryFacts DEF ScreenInv
  <2>2. CASE AcceptNone
    BY <2>2 DEF AcceptNone, window, ScreenInv, WindowTypes
  <2> QED  BY <2>1, <2>2
<1>4. selected' \in 0 .. Count
  <2>1. CASE CancelJump
    <3>1. selected' = Least(selected, SatSub(total', 1))
      BY <2>1 DEF CancelJump
    <3>2. total' \in 0 .. Count
      BY <1>3
    <3>3. ASSUME NEW n \in Nat, NEW a \in 0 .. n, NEW b \in 0 .. n
          PROVE  Least(a, SatSub(b, 1)) \in 0 .. n
      BY DEF Least, SatSub
    <3> QED  BY <1>2, <3>1, <3>2, <3>3
  <2>2. CASE ~CancelJump
    <3>1. UNCHANGED selected
      BY <2>2 DEF AcceptNone, AcceptWindow, viewport
    <3> QED  BY <1>2, <3>1
  <2> QED  BY <2>1, <2>2
<1>5. WindowTypes'
  BY <1>1, <1>2, <1>3, <1>4 DEF WindowTypes, Count
<1>6. ScreenTypes'
  BY <1>1 DEF ScreenInv, ScreenTypes
<1>7. ScreenFlags'
  BY <1>1, Zenon DEF ScreenInv, ScreenFlags
<1>8. JumpInv'
  <2>1. CASE jump' = NoJump
    BY <1>1, <1>2, <2>1 DEF JumpInv, NoJump, Count
  <2>2. CASE jump' # NoJump
    <3>1. AcceptWindow
      BY <2>2 DEF CancelJump, AcceptNone
    <3>2. jump' = jump /\ selected' = selected
      BY <3>1 DEF AcceptWindow, viewport
    <3> QED  BY <1>1, <3>2 DEF ScreenInv, JumpInv
  <2> QED  BY <2>1, <2>2
<1>9. WatchInv'
  BY <1>1, <1>3, WatchKept
<1> QED  BY <1>5, <1>6, <1>7, <1>8, <1>9 DEF ScreenInv

\* Lemma: Enter selects a place of the plane's rows, wherever the row of the name is now.
LEMMA AcceptsKeep ==
  ASSUME ScreenInv, AcceptJump
  PROVE  ScreenInv'
<1> DEFINE full == Sorted(present, descending)
           same == {k \in DOMAIN full : Name[full[k]] = Name[Target.id]}
           first == CHOOSE k \in same : \A j \in same : k <= j
<1>1. full \in Seq(Ids) /\ Len(full) \in 0 .. Count /\ Count \in Nat
  BY AllRows DEF ScreenInv, ScreenFlags
<1>2. /\ total' = Len(full)
      /\ selected' = IF same = {} THEN selected ELSE first - 1
      /\ scroll' = ClampScroll(total', selected', 0, height)
  BY DEF AcceptJump
<1>3. same \subseteq DOMAIN full
  OBVIOUS
<1> HIDE DEF full
<1>4. same \in SUBSET (1 .. Len(full)) /\ same \in SUBSET Nat
  BY <1>1, <1>3
<1> HIDE DEF same
<1>5. same # {} => first \in same
  BY <1>4, HasLeast
<1> HIDE DEF first
<1>6. total' \in 0 .. Count /\ selected' \in 0 .. Count /\ selected' \in Nat /\ total' \in Nat
  <2>1. selected \in 0 .. Count
    BY DEF ScreenInv, WindowTypes
  <2>2. same # {} => first \in 1 .. Len(full)
    BY <1>4, <1>5
  <2> QED  BY <1>1, <1>2, <2>1, <2>2
<1>7. scroll' \in 0 .. Count
  <2>1. height \in Nat
    BY TuiAssumption DEF ScreenInv, ScreenTypes
  <2>2. scroll' \in 0 .. total'
    BY <1>2, <1>6, <2>1, ClampFacts
  <2> QED  BY <1>1, <1>6, <2>2
<1>8. /\ UNCHANGED <<view, present, revision, descending, rows, fetched, height, seen>>
      /\ UNCHANGED <<lastRevision, palette, detail, raced, deltas>>
      /\ pc = "key" /\ pc' = "window" /\ jump' = NoJump
  BY DEF AcceptJump, Key, plane
<1>9. ScreenTypes'
  BY <1>8 DEF ScreenInv, ScreenTypes
<1>10. WindowTypes'
  BY <1>1, <1>6, <1>7, <1>8 DEF ScreenInv, WindowTypes, Count
<1>11. ScreenFlags'
  BY <1>8, Zenon DEF ScreenInv, ScreenFlags
<1>12. JumpInv'
  BY <1>1, <1>8 DEF JumpInv, NoJump, Count
<1>13. WatchInv'
  BY <1>8, WatchKept
<1> QED  BY <1>9, <1>10, <1>11, <1>12, <1>13 DEF ScreenInv
--------------------------------------------------------------------------------
\* Lemma: each step of the table keeps ScreenInv; a row more or less on the terminal, a row
\* more or less of the plane, and what a key does are steps like the others.
LEMMA ScreenStep ==
  ASSUME ScreenInv, [TableNext]_tableVars
  PROVE  ScreenInv'
<1>1. CASE LoopIdle \/ LoopChanged \/ Draw \/ NoKey
  BY <1>1, LoopKeeps
<1>2. CASE Refresh
  BY <1>2, RefreshKeeps
<1>3. CASE Down \/ Up \/ Top \/ Bottom \/ Sort
  BY <1>3, MovesKeep
<1>4. CASE \E v \in View : Navigate(v) \/ PaletteNavigate(v)
  BY <1>4, RebuildsKeep
<1>5. CASE NavigateQuery \/ NavigateRevision \/ PaletteSort \/ PaletteQuery
  BY <1>5, FetchesKeep
<1>6. CASE Act \/ PaletteAct
  BY <1>6, ActsKeep
<1>7. CASE OpenPalette \/ ClosePalette
  BY <1>7, PalettesKeep
<1>8. CASE \E id \in Ids : Delta(id)
  BY <1>8, DeltasKeep
<1>9. CASE OpenJump
  BY <1>9, OpenJumpKeeps
<1>10. CASE Rerank
  BY <1>10, ReranksKeep
<1>11. CASE CancelJump \/ AcceptNone \/ AcceptWindow
  BY <1>11, JumpsEnd
<1>12. CASE AcceptJump
  BY <1>12, AcceptsKeep
<1>13. CASE UNCHANGED tableVars
  <2>1. /\ UNCHANGED <<view, present, revision, descending, rows, total, fetched, selected>>
        /\ UNCHANGED <<scroll, height, lastRevision, jump, palette, detail, pc, seen>>
        /\ UNCHANGED <<raced, deltas>>
    BY <1>13 DEF tableVars, plane, window, viewport
  <2>2. ScreenTypes' /\ WindowTypes' /\ WatchInv'
    BY <2>1 DEF ScreenInv, ScreenTypes, WindowTypes, WatchInv
  <2>3. ScreenFlags'
    BY <2>1, Zenon DEF ScreenInv, ScreenFlags
  <2>4. JumpInv'
    BY <2>1, Zenon DEF ScreenInv, JumpInv
  <2> QED  BY <2>2, <2>3, <2>4 DEF ScreenInv
<1> QED
  BY <1>1, <1>2, <1>3, <1>4, <1>5, <1>6, <1>7, <1>8, <1>9, <1>10, <1>11, <1>12, <1>13
  DEF TableNext

\* Lemma: the table always keeps ScreenInv.
LEMMA ScreenAlways == TableSpec => []ScreenInv
<1>1. TableInit => ScreenInv
  BY ScreenStarts
<1>2. ScreenInv /\ [TableNext]_tableVars => ScreenInv'
  BY ScreenStep
<1> QED  BY <1>1, <1>2, PTL DEF TableSpec

\* Lemma: ScreenInv says what the loop relies on.
LEMMA ScreenMeans == ASSUME ScreenInv PROVE WindowIsWatched
<1>1. Cardinality(Ids) = Count
  BY DEF Count
<1>2. Range(jump.order) \subseteq DOMAIN jump.master
  BY DEF Range, ScreenInv, JumpInv
<1>3. descending \in BOOLEAN /\ palette \in BOOLEAN /\ raced \in BOOLEAN
  BY Zenon DEF ScreenInv, ScreenFlags
<1>4. /\ rows \in Seq(Ids) /\ \E h \in Heights : Len(rows) <= h
      /\ total \in 0 .. Count /\ selected \in 0 .. Count /\ scroll \in 0 .. Count
      /\ fetched \subseteq Ids
  BY DEF ScreenInv, WindowTypes
<1>5. /\ jump.on \in BOOLEAN /\ jump.master \in Seq(Ids) /\ jump.of \subseteq View
      /\ ~(palette /\ jump.on)
  BY DEF ScreenInv, JumpInv
<1>6. /\ view \in View /\ present \subseteq Ids /\ revision \in Nat
      /\ height \in Heights /\ lastRevision \in Nat /\ seen \in Nat
      /\ detail.id \in Ids \union {-1}
      /\ pc \in {"loop", "refresh", "draw", "key", "query", "revision", "window", "command"}
      /\ deltas \in 0 .. MaxDeltas
  BY DEF ScreenInv, ScreenTypes
<1>7. TableTypeOK
  BY <1>1, <1>2, <1>3, <1>4, <1>5, <1>6, Zenon DEF TableTypeOK
<1>8. UnseenDeltaIsNoticed
  BY DEF ScreenInv, WatchInv, UnseenDeltaIsNoticed, Normal
<1> QED  BY <1>7, <1>8 DEF WindowIsWatched

\* Theorem: what the loop of the TUI relies on between two keys, whatever moves, re-queries,
\* resizes and changes of the plane came before: the positions it keeps are positions of the
\* lists they index, and a change the table does not show is one the next look at the
\* revision notices.
THEOREM WindowIsAlwaysWatched == TableSpec => []WindowIsWatched
<1>1. ScreenInv => WindowIsWatched
  BY ScreenMeans
<1> QED  BY <1>1, ScreenAlways, PTL

\* Lemma: the row drawn in reverse video is the one a key acts on, as one of the kind on
\* screen.
LEMMA HighlightedIsTarget ==
  ASSUME ScreenInv, Highlighted # Nothing
  PROVE  /\ Highlighted.id = Target.id
         /\ ~JumpIsOfOldKind => Highlighted = Target
<1>1. height \in Nat /\ scroll \in Nat /\ selected \in Nat /\ scroll + height \in Nat
      /\ scroll <= scroll + height
  BY AllRows, TuiAssumption DEF ScreenInv, ScreenTypes, ScreenFlags, WindowTypes
<1> DEFINE k == SatSub(selected, scroll) + 1
<1>2. CASE ~jump.on
  BY <1>2 DEF Highlighted, Target
<1>3. CASE jump.on
  <2> DEFINE frame == Slice(jump.order, scroll, scroll + height)
  <2>1. scroll + k = selected + 1
    BY <1>1, <1>3 DEF SatSub, ScreenInv, JumpInv
  <2>2. /\ k \in DOMAIN frame
        /\ Highlighted = [of |-> {KindOf[v] : v \in jump.of}, id |-> jump.master[frame[k]]]
    BY <1>3 DEF Highlighted
  <2>3. jump.order \in Seq(Nat)
    BY DEF ScreenInv, JumpInv
  <2>4. frame[k] = jump.order[scroll + k] /\ scroll + k \in DOMAIN jump.order
    <3> DEFINE end == scroll + height
    <3>1. end \in Nat /\ scroll <= end /\ k \in DOMAIN Slice(jump.order, scroll, end)
      BY <1>1, <2>2
    <3> HIDE DEF end, k
    <3>2. /\ Slice(jump.order, scroll, end)[k] = jump.order[scroll + k]
          /\ scroll + k \in DOMAIN jump.order
      BY <1>1, <2>3, <3>1, SliceFacts
    <3> QED  BY <3>2 DEF end
  <2> HIDE DEF k, frame
  <2>5. Target = [of |-> {KindOf[view]}, id |-> jump.master[frame[k]]]
    BY <1>3, <2>1, <2>2, <2>4 DEF Target, RowOf
  <2> QED  BY <1>3, <2>2, <2>5 DEF JumpIsOfOldKind
<1> QED  BY <1>2, <1>3

\* Theorem: a key acts on the row the operator sees highlighted, in the table and in the
\* jump list: however the list was re-ranked, the window moved, or rows came and went, the
\* position the handler looks up and the one the frame drew are the same row.  Of a jump list
\* left over from another kind it takes that row's name.
THEOREM KeysActOnHighlighted == TableSpec => KeyActsOnHighlighted
<1>1. ScreenInv /\ [TableNext]_tableVars =>
        [(Act /\ detail' # Nothing /\ Highlighted # Nothing) =>
           /\ detail'.id = Highlighted.id
           /\ ~JumpIsOfOldKind => detail' = Highlighted]_tableVars
  <2> SUFFICES ASSUME ScreenInv, Act, detail' # Nothing, Highlighted # Nothing
               PROVE  /\ detail'.id = Highlighted.id
                      /\ ~JumpIsOfOldKind => detail' = Highlighted
    OBVIOUS
  <2>1. detail' = Target
    BY Zenon DEF Act
  <2> QED  BY <2>1, HighlightedIsTarget
<1> QED  BY <1>1, ScreenAlways, PTL DEF TableSpec, KeyActsOnHighlighted
--------------------------------------------------------------------------------
(***************************************************************************)
(* The port-forward tasks, for any clients and outages: the socket a task  *)
(* holds, and whose answers a client is sent.                              *)
(***************************************************************************)
\* Types, with the socket the task holds as the set of its clients.
ForwardTypes ==
  /\ kind \in {"plain", "named"}
  /\ serving \in {"check", "connect", "sleep", "accept", "copy", "stopped"}
  /\ cancel \in {"armed", "sent", "dropped"}
  /\ carried \subseteq Client /\ flight \subseteq Client
  /\ conn \in [Client -> {"none", "queued", "open", "closed"}]
  /\ asked \subseteq Client /\ unread \subseteq asked /\ left \subseteq Client
  /\ got \in [Client -> SUBSET Client]
  /\ outages \in 0 .. MaxOutages
  /\ kind = "plain" => cancel = "armed" /\ serving \notin {"check", "sleep"}

ForwardFlags == live \in BOOLEAN /\ podUp \in BOOLEAN

Holds == serving = "copy" \/ (kind = "plain" /\ serving = "connect")

\* The task holds one socket, from when it accepts it to when its copy ends; a stream of
\* `forward` carries what that client asked, and nothing between connections.
SocketInv ==
  /\ IF Holds THEN \E c \in Client : Served = {c} ELSE Served = {}
  /\ kind = "plain" => flight \subseteq Served
  /\ kind = "plain" /\ serving # "copy" => flight = {}
  /\ PlainAnswersOwn

ForwardInv == ForwardTypes /\ ForwardFlags /\ SocketInv

\* Lemma: the invariant says what the property says.
LEMMA ForwardMeans == ForwardInv => OneClientAtATime
<1> SUFFICES ASSUME ForwardInv PROVE OneClientAtATime
  OBVIOUS
<1>1. Cardinality(Served) = IF Holds THEN 1 ELSE 0
  BY FS_EmptySet, FS_Singleton DEF ForwardInv, SocketInv
<1>2. Cardinality(Served) =
        IF serving = "copy" \/ (kind = "plain" /\ serving = "connect") THEN 1 ELSE 0
  BY <1>1 DEF Holds
<1>3. live \in BOOLEAN /\ podUp \in BOOLEAN
  BY DEF ForwardInv, ForwardFlags
<1>4. ForwardTypeOK
  BY <1>2, <1>3 DEF ForwardInv, ForwardTypes, ForwardTypeOK
<1> QED  BY <1>4 DEF ForwardInv, SocketInv, OneClientAtATime

\* Lemma: a forward starts with no socket, and the stream of no client.
LEMMA ForwardStarts == ForwardInit => ForwardInv
<1> SUFFICES ASSUME ForwardInit PROVE ForwardInv
  OBVIOUS
<1> USE DEF ForwardInit, Holds
<1>1. Served = {}
  BY DEF Served
<1>2. ForwardTypes
  BY ForwardAssumption DEF ForwardTypes
<1>3. ForwardFlags
  BY DEF ForwardFlags
<1>4. SocketInv
  BY <1>1 DEF SocketInv, PlainAnswersOwn
<1> QED  BY <1>2, <1>3, <1>4 DEF ForwardInv

\* Lemma: every step of the serve task keeps the types and the socket.
LEMMA ServeKeeps ==
  ASSUME ForwardInv, Serve
  PROVE  ForwardInv'
<1> USE DEF Goto, Close, NoStream, task, stream, local, pod
<1>1. CASE Check
  <2>1. ForwardTypes'
    BY <1>1 DEF Check, ForwardInv, ForwardTypes
  <2>2. ForwardFlags'
    BY <1>1 DEF Check, ForwardInv, ForwardFlags
  <2>3. SocketInv'
    BY <1>1 DEF Check, ForwardInv, ForwardTypes, SocketInv, Holds, Served, PlainAnswersOwn
  <2> QED  BY <2>1, <2>2, <2>3 DEF ForwardInv
<1>2. CASE Connect
  <2>1. ForwardTypes'
    <3>1. Served \subseteq Client
      BY DEF Served
    <3> QED  BY <1>2, <3>1 DEF Connect, ForwardInv, ForwardTypes
  <2>2. ForwardFlags'
    BY <1>2 DEF Connect, ForwardInv, ForwardFlags
  <2>3. SocketInv'
    BY <1>2 DEF Connect, ForwardInv, ForwardTypes, SocketInv, Holds, Served, PlainAnswersOwn
  <2> QED  BY <2>1, <2>2, <2>3 DEF ForwardInv
<1>3. CASE ConnectFails
  <2>1. ForwardTypes'
    BY <1>3 DEF ConnectFails, ForwardInv, ForwardTypes
  <2>2. ForwardFlags'
    BY <1>3 DEF ConnectFails, ForwardInv, ForwardFlags
  <2>3. SocketInv'
    BY <1>3 DEF ConnectFails, ForwardInv, ForwardTypes, SocketInv, Holds, Served,
                PlainAnswersOwn
  <2> QED  BY <2>1, <2>2, <2>3 DEF ForwardInv
<1>4. CASE Wake
  <2>1. ForwardTypes'
    BY <1>4 DEF Wake, ForwardInv, ForwardTypes
  <2>2. ForwardFlags'
    BY <1>4 DEF Wake, ForwardInv, ForwardFlags
  <2>3. SocketInv'
    BY <1>4 DEF Wake, ForwardInv, ForwardTypes, SocketInv, Holds, Served, PlainAnswersOwn
  <2> QED  BY <2>1, <2>2, <2>3 DEF ForwardInv
<1>5. CASE Cancelled
  <2>1. ForwardTypes'
    BY <1>5 DEF Cancelled, ForwardInv, ForwardTypes
  <2>2. ForwardFlags'
    BY <1>5 DEF Cancelled, ForwardInv, ForwardFlags
  <2>3. SocketInv'
    BY <1>5 DEF Cancelled, ForwardInv, ForwardTypes, SocketInv, Holds, Served,
                PlainAnswersOwn
  <2> QED  BY <2>1, <2>2, <2>3 DEF ForwardInv
<1>6. CASE EndCopy
  <2>1. ForwardTypes'
    BY <1>6 DEF EndCopy, AfterConnection, ForwardInv, ForwardTypes
  <2>2. ForwardFlags'
    BY <1>6 DEF EndCopy, AfterConnection, ForwardInv, ForwardFlags
  <2>3. SocketInv'
    BY <1>6 DEF EndCopy, AfterConnection, ForwardInv, ForwardTypes, SocketInv, Holds,
                Served, PlainAnswersOwn
  <2> QED  BY <2>1, <2>2, <2>3 DEF ForwardInv
<1>7. ASSUME NEW c \in Client, Accept(c) PROVE ForwardInv'
  <2>1. ForwardTypes'
    BY <1>7 DEF Accept, ForwardInv, ForwardTypes
  <2>2. ForwardFlags'
    BY <1>7 DEF Accept, ForwardInv, ForwardFlags
  <2>3. SocketInv'
    BY <1>7 DEF Accept, ForwardInv, ForwardTypes, SocketInv, Holds, Served, PlainAnswersOwn
  <2> QED  BY <2>1, <2>2, <2>3 DEF ForwardInv
<1>8. ASSUME NEW c \in Client, CopyUp(c) PROVE ForwardInv'
  <2>1. ForwardTypes'
    BY <1>8 DEF CopyUp, ForwardInv, ForwardTypes
  <2>2. ForwardFlags'
    BY <1>8 DEF CopyUp, ForwardInv, ForwardFlags
  <2>3. SocketInv'
    BY <1>8 DEF CopyUp, ForwardInv, ForwardTypes, SocketInv, Holds, Served, PlainAnswersOwn
  <2> QED  BY <2>1, <2>2, <2>3 DEF ForwardInv
<1>9. ASSUME NEW c \in Client, CopyDown(c) PROVE ForwardInv'
  <2>1. ForwardTypes'
    BY <1>9 DEF CopyDown, ForwardInv, ForwardTypes
  <2>2. ForwardFlags'
    BY <1>9 DEF CopyDown, ForwardInv, ForwardFlags
  <2>3. SocketInv'
    BY <1>9 DEF CopyDown, ForwardInv, ForwardTypes, SocketInv, Holds, Served,
                PlainAnswersOwn
  <2> QED  BY <2>1, <2>2, <2>3 DEF ForwardInv
<1> QED  BY <1>1, <1>2, <1>3, <1>4, <1>5, <1>6, <1>7, <1>8, <1>9 DEF Serve

\* Lemma: clients, the pod and the holder of the channel disturb neither.
LEMMA EnvironmentKeeps ==
  ASSUME ForwardInv, Environment
  PROVE  ForwardInv'
<1> USE DEF Goto, Close, NoStream, task, stream, local, pod
<1>1. CASE AcceptFails
  <2>1. ForwardTypes'
    BY <1>1 DEF AcceptFails, ForwardInv, ForwardTypes
  <2>2. ForwardFlags'
    BY <1>1 DEF AcceptFails, ForwardInv, ForwardFlags
  <2>3. SocketInv'
    BY <1>1 DEF AcceptFails, ForwardInv, ForwardTypes, SocketInv, Holds, Served,
                PlainAnswersOwn
  <2> QED  BY <2>1, <2>2, <2>3 DEF ForwardInv
<1>2. CASE StreamDies
  <2>1. ForwardTypes'
    BY <1>2 DEF StreamDies, ForwardInv, ForwardTypes
  <2>2. ForwardFlags'
    BY <1>2 DEF StreamDies, ForwardInv, ForwardFlags
  <2>3. SocketInv'
    BY <1>2 DEF StreamDies, ForwardInv, ForwardTypes, SocketInv, Holds, Served,
                PlainAnswersOwn
  <2> QED  BY <2>1, <2>2, <2>3 DEF ForwardInv
<1>3. CASE PodGoes
  <2>1. ForwardTypes'
    BY <1>3, ForwardAssumption DEF PodGoes, ForwardInv, ForwardTypes
  <2>2. ForwardFlags'
    BY <1>3 DEF PodGoes, ForwardInv, ForwardFlags
  <2>3. SocketInv'
    BY <1>3 DEF PodGoes, ForwardInv, ForwardTypes, SocketInv, Holds, Served, PlainAnswersOwn
  <2> QED  BY <2>1, <2>2, <2>3 DEF ForwardInv
<1>4. CASE PodReturns
  <2>1. ForwardTypes'
    BY <1>4 DEF PodReturns, ForwardInv, ForwardTypes
  <2>2. ForwardFlags'
    BY <1>4 DEF PodReturns, ForwardInv, ForwardFlags
  <2>3. SocketInv'
    BY <1>4 DEF PodReturns, ForwardInv, ForwardTypes, SocketInv, Holds, Served,
                PlainAnswersOwn
  <2> QED  BY <2>1, <2>2, <2>3 DEF ForwardInv
<1>5. CASE Cancel
  <2>1. ForwardTypes'
    BY <1>5 DEF Cancel, ForwardInv, ForwardTypes
  <2>2. ForwardFlags'
    BY <1>5 DEF Cancel, ForwardInv, ForwardFlags
  <2>3. SocketInv'
    BY <1>5 DEF Cancel, ForwardInv, ForwardTypes, SocketInv, Holds, Served, PlainAnswersOwn
  <2> QED  BY <2>1, <2>2, <2>3 DEF ForwardInv
<1>6. ASSUME NEW c \in Client, Dial(c) PROVE ForwardInv'
  <2>1. ForwardTypes'
    BY <1>6 DEF Dial, ForwardInv, ForwardTypes
  <2>2. ForwardFlags'
    BY <1>6 DEF Dial, ForwardInv, ForwardFlags
  <2>3. SocketInv'
    BY <1>6 DEF Dial, ForwardInv, ForwardTypes, SocketInv, Holds, Served, PlainAnswersOwn
  <2> QED  BY <2>1, <2>2, <2>3 DEF ForwardInv
<1>7. ASSUME NEW c \in Client, Ask(c) PROVE ForwardInv'
  <2>1. ForwardTypes'
    BY <1>7 DEF Ask, ForwardInv, ForwardTypes
  <2>2. ForwardFlags'
    BY <1>7 DEF Ask, ForwardInv, ForwardFlags
  <2>3. SocketInv'
    BY <1>7 DEF Ask, ForwardInv, ForwardTypes, SocketInv, Holds, Served, PlainAnswersOwn
  <2> QED  BY <2>1, <2>2, <2>3 DEF ForwardInv
<1>8. ASSUME NEW c \in Client, Hangup(c) PROVE ForwardInv'
  <2>1. ForwardTypes'
    BY <1>8 DEF Hangup, ForwardInv, ForwardTypes
  <2>2. ForwardFlags'
    BY <1>8 DEF Hangup, ForwardInv, ForwardFlags
  <2>3. SocketInv'
    BY <1>8 DEF Hangup, ForwardInv, ForwardTypes, SocketInv, Holds, Served, PlainAnswersOwn
  <2> QED  BY <2>1, <2>2, <2>3 DEF ForwardInv
<1> QED  BY <1>1, <1>2, <1>3, <1>4, <1>5, <1>6, <1>7, <1>8 DEF Environment

THEOREM OneClientAlways == ForwardSpec => []OneClientAtATime
<1>1. ForwardInit => ForwardInv
  BY ForwardStarts
<1>2. ForwardInv /\ [ForwardNext]_forwardVars => ForwardInv'
  <2>1. ASSUME ForwardInv, UNCHANGED forwardVars PROVE ForwardInv'
    BY <2>1 DEF forwardVars, task, stream, local, pod, ForwardInv, ForwardTypes,
                ForwardFlags, SocketInv, Holds, Served, PlainAnswersOwn
  <2> QED  BY <2>1, ServeKeeps, EnvironmentKeeps DEF ForwardNext
<1>3. ForwardInv => OneClientAtATime
  BY ForwardMeans
<1> QED  BY <1>1, <1>2, <1>3, PTL DEF ForwardSpec
================================================================================
