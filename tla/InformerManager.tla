---------------------------- MODULE InformerManager ----------------------------
(***************************************************************************)
(* The informer lifecycle manager of kaptein-core (src/informer.rs): which *)
(* watch targets hold one of the session's bounded watch slots.            *)
(*                                                                         *)
(* Every public operation takes one mutex, so its locked part is one       *)
(* action.  `register` and `touch` read the clock BEFORE they lock, so a   *)
(* call is two steps: read the clock, then run under the lock.  Threads    *)
(* may therefore reach the lock in another order than they read the clock. *)
(***************************************************************************)
EXTENDS Integers, FiniteSets

CONSTANTS
  WatchKey,    \* watch targets: group/version/kind[/namespace]
  Caller,      \* threads calling the manager
  MaxCap,      \* bound on policy.max_watches
  MaxTtl,      \* bound on policy.idle_ttl
  MaxTime      \* bound on the clock

ASSUME ManagerAssumption ==
  /\ IsFiniteSet(WatchKey)
  /\ MaxCap \in Nat
  /\ MaxTtl \in Nat
  /\ MaxTime \in Nat

VARIABLES
  policy,      \* [max_watches, idle_ttl], fixed at construction
  watches,     \* last_touched of every live key, NotLive for the others
  now,         \* the monotonic clock
  call,        \* the operation each thread is in, with the clock it read
  reply        \* what the last operation of each thread returned

vars == <<policy, watches, now, call, reply>>
--------------------------------------------------------------------------------
NotLive == -1
Time    == 0 .. MaxTime
Policy  == [max_watches : 0 .. MaxCap, idle_ttl : 0 .. MaxTtl]

NoCall  == [op |-> "none"]
Timed   == [op : {"register", "touch"}, key : WatchKey, at : Time]
Reply   == {"none", "granted", "denied", "true", "false"}

Live(w) == {k \in WatchKey : w[k] # NotLive}
\* Defects for the mutation runs: `>` for `>=`, and one slot early.
Full_Late(w)  == Cardinality(Live(w)) > policy.max_watches
Full_Early(w) == Cardinality(Live(w)) + 1 >= policy.max_watches

Full(w) == Cardinality(Live(w)) >= policy.max_watches

\* Instant::duration_since saturates at zero.
Age(w, k, t)  == IF t >= w[k] THEN t - w[k] ELSE 0
Expired(w, t) == {k \in Live(w) : Age(w, k, t) >= policy.idle_ttl}

Without(w, S) == [k \in WatchKey |-> IF k \in S THEN NotLive ELSE w[k]]

\* evict_idle_locked: keep the entries younger than the TTL.
EvictIdleLocked(w, t) == Without(w, Expired(w, t))

\* Defect: max_by_key for min_by_key.
Coldest_Hottest(w) == {k \in Live(w) : \A j \in Live(w) : w[k] >= w[j]}

\* min_by_key over a HashMap: any entry with the smallest last_touched.
Coldest(w) == {k \in Live(w) : \A j \in Live(w) : w[k] <= w[j]}

\* The two eviction passes of `register` on a full table: idle entries first, then, if
\* the table is still full and not empty, one least-recently-used entry.
MakeRoom(w, t) ==
  LET fresh == EvictIdleLocked(w, t)
  IN IF Full(fresh) /\ Live(fresh) # {}
     THEN {Without(fresh, {k}) : k \in Coldest(fresh)}
     ELSE {fresh}
--------------------------------------------------------------------------------
TypeOK ==
  /\ policy  \in Policy
  /\ watches \in [WatchKey -> Time \union {NotLive}]
  /\ now     \in Time
  /\ call    \in [Caller -> Timed \union {NoCall}]
  /\ reply   \in [Caller -> Reply]

Init ==
  /\ policy  \in Policy
  /\ watches = [k \in WatchKey |-> NotLive]
  /\ now     = 0
  /\ call    = [c \in Caller |-> NoCall]
  /\ reply   = [c \in Caller |-> "none"]

Tick ==
  /\ now < MaxTime
  /\ now' = now + 1
  /\ UNCHANGED <<policy, watches, call, reply>>

Return(c, r) ==
  /\ call'  = [call EXCEPT ![c] = NoCall]
  /\ reply' = [reply EXCEPT ![c] = r]

\* `let now = Instant::now()`, before the lock.
ReadClock(c, op, k) ==
  /\ call[c] = NoCall
  /\ call'  = [call EXCEPT ![c] = [op |-> op, key |-> k, at |-> now]]
  /\ reply' = [reply EXCEPT ![c] = "none"]
  /\ UNCHANGED <<policy, watches, now>>

\* A live key is refreshed and granted: registering twice is idempotent.
RegisterLive(c) ==
  /\ call[c].op = "register"
  /\ call[c].key \in Live(watches)
  /\ watches' = [watches EXCEPT ![call[c].key] = call[c].at]
  /\ Return(c, "granted")
  /\ UNCHANGED <<policy, now>>

\* A new key: make room if the table is full, then insert.  A zero cap has nothing to
\* evict and denies.
RegisterNew(c) ==
  /\ call[c].op = "register"
  /\ call[c].key \notin Live(watches)
  /\ \E room \in (IF Full(watches) THEN MakeRoom(watches, call[c].at) ELSE {watches}) :
       IF policy.max_watches = 0
       THEN watches' = room /\ Return(c, "denied")
       ELSE /\ watches' = [room EXCEPT ![call[c].key] = call[c].at]
            /\ Return(c, "granted")
  /\ UNCHANGED <<policy, now>>

Touch(c) ==
  /\ call[c].op = "touch"
  /\ IF call[c].key \in Live(watches)
     THEN /\ watches' = [watches EXCEPT ![call[c].key] = call[c].at]
          /\ Return(c, "true")
     ELSE UNCHANGED watches /\ Return(c, "false")
  /\ UNCHANGED <<policy, now>>

\* `release` reads no clock: the whole call is the locked part.
Release(c, k) ==
  /\ call[c] = NoCall
  /\ watches' = Without(watches, {k})
  /\ Return(c, IF k \in Live(watches) THEN "true" ELSE "false")
  /\ UNCHANGED <<policy, now>>

\* `evict_idle(now)` is given its instant by the caller, who may pass a later one.
EvictIdle(c, t) ==
  /\ call[c] = NoCall
  /\ t >= now
  /\ watches' = EvictIdleLocked(watches, t)
  /\ Return(c, "none")
  /\ UNCHANGED <<policy, now>>

Next ==
  \/ Tick
  \/ \E c \in Caller :
       \/ \E op \in {"register", "touch"}, k \in WatchKey : ReadClock(c, op, k)
       \/ RegisterLive(c)
       \/ RegisterNew(c)
       \/ Touch(c)
       \/ \E k \in WatchKey : Release(c, k)
       \/ \E t \in Time : EvictIdle(c, t)

Spec == Init /\ [][Next]_vars
--------------------------------------------------------------------------------
\* The hard cap (ADR-0006): whatever threads interleave, no more keys hold a slot than
\* the policy allows.  register() must evict in the same critical section it inserts in.
SlotsWithinCap == Cardinality(Live(watches)) <= policy.max_watches
CapHolds == TypeOK /\ SlotsWithinCap

Evicted(k) == k \in Live(watches) /\ watches'[k] = NotLive
Registers(c) == call[c] # NoCall /\ call[c].op = "register" /\ call'[c] = NoCall

\* Admitting a view never sacrifices a hotter view for a colder one: every entry a
\* registration evicts was touched no later than every entry it keeps.
EvictsColdestFirst ==
  [][\A c \in Caller : Registers(c) =>
       \A k, j \in Live(watches) :
         (Evicted(k) /\ ~Evicted(j)) => watches[k] <= watches[j]]_vars

\* A registration takes another view's slot only under pressure: the key was not live
\* already, every slot was taken, and beyond the idle entries it evicts at most one.
EvictsOnlyUnderPressure ==
  [][\A c \in Caller : Registers(c) =>
       \A k \in WatchKey : Evicted(k) =>
         /\ call[c].key \notin Live(watches)
         /\ Cardinality(Live(watches)) = policy.max_watches
         /\ \A j \in WatchKey : 
              (Evicted(j) /\ {j, k} \intersect Expired(watches, call[c].at) = {}) => j = k]_vars

\* informer.rs:11-13, 55-59 say a registration beyond the cap is Denied and the caller
\* must degrade to a list.  Stated for a positive cap with no idle entry to reclaim.
DeniedAtCap ==
  [][\A c \in Caller :
       ( /\ Registers(c)
         /\ call[c].key \notin Live(watches)
         /\ Full(watches)
         /\ Expired(watches, call[c].at) = {} ) => reply'[c] = "denied"]_vars

\* informer.rs:16-17: "no clock races: time is injected".  A slot's recency would then
\* never move backwards while the slot stays live.
RecencyNeverRegresses ==
  [][\A k \in Live(watches) : watches'[k] # NotLive => watches'[k] >= watches[k]]_vars
================================================================================
