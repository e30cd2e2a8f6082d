------------------------- MODULE WebhookDeliveryProofs -------------------------
(***************************************************************************)
(* Theorems about WebhookDelivery, for any number of subscriptions,        *)
(* deliveries, overlapping ticks and replay requests, any page and pool    *)
(* size, and any budgets.                                                  *)
(***************************************************************************)
EXTENDS WebhookDelivery, FiniteSetTheorems, TLAPS

USE DEF subVars, rowVars, tickVars, replays, bounds, vars

(* A tick has no more deliveries in flight than workers left.              *)
PoolBounded == \A t \in Ticks : Cardinality(InFlight(t)) <= live[t]

Waits(t, d) == job[t][d] \in {"waiting", "posting"}

(* What a tick read and has yet to write is charged already.               *)
SnapshotsCharged ==
  \A t \in Ticks, d \in Deliveries : Waits(t, d) => snap[t][d].attempt <= 1 + failures[d]

(* What a tick works on was below a budget the subscription had.           *)
SnapshotsInBudget ==
  /\ \A s \in Subs : maxRetries[s] \in budgets[s]
  /\ \A t \in Ticks, d \in Deliveries :
       Waits(t, d) => /\ snap[t][d].attempt < snap[t][d].maxRetries
                      /\ snap[t][d].maxRetries \in budgets[Owner[d]]

WInv ==
  /\ TypeOK
  /\ PoolBounded
  /\ AttemptsAreCharged /\ SnapshotsCharged
  /\ WithinSomeBudget /\ SnapshotsInBudget
  /\ CompletionStamped

LEMMA OwnerTyped == \A d \in Deliveries : Owner[d] \in Subs /\ d # NoDelivery /\ d \in Nat
BY WebhookAssumption DEF Deliveries, NoDelivery

LEMMA OverlapsTyped ==
  ASSUME Overlaps
  PROVE  contended' \in SUBSET Deliveries
BY DEF Overlaps

LEMMA FiniteWork ==
  ASSUME NEW D \in SUBSET Deliveries
  PROVE  IsFiniteSet(D) /\ Cardinality(D) \in Nat
<1>1. IsFiniteSet(Deliveries)
  BY WebhookAssumption, FS_Interval, 1 \in Int, NumDeliveries \in Int DEF Deliveries
<1>2. IsFiniteSet(D)
  BY <1>1, FS_Subset
<1>3. QED
  BY <1>2, FS_CardinalityType

LEMMA WebhookInit == Init => WInv
<1> SUFFICES ASSUME Init PROVE WInv
  OBVIOUS
<1> USE WebhookAssumption, OwnerTyped
<1>1. TypeOK
  BY DEF Init, TypeOK, Idle, Unread
<1>2. PoolBounded
  <2>1. \A t \in Ticks : InFlight(t) = {}
    BY DEF Init, InFlight, Idle
  <2>2. \A t \in Ticks : live[t] = 0
    BY DEF Init
  <2>3. QED
    BY <2>1, <2>2, FS_EmptySet, 0 <= 0 DEF PoolBounded
<1>3. AttemptsAreCharged /\ SnapshotsCharged
  BY DEF Init, AttemptsAreCharged, SnapshotsCharged, Waits, Idle
<1>4. WithinSomeBudget /\ SnapshotsInBudget
  BY DEF Init, WithinSomeBudget, SnapshotsInBudget, Waits, Idle
<1>5. CompletionStamped
  BY DEF Init, CompletionStamped
<1>6. QED
  BY <1>1, <1>2, <1>3, <1>4, <1>5 DEF WInv

-----------------------------------------------------------------------------
(* Actions that leave the ticks alone *)

LEMMA RequestStep ==
  ASSUME WInv, Request \/ \E d \in Deliveries : BackoffElapses(d)
  PROVE  WInv'
<1> USE WebhookAssumption, OwnerTyped
    DEF WInv, TypeOK, AttemptsAreCharged, SnapshotsCharged, WithinSomeBudget,
        SnapshotsInBudget, CompletionStamped, Waits, Write, Queued, Exists
<1>0. UNCHANGED tickVars => PoolBounded'
  BY DEF PoolBounded, InFlight
<1>1. ASSUME NEW S \in SUBSET Subs, CreateSubscriptions(S)
      PROVE  WInv'
  BY <1>0, <1>1 DEF CreateSubscriptions
<1>2. ASSUME NEW s \in Subs, NEW state \in {"active", "inactive"}, NEW b \in Budgets,
             NEW slower \in BOOLEAN, Patch(s, state, b, slower)
      PROVE  WInv'
  BY <1>0, <1>2 DEF Patch
<1>3. ASSUME NEW s \in Subs, Delete(s)
      PROVE  WInv'
  BY <1>0, <1>3 DEF Delete
<1>4. ASSUME CreateDelivery
      PROVE  WInv'
  <2> DEFINE d == created + 1
  <2>1. /\ d \in Deliveries /\ Write(d, "PENDING", 1, FALSE) /\ created' = d
        /\ UNCHANGED <<subVars, failures, tickVars, replays, bounds>>
    BY <1>4 DEF CreateDelivery
  <2>2. created' \in 0..NumDeliveries
    BY <2>1 DEF Deliveries
  <2> HIDE DEF d
  <2>3. TypeOK'
    BY <2>1, <2>2
  <2>4. AttemptsAreCharged' /\ SnapshotsCharged'
    BY <2>1
  <2>5. WithinSomeBudget' /\ SnapshotsInBudget'
    BY <2>1
  <2>6. CompletionStamped'
    BY <2>1
  <2>7. PoolBounded'
    BY <1>0, <2>1
  <2>8. QED
    BY <2>3, <2>4, <2>5, <2>6, <2>7
<1>5. ASSUME NEW r \in Replayers, NEW d \in Deliveries, ReplayCheck(r, d)
      PROVE  WInv'
  BY <1>0, <1>5, OverlapsTyped DEF ReplayCheck
<1>6. ASSUME NEW r \in Replayers, ReplayWrite(r)
      PROVE  WInv'
  <2> DEFINE d == replaying[r]
  <2>1. /\ d \in Deliveries /\ replaying' = [replaying EXCEPT ![r] = NoDelivery]
        /\ UNCHANGED <<subVars, created, failures, tickVars, bounds>>
        /\ contended' \in SUBSET Deliveries
    BY <1>6, OverlapsTyped DEF ReplayWrite
  <2>2. Write(d, "PENDING", 0, FALSE) \/ UNCHANGED <<status, attempt, completed, ready>>
    BY <1>6 DEF ReplayWrite
  <2> HIDE DEF d
  <2>3. CASE Write(d, "PENDING", 0, FALSE)
    BY <1>0, <2>1, <2>3
  <2>4. CASE UNCHANGED <<status, attempt, completed, ready>>
    BY <1>0, <2>1, <2>4
  <2>5. QED
    BY <2>2, <2>3, <2>4
<1>7. ASSUME NEW d \in Deliveries, BackoffElapses(d)
      PROVE  WInv'
  BY <1>0, <1>7 DEF BackoffElapses
<1>8. QED
  BY <1>1, <1>2, <1>3, <1>4, <1>5, <1>6, <1>7 DEF Request

-----------------------------------------------------------------------------
(* Actions of the worker *)

LEMMA PoolStep ==
  ASSUME WInv, NEW t \in Ticks, live'[t] \in Int,
         \A u \in Ticks : u # t => job'[u] = job[u] /\ live'[u] = live[u],
         Cardinality(InFlight(t)') <= live'[t]
  PROVE  PoolBounded'
<1>1. ASSUME NEW u \in Ticks, u # t
      PROVE  Cardinality(InFlight(u)') <= live'[u]
  <2>1. InFlight(u)' = InFlight(u)
    BY <1>1 DEF InFlight
  <2>2. QED
    BY <1>1, <2>1 DEF WInv, PoolBounded
<1>2. QED
  BY <1>1 DEF PoolBounded

LEMMA StartStep ==
  ASSUME WInv, NEW t \in Ticks, StartTick(t)
  PROVE  WInv'
<1> USE WebhookAssumption, OwnerTyped
    DEF WInv, TypeOK, AttemptsAreCharged, SnapshotsCharged, WithinSomeBudget,
        SnapshotsInBudget, CompletionStamped, Waits
<1> DEFINE due == {d \in Deliveries : Due(d)}
           n   == Cardinality(due)
<1>1. n \in Nat
  BY FiniteWork
<1>2. /\ job' = [job EXCEPT ![t] = [d \in Deliveries |-> IF d \in due THEN "waiting" ELSE "none"]]
      /\ snap' = [snap EXCEPT ![t] = [d \in Deliveries |->
                    IF d \in due THEN [attempt |-> attempt[d], maxRetries |-> maxRetries[Owner[d]]]
                                 ELSE Unread[d]]]
      /\ live' = [live EXCEPT ![t] = IF n < MaxConcurrent THEN n ELSE MaxConcurrent]
      /\ UNCHANGED <<subVars, rowVars, replaying, bounds>>
      /\ contended' \in SUBSET Deliveries
  BY OverlapsTyped DEF StartTick
<1>3. live'[t] \in 0..MaxConcurrent
  BY <1>1, <1>2
<1>4. PoolBounded'
  <2>1. InFlight(t)' = {}
    BY <1>2 DEF InFlight
  <2>2. Cardinality(InFlight(t)') = 0
    BY <2>1, FS_EmptySet
  <2>3. Cardinality(InFlight(t)') <= live'[t]
    BY <1>3, <2>2
  <2>4. QED
    BY <1>2, <1>3, <2>3, PoolStep
<1>5. \A d \in due : attempt[d] < maxRetries[Owner[d]]
  BY DEF Due, Deliverable
<1> HIDE DEF due, n
<1>6. TypeOK'
  BY <1>2, <1>3 DEF Unread
<1>7. SnapshotsCharged' /\ SnapshotsInBudget'
  BY <1>2, <1>5
<1>8. QED
  BY <1>2, <1>4, <1>6, <1>7

LEMMA PostStep ==
  ASSUME WInv, NEW t \in Ticks, NEW d \in Deliveries, Post(t, d)
  PROVE  WInv'
<1> USE WebhookAssumption, OwnerTyped
    DEF WInv, TypeOK, AttemptsAreCharged, SnapshotsCharged, WithinSomeBudget,
        SnapshotsInBudget, CompletionStamped, Waits
<1>1. PoolBounded'
  <2>1. InFlight(t)' = InFlight(t) \cup {d}
    BY DEF Post, InFlight
  <2>2. IsFiniteSet(InFlight(t)) /\ Cardinality(InFlight(t)) \in Nat
    BY FiniteWork DEF InFlight
  <2>3. Cardinality(InFlight(t) \cup {d}) = IF d \in InFlight(t) THEN Cardinality(InFlight(t))
                                            ELSE Cardinality(InFlight(t)) + 1
    BY <2>2, FS_AddElement
  <2>4. Cardinality(InFlight(t)') \in Nat
    BY FiniteWork, InFlight(t)' \in SUBSET Deliveries DEF InFlight
  <2>5. Cardinality(InFlight(t)') <= live'[t]
    BY <2>1, <2>2, <2>3, <2>4 DEF Post
  <2>6. QED
    BY <2>5, PoolStep DEF Post
<1>2. QED
  BY <1>1 DEF Post

(* A tick that ends its work on a delivery, with all its workers alive.    *)
LEMMA ShrinkStep ==
  ASSUME WInv, NEW t \in Ticks, UNCHANGED live,
         \A u \in Ticks : u # t => job'[u] = job[u],
         InFlight(t)' \subseteq InFlight(t)
  PROVE  PoolBounded'
<1>1. IsFiniteSet(InFlight(t)) /\ Cardinality(InFlight(t)) \in Nat
  BY FiniteWork DEF InFlight
<1>2. Cardinality(InFlight(t)') <= Cardinality(InFlight(t)) /\ Cardinality(InFlight(t)') \in Nat
  BY <1>1, FS_Subset, FS_CardinalityType
<1>3. live[t] \in Nat /\ Cardinality(InFlight(t)) <= live[t]
  BY WebhookAssumption DEF WInv, TypeOK, PoolBounded
<1>4. Cardinality(InFlight(t)') <= live'[t]
  BY <1>1, <1>2, <1>3
<1>5. live'[t] \in Int
  BY <1>3
<1>6. QED
  BY <1>4, <1>5, PoolStep

LEMMA ResultStep ==
  ASSUME WInv, NEW t \in Ticks, NEW d \in Deliveries,
         RecordSuccess(t, d) \/ RecordFailure(t, d) \/ CountFailure(t, d)
  PROVE  WInv'
<1>0. PoolBounded'
  <2>1. job[t][d] \in {"posting", "counting"}
    BY DEF RecordSuccess, RecordFailure, CountFailure
  <2>2. \A e \in Deliveries : e # d => job'[t][e] = job[t][e]
    <3>1. \E v : job' = [job EXCEPT ![t][d] = v]
      BY DEF RecordSuccess, RecordFailure, CountFailure
    <3>2. QED
      BY <3>1 DEF WInv, TypeOK
  <2>3. InFlight(t)' \subseteq InFlight(t)
    BY <2>1, <2>2 DEF InFlight
  <2>4. QED
    BY <2>3, ShrinkStep DEF RecordSuccess, RecordFailure, CountFailure, WInv, TypeOK
<1> USE WebhookAssumption, OwnerTyped
    DEF WInv, TypeOK, AttemptsAreCharged, SnapshotsCharged, WithinSomeBudget,
        SnapshotsInBudget, CompletionStamped, Waits, Write
<1>1. CASE RecordSuccess(t, d)
  BY <1>0, <1>1, OverlapsTyped DEF RecordSuccess
<1>2. CASE RecordFailure(t, d)
  <2> DEFINE charged == snap[t][d].attempt + 1
             budget  == snap[t][d].maxRetries
             final   == charged >= budget
  <2>1. /\ job[t][d] = "posting"
        /\ Write(d, IF final THEN "FAILED" ELSE "RETRYING", charged, completed[d] \/ final)
        /\ failures' = [failures EXCEPT ![d] = @ + 1]
        /\ job' = [job EXCEPT ![t][d] = IF final THEN "counting" ELSE "none"]
        /\ UNCHANGED <<subVars, created, snap, live, replaying, bounds>>
        /\ contended' \in SUBSET Deliveries
    BY <1>2, OverlapsTyped DEF RecordFailure
  <2>2. /\ charged \in Nat /\ budget \in Nat /\ final \in BOOLEAN
        /\ charged <= 2 + failures[d] /\ charged <= budget /\ budget \in budgets[Owner[d]]
        /\ final => charged >= budget
    BY <2>1
  <2> HIDE DEF charged, budget, final
  <2>3. TypeOK'
    BY <2>1, <2>2
  <2>4. AttemptsAreCharged' /\ SnapshotsCharged'
    BY <2>1, <2>2
  <2>5. WithinSomeBudget' /\ SnapshotsInBudget'
    BY <2>1, <2>2
  <2>6. CompletionStamped'
    BY <2>1, <2>2
  <2>7. QED
    BY <1>0, <2>3, <2>4, <2>5, <2>6
<1>3. CASE CountFailure(t, d)
  BY <1>0, <1>3 DEF CountFailure
<1>4. QED
  BY <1>1, <1>2, <1>3

LEMMA ThrowStep ==
  ASSUME WInv, NEW t \in Ticks, NEW d \in Deliveries, WorkerThrows(t, d)
  PROVE  WInv'
<1>1. /\ d \in InFlight(t) /\ errors' \in 0..MaxErrors
      /\ live' = [live EXCEPT ![t] = @ - 1]
      /\ job' = [job EXCEPT ![t] = IF live[t] = 1 THEN Idle ELSE [job[t] EXCEPT ![d] = "none"]]
      /\ UNCHANGED <<subVars, rowVars, snap, replaying, edits, crashes>>
      /\ contended' \in SUBSET Deliveries
  BY WebhookAssumption, OverlapsTyped DEF WorkerThrows, InFlight, WInv, TypeOK
<1>2. IsFiniteSet(InFlight(t)) /\ Cardinality(InFlight(t)) \in Nat
  BY FiniteWork DEF InFlight
<1>3. /\ Cardinality(InFlight(t) \ {d}) = Cardinality(InFlight(t)) - 1
      /\ IsFiniteSet(InFlight(t) \ {d})
      /\ Cardinality(InFlight(t) \ {d}) \in Nat
  BY <1>1, <1>2, FS_RemoveElement, FS_CardinalityType
<1>4. live[t] \in 0..MaxConcurrent /\ Cardinality(InFlight(t)) <= live[t]
  BY DEF WInv, TypeOK, PoolBounded
<1>5. live'[t] = live[t] - 1 /\ live'[t] \in 0..MaxConcurrent
  BY <1>1, <1>2, <1>3, <1>4, WebhookAssumption DEF WInv, TypeOK
<1>6. InFlight(t)' \subseteq InFlight(t) \ {d}
  BY <1>1 DEF InFlight, Idle, WInv, TypeOK
<1>7. Cardinality(InFlight(t)') <= live'[t]
  <2>1. Cardinality(InFlight(t)') <= Cardinality(InFlight(t) \ {d})
    BY <1>3, <1>6, FS_Subset
  <2>2. Cardinality(InFlight(t)') \in Nat
    BY <1>3, <1>6, FS_Subset, FS_CardinalityType
  <2>3. QED
    BY <1>2, <1>3, <1>4, <1>5, <2>1, <2>2
<1>8. PoolBounded'
  BY <1>1, <1>5, <1>7, PoolStep DEF WInv, TypeOK
<1>9. /\ job' \in [Ticks -> [Deliveries -> {"none", "waiting", "posting", "counting"}]]
      /\ \A u \in Ticks, e \in Deliveries : job'[u][e] # "none" => job'[u][e] = job[u][e]
  BY <1>1 DEF Idle, WInv, TypeOK
<1>10. live' \in [Ticks -> 0..MaxConcurrent]
  BY <1>1, <1>5 DEF WInv, TypeOK
<1>11. QED
  BY <1>1, <1>8, <1>9, <1>10
     DEF WInv, TypeOK, AttemptsAreCharged, SnapshotsCharged, WithinSomeBudget,
         SnapshotsInBudget, CompletionStamped, Waits

LEMMA CrashStep ==
  ASSUME WInv, Crash
  PROVE  WInv'
<1>1. /\ \A t \in Ticks : InFlight(t)' = {} /\ live'[t] = 0
      /\ \A t \in Ticks, d \in Deliveries : job'[t][d] = "none"
  BY DEF Crash, InFlight, Idle
<1>2. PoolBounded'
  BY <1>1, FS_EmptySet, 0 <= 0 DEF PoolBounded
<1>3. QED
  BY <1>1, <1>2, OverlapsTyped, WebhookAssumption
     DEF Crash, Idle, Unread, WInv, TypeOK, AttemptsAreCharged, SnapshotsCharged,
         WithinSomeBudget, SnapshotsInBudget, CompletionStamped, Waits

LEMMA WebhookStep == WInv /\ [Next]_vars => WInv'
<1> SUFFICES ASSUME WInv, [Next]_vars
             PROVE  WInv'
  OBVIOUS
<1>1. CASE UNCHANGED vars
  BY <1>1 DEF WInv, TypeOK, PoolBounded, InFlight, AttemptsAreCharged, SnapshotsCharged,
              WithinSomeBudget, SnapshotsInBudget, CompletionStamped, Waits
<1>2. CASE Next
  BY <1>2, RequestStep, StartStep, PostStep, ResultStep, ThrowStep, CrashStep DEF Next, Work
<1>3. QED
  BY <1>1, <1>2

THEOREM WebhookInvariance == Spec => []WInv
<1>1. QED
  BY WebhookInit, WebhookStep, PTL DEF Spec

-----------------------------------------------------------------------------
(* Types, with the pool: a tick never has more workers than allowed.       *)
THEOREM WebhookTypesKept == Spec => []TypeOK
<1>1. WInv => TypeOK
  BY DEF WInv
<1>2. QED
  BY <1>1, WebhookInvariance, PTL

(* The attempt number never runs ahead of the failed answers, with any     *)
(* number of overlapping ticks.                                            *)
THEOREM AttemptsCharged == Spec => []AttemptsAreCharged
<1>1. WInv => AttemptsAreCharged
  BY DEF WInv
<1>2. QED
  BY <1>1, WebhookInvariance, PTL

(* No row leaves the range of budgets its subscription has had.            *)
THEOREM BudgetsRespected == Spec => []WithinSomeBudget
<1>1. WInv => WithinSomeBudget
  BY DEF WInv
<1>2. QED
  BY <1>1, WebhookInvariance, PTL

(* completedAt marks the settled rows and none that wait for a first try.  *)
THEOREM CompletionStamps == Spec => []CompletionStamped
<1>1. WInv => CompletionStamped
  BY DEF WInv
<1>2. QED
  BY <1>1, WebhookInvariance, PTL

-----------------------------------------------------------------------------
(* The failure counter *)

(* The failed answers whose count is on its way, and all that were recorded*)
(* for the deliveries of a subscription.                                   *)
Pending(s) == {w \in Ticks \X {d \in Deliveries : Owner[d] = s} : job[w[1]][w[2]] = "counting"}
Answers(s) == UNION {{d} \X (1..failures[d]) : d \in {d \in Deliveries : Owner[d] = s}}

CounterInv ==
  \A s \in Subs :
    /\ IsFiniteSet(Answers(s))
    /\ failedDeliveries[s] + Cardinality(Pending(s)) <= Cardinality(Answers(s))

LEMMA CounterInvMeans == CounterInv => FailedCounterSound
BY DEF CounterInv, FailedCounterSound, Pending, Answers

LEMMA PendingFinite ==
  ASSUME NEW s \in Subs
  PROVE  IsFiniteSet(Pending(s)) /\ Cardinality(Pending(s)) \in Nat
<1>1. IsFiniteSet(Ticks) /\ IsFiniteSet({d \in Deliveries : Owner[d] = s})
  BY FiniteWork, WebhookAssumption
<1>2. IsFiniteSet(Ticks \X {d \in Deliveries : Owner[d] = s})
  BY <1>1, FS_Product
<1>3. Pending(s) \subseteq Ticks \X {d \in Deliveries : Owner[d] = s}
  BY DEF Pending
<1>4. IsFiniteSet(Pending(s))
  BY <1>2, <1>3, FS_Subset
<1>5. QED
  BY <1>4, FS_CardinalityType

LEMMA PendingFinitePrime ==
  ASSUME NEW s \in Subs
  PROVE  IsFiniteSet(Pending(s)') /\ Cardinality(Pending(s)') \in Nat
<1>1. IsFiniteSet(Ticks) /\ IsFiniteSet({d \in Deliveries : Owner[d] = s})
  BY FiniteWork, WebhookAssumption
<1>2. IsFiniteSet(Ticks \X {d \in Deliveries : Owner[d] = s})
  BY <1>1, FS_Product
<1>3. Pending(s)' \subseteq Ticks \X {d \in Deliveries : Owner[d] = s}
  BY DEF Pending
<1>4. IsFiniteSet(Pending(s)')
  BY <1>2, <1>3, FS_Subset
<1>5. QED
  BY <1>4, FS_CardinalityType

(* A step that records no answer and starts no count.                      *)
LEMMA CounterQuiet ==
  ASSUME TypeOK, CounterInv, UNCHANGED <<failures, failedDeliveries>>,
         \A t \in Ticks, d \in Deliveries : job'[t][d] = "counting" => job[t][d] = "counting"
  PROVE  CounterInv'
<1>1. ASSUME NEW s \in Subs
      PROVE  /\ IsFiniteSet(Answers(s)')
             /\ failedDeliveries'[s] + Cardinality(Pending(s)') <= Cardinality(Answers(s)')
  <2>1. Answers(s)' = Answers(s)
    BY DEF Answers
  <2>2. Pending(s)' \subseteq Pending(s)
    BY DEF Pending
  <2>3. Cardinality(Pending(s)') <= Cardinality(Pending(s))
    BY <2>2, PendingFinite, FS_Subset
  <2>4. IsFiniteSet(Answers(s)) /\ Cardinality(Answers(s)) \in Nat
    BY FS_CardinalityType DEF CounterInv
  <2>5. failedDeliveries[s] \in Nat
    BY DEF TypeOK
  <2>6. Cardinality(Pending(s)) \in Nat /\ Cardinality(Pending(s)') \in Nat
    BY PendingFinite, PendingFinitePrime
  <2>7. failedDeliveries[s] + Cardinality(Pending(s)) <= Cardinality(Answers(s))
    BY DEF CounterInv
  <2>8. failedDeliveries[s] + Cardinality(Pending(s)') <= Cardinality(Answers(s))
    BY <2>3, <2>4, <2>5, <2>6, <2>7
  <2>9. QED
    BY <2>1, <2>4, <2>8
<1>2. QED
  BY <1>1 DEF CounterInv

(* A failed answer is recorded before its count is on its way.             *)
LEMMA CounterRecords ==
  ASSUME TypeOK, CounterInv, NEW t \in Ticks, NEW d \in Deliveries, RecordFailure(t, d)
  PROVE  CounterInv'
<1>1. /\ job[t][d] = "posting"
      /\ failures' = [failures EXCEPT ![d] = @ + 1]
      /\ \E v : job' = [job EXCEPT ![t][d] = v]
      /\ failedDeliveries' = failedDeliveries
  BY DEF RecordFailure, subVars
<1>2. \A u \in Ticks, e \in Deliveries : <<u, e>> # <<t, d>> => job'[u][e] = job[u][e]
  BY <1>1 DEF TypeOK
<1>3. ASSUME NEW s \in Subs
      PROVE  /\ IsFiniteSet(Answers(s)')
             /\ failedDeliveries'[s] + Cardinality(Pending(s)') <= Cardinality(Answers(s)')
  <2>1. IsFiniteSet(Answers(s)) /\ Cardinality(Answers(s)) \in Nat
    BY FS_CardinalityType DEF CounterInv
  <2>2. IsFiniteSet(Pending(s)) /\ Cardinality(Pending(s)) \in Nat
        /\ IsFiniteSet(Pending(s)') /\ Cardinality(Pending(s)') \in Nat
    BY PendingFinite, PendingFinitePrime
  <2>3. failedDeliveries[s] \in Nat /\ failures[d] \in Nat
    BY DEF TypeOK
  <2>4. failedDeliveries[s] + Cardinality(Pending(s)) <= Cardinality(Answers(s))
    BY DEF CounterInv
  <2>5. CASE Owner[d] = s
    <3> DEFINE new == <<d, failures[d] + 1>>
    <3>1. \A e \in Deliveries : failures[e] \in Nat
      BY DEF TypeOK
    <3>2. new \notin Answers(s)
      BY <2>3 DEF Answers
    <3>3. 1..(failures[d] + 1) = (1..failures[d]) \cup {failures[d] + 1}
      BY <2>3
    <3>4. \A e \in Deliveries : failures'[e] = IF e = d THEN failures[d] + 1 ELSE failures[e]
      BY <1>1 DEF TypeOK
    <3>5. Answers(s)' = Answers(s) \cup {new}
      <4>1. {d} \X (1..failures'[d]) = ({d} \X (1..failures[d])) \cup {new}
        BY <3>3, <3>4
      <4>2. \A e \in Deliveries : e # d => {e} \X (1..failures'[e]) = {e} \X (1..failures[e])
        BY <3>4
      <4> HIDE DEF new
      <4>3. QED
        BY <2>5, <4>1, <4>2 DEF Answers
    <3>6. Pending(s)' \subseteq Pending(s) \cup {<<t, d>>}
      BY <1>2 DEF Pending
    <3> HIDE DEF new
    <3>7. IsFiniteSet(Answers(s)') /\ Cardinality(Answers(s)') = Cardinality(Answers(s)) + 1
      BY <2>1, <3>2, <3>5, FS_AddElement
    <3>8. /\ IsFiniteSet(Pending(s) \cup {<<t, d>>})
          /\ Cardinality(Pending(s) \cup {<<t, d>>}) \in Nat
          /\ Cardinality(Pending(s) \cup {<<t, d>>}) <= Cardinality(Pending(s)) + 1
      <4>1. \/ Cardinality(Pending(s) \cup {<<t, d>>}) = Cardinality(Pending(s))
            \/ Cardinality(Pending(s) \cup {<<t, d>>}) = Cardinality(Pending(s)) + 1
        BY <2>2, FS_AddElement
      <4>2. IsFiniteSet(Pending(s) \cup {<<t, d>>})
        BY <2>2, FS_AddElement
      <4>3. QED
        BY <2>2, <4>1, <4>2
    <3>9. Cardinality(Pending(s)') <= Cardinality(Pending(s) \cup {<<t, d>>})
      BY <3>6, <3>8, FS_Subset
    <3>10. failedDeliveries[s] + Cardinality(Pending(s)') <= Cardinality(Answers(s)')
      BY <2>1, <2>2, <2>3, <2>4, <3>7, <3>8, <3>9
    <3>11. QED
      BY <1>1, <3>7, <3>10
  <2>6. CASE Owner[d] # s
    <3>1. Pending(s)' = Pending(s)
      BY <1>2, <2>6 DEF Pending
    <3>2. \A e \in Deliveries : Owner[e] = s => failures'[e] = failures[e]
      BY <1>1, <2>6 DEF TypeOK
    <3>3. Answers(s)' = Answers(s)
      BY <3>2 DEF Answers
    <3>4. QED
      BY <1>1, <2>1, <2>4, <3>1, <3>3
  <2>7. QED
    BY <2>5, <2>6
<1>4. QED
  BY <1>3 DEF CounterInv

(* The count takes one recorded answer out of those on their way.          *)
LEMMA CounterCounts ==
  ASSUME TypeOK, CounterInv, NEW t \in Ticks, NEW d \in Deliveries, CountFailure(t, d)
  PROVE  CounterInv'
<1>1. /\ job[t][d] = "counting"
      /\ failedDeliveries' = [failedDeliveries EXCEPT ![Owner[d]] = @ + 1]
      /\ job' = [job EXCEPT ![t][d] = "none"]
      /\ failures' = failures
  BY DEF CountFailure, rowVars
<1>2. \A u \in Ticks, e \in Deliveries : <<u, e>> # <<t, d>> => job'[u][e] = job[u][e]
  BY <1>1 DEF TypeOK
<1>3. job'[t][d] = "none"
  BY <1>1 DEF TypeOK
<1>4. ASSUME NEW s \in Subs
      PROVE  /\ IsFiniteSet(Answers(s)')
             /\ failedDeliveries'[s] + Cardinality(Pending(s)') <= Cardinality(Answers(s)')
  <2>1. IsFiniteSet(Answers(s)) /\ Answers(s)' = Answers(s) /\ Cardinality(Answers(s)) \in Nat
    BY <1>1, FS_CardinalityType DEF CounterInv, Answers
  <2>2. IsFiniteSet(Pending(s)) /\ Cardinality(Pending(s)) \in Nat
    BY PendingFinite
  <2>3. failedDeliveries[s] \in Nat
    BY DEF TypeOK
  <2>4. failedDeliveries[s] + Cardinality(Pending(s)) <= Cardinality(Answers(s))
    BY DEF CounterInv
  <2>5. CASE Owner[d] = s
    <3>1. failedDeliveries'[s] = failedDeliveries[s] + 1
      BY <1>1, <2>5 DEF TypeOK
    <3>2. Pending(s)' = Pending(s) \ {<<t, d>>}
      BY <1>2, <1>3 DEF Pending
    <3>3. <<t, d>> \in Pending(s)
      BY <1>1, <2>5 DEF Pending
    <3>4. Cardinality(Pending(s)') = Cardinality(Pending(s)) - 1
      BY <2>2, <3>2, <3>3, FS_RemoveElement
    <3>5. QED
      BY <2>1, <2>2, <2>3, <2>4, <3>1, <3>4
  <2>6. CASE Owner[d] # s
    <3>1. failedDeliveries'[s] = failedDeliveries[s]
      BY <1>1, <2>6 DEF TypeOK
    <3>2. Pending(s)' = Pending(s)
      BY <1>2, <2>6 DEF Pending
    <3>3. QED
      BY <2>1, <2>4, <3>1, <3>2
  <2>7. QED
    BY <2>5, <2>6
<1>5. QED
  BY <1>4 DEF CounterInv

LEMMA CounterInit == Init => CounterInv
<1> SUFFICES ASSUME Init, NEW s \in Subs
             PROVE  /\ IsFiniteSet(Answers(s))
                    /\ failedDeliveries[s] + Cardinality(Pending(s)) <= Cardinality(Answers(s))
  BY DEF CounterInv
<1>1. Pending(s) = {}
  BY DEF Init, Pending, Idle
<1>2. Answers(s) = {}
  <2>1. \A d \in Deliveries : 1..failures[d] = {}
    BY DEF Init
  <2>2. QED
    BY <2>1 DEF Answers
<1>3. failedDeliveries[s] = 0 /\ 0 + 0 <= 0
  BY DEF Init
<1>4. QED
  BY <1>1, <1>2, <1>3, FS_EmptySet

LEMMA CounterStep ==
  ASSUME TypeOK, CounterInv, [Next]_vars
  PROVE  CounterInv'
<1>1. CASE UNCHANGED vars
  BY <1>1, CounterQuiet
<1>2. CASE Request \/ \E d \in Deliveries : BackoffElapses(d)
  <2>1. UNCHANGED <<failures, failedDeliveries, job>>
    BY <1>2 DEF Request, BackoffElapses, CreateSubscriptions, Patch, Delete, CreateDelivery,
                ReplayCheck, ReplayWrite
  <2>2. QED
    BY <2>1, CounterQuiet
<1>3. ASSUME NEW t \in Ticks, StartTick(t)
      PROVE  CounterInv'
  <2>1. \A u \in Ticks, d \in Deliveries : job'[u][d] = "counting" => job[u][d] = "counting"
    BY <1>3 DEF StartTick, TypeOK
  <2>2. UNCHANGED <<failures, failedDeliveries>>
    BY <1>3 DEF StartTick
  <2>3. QED
    BY <2>1, <2>2, CounterQuiet
<1>4. ASSUME NEW t \in Ticks, NEW d \in Deliveries, Post(t, d) \/ RecordSuccess(t, d) \/ WorkerThrows(t, d)
      PROVE  CounterInv'
  <2>1. UNCHANGED <<failures, failedDeliveries>>
    BY <1>4 DEF Post, RecordSuccess, WorkerThrows
  <2>2. \/ job' = [job EXCEPT ![t][d] = "posting"]
        \/ job' = [job EXCEPT ![t][d] = "none"]
        \/ job' = [job EXCEPT ![t] = IF live[t] = 1 THEN Idle ELSE [job[t] EXCEPT ![d] = "none"]]
    BY <1>4 DEF Post, RecordSuccess, WorkerThrows
  <2>3. \A u \in Ticks, e \in Deliveries : job'[u][e] = "counting" => job[u][e] = "counting"
    <3>1. CASE job' = [job EXCEPT ![t][d] = "posting"] \/ job' = [job EXCEPT ![t][d] = "none"]
      <4>1. PICK v : job' = [job EXCEPT ![t][d] = v] /\ v # "counting"
        BY <3>1
      <4>2. job'[t][d] = v /\ \A e \in Deliveries : e # d => job'[t][e] = job[t][e]
        BY <4>1 DEF TypeOK
      <4>3. \A u \in Ticks : u # t => job'[u] = job[u]
        BY <4>1 DEF TypeOK
      <4>4. QED
        BY <4>1, <4>2, <4>3
    <3>2. CASE job' = [job EXCEPT ![t] = Idle]
      BY <3>2 DEF TypeOK, Idle
    <3>3. CASE job' = [job EXCEPT ![t] = [job[t] EXCEPT ![d] = "none"]]
      BY <3>3 DEF TypeOK
    <3>4. QED
      BY <2>2, <3>1, <3>2, <3>3
  <2>4. QED
    BY <2>1, <2>3, CounterQuiet
<1>5. CASE Crash
  <2>1. \A u \in Ticks, e \in Deliveries : job'[u][e] = "none"
    BY <1>5 DEF Crash, Idle
  <2>2. UNCHANGED <<failures, failedDeliveries>>
    BY <1>5 DEF Crash
  <2>3. QED
    BY <2>1, <2>2, CounterQuiet
<1>6. QED
  BY <1>1, <1>2, <1>3, <1>4, <1>5, CounterRecords, CounterCounts DEF Next, Work

(* The failure counter of a subscription never overstates, however ticks   *)
(* overlap, workers throw and the ingester crashes: every increment, and   *)
(* every one on its way, belongs to a failed answer of its own.            *)
THEOREM CounterIsSound == Spec => []FailedCounterSound
<1>1. CounterInv /\ TypeOK /\ [Next]_vars => CounterInv'
  BY CounterStep
<1>2. CounterInv => FailedCounterSound
  BY CounterInvMeans
<1>3. QED
  BY <1>1, <1>2, CounterInit, WebhookTypesKept, PTL DEF Spec

-----------------------------------------------------------------------------
(* Who holds what                                                          *)

(* No delivery is held twice outside an overlap, and an overlap has holders.*)
OverlapsAreSeen ==
  /\ \A d \in Deliveries : HeldTwice(d) => d \in contended
  /\ \A d \in contended : Held(d)

(* Outside an overlap a tick holds queued rows only, a replay failed ones. *)
HoldersAreRight ==
  \A d \in Deliveries :
    d \notin contended => /\ TickHolds(d) # {} => Queued(d) \/ status[d] = "removed"
                          /\ ReplayHolds(d) # {} => status[d] \in {"FAILED", "removed"}

(* Rows are created in order, and nobody holds one before.                 *)
CreatedInOrder ==
  /\ \A d \in Deliveries : d > created => status[d] = "none"
  /\ \A d \in contended : status[d] # "none"

HoldsInv == OverlapsAreSeen /\ HoldersAreRight /\ CreatedInOrder

LEMMA HoldersCount ==
  ASSUME NEW d \in Deliveries
  PROVE  /\ IsFiniteSet(TickHolds(d)) /\ Cardinality(TickHolds(d)) \in Nat
         /\ IsFiniteSet(ReplayHolds(d)) /\ Cardinality(ReplayHolds(d)) \in Nat
<1>1. TickHolds(d) \subseteq Ticks /\ ReplayHolds(d) \subseteq Replayers
  BY DEF TickHolds, ReplayHolds
<1>2. IsFiniteSet(Ticks) /\ IsFiniteSet(Replayers)
  BY WebhookAssumption
<1>3. IsFiniteSet(TickHolds(d)) /\ IsFiniteSet(ReplayHolds(d))
  BY <1>1, <1>2, FS_Subset
<1>4. QED
  BY <1>3, FS_CardinalityType

LEMMA TwoAreNotNone ==
  ASSUME NEW A, NEW B, Cardinality(A) + Cardinality(B) > 1
  PROVE  A # {} \/ B # {}
<1>1. Cardinality({}) = 0
  BY FS_EmptySet
<1>2. QED
  BY <1>1

LEMMA TwiceHeldIsHeld ==
  ASSUME NEW d \in Deliveries
  PROVE  (HeldTwice(d) => Held(d)) /\ (HeldTwice(d)' => Held(d)')
BY TwoAreNotNone DEF HeldTwice, Held

(* Holders that let go leave no more of them.                              *)
LEMMA FewerHold ==
  ASSUME NEW d \in Deliveries,
         TickHolds(d)' \subseteq TickHolds(d), ReplayHolds(d)' \subseteq ReplayHolds(d)
  PROVE  (HeldTwice(d)' => HeldTwice(d)) /\ (Held(d)' => Held(d))
<1>1. /\ Cardinality(TickHolds(d)') <= Cardinality(TickHolds(d))
      /\ Cardinality(ReplayHolds(d)') <= Cardinality(ReplayHolds(d))
      /\ IsFiniteSet(TickHolds(d)') /\ IsFiniteSet(ReplayHolds(d)')
  BY HoldersCount, FS_Subset
<1>2. Cardinality(TickHolds(d)') \in Nat /\ Cardinality(ReplayHolds(d)') \in Nat
  BY <1>1, FS_CardinalityType
<1>3. HeldTwice(d)' => HeldTwice(d)
  BY <1>1, <1>2, HoldersCount DEF HeldTwice
<1>4. QED
  BY <1>3 DEF Held

LEMMA AtMostOne ==
  ASSUME NEW S, IsFiniteSet(S), Cardinality(S) <= 1, NEW x \in S
  PROVE  S = {x} /\ Cardinality(S) = 1
<1>1. Cardinality(S \ {x}) = Cardinality(S) - 1 /\ IsFiniteSet(S \ {x})
  BY FS_RemoveElement
<1>2. Cardinality(S \ {x}) \in Nat /\ Cardinality(S) \in Nat
  BY <1>1, FS_CardinalityType
<1>3. Cardinality(S \ {x}) = 0
  BY <1>1, <1>2
<1>4. S \ {x} = {}
  BY <1>1, <1>3, FS_EmptySet
<1>5. QED
  BY <1>1, <1>2, <1>3, <1>4

LEMMA NobodyIsNone ==
  ASSUME NEW S, IsFiniteSet(S), Cardinality(S) = 0
  PROVE  S = {}
BY FS_EmptySet

(* Outside an overlap the one who holds a delivery is alone.               *)
LEMMA AloneHolds ==
  ASSUME NEW d \in Deliveries, ~HeldTwice(d)
  PROVE  /\ \A t \in TickHolds(d) : TickHolds(d) = {t} /\ ReplayHolds(d) = {}
         /\ \A r \in ReplayHolds(d) : ReplayHolds(d) = {r} /\ TickHolds(d) = {}
<1> DEFINE m == Cardinality(TickHolds(d))
           n == Cardinality(ReplayHolds(d))
<1>1. m \in Nat /\ n \in Nat /\ ~(m + n > 1)
  BY HoldersCount DEF HeldTwice
<1>2. ASSUME NEW t \in TickHolds(d)
      PROVE  TickHolds(d) = {t} /\ ReplayHolds(d) = {}
  <2>1. m <= 1
    BY <1>1
  <2>2. TickHolds(d) = {t} /\ m = 1
    BY <2>1, HoldersCount, AtMostOne
  <2>3. n = 0
    BY <1>1, <2>2
  <2>4. QED
    BY <2>2, <2>3, HoldersCount, NobodyIsNone
<1>3. ASSUME NEW r \in ReplayHolds(d)
      PROVE  ReplayHolds(d) = {r} /\ TickHolds(d) = {}
  <2>1. n <= 1
    BY <1>1
  <2>2. ReplayHolds(d) = {r} /\ n = 1
    BY <2>1, HoldersCount, AtMostOne
  <2>3. m = 0
    BY <1>1, <2>2
  <2>4. QED
    BY <2>2, <2>3, HoldersCount, NobodyIsNone
<1>4. QED
  BY <1>2, <1>3

LEMMA HoldsInit == Init => HoldsInv
<1> SUFFICES ASSUME Init PROVE HoldsInv
  OBVIOUS
<1>1. \A d \in Deliveries : TickHolds(d) = {} /\ ReplayHolds(d) = {}
  BY OwnerTyped DEF Init, TickHolds, ReplayHolds, Idle
<1>2. \A d \in Deliveries : ~HeldTwice(d)
  BY <1>1, TwiceHeldIsHeld DEF Held
<1>3. QED
  BY <1>1, <1>2 DEF Init, HoldsInv, OverlapsAreSeen, HoldersAreRight, CreatedInOrder

(* A step that leaves holders and overlaps alone: rows may be removed.     *)
LEMMA NobodyMoves ==
  ASSUME TypeOK, HoldsInv, UNCHANGED <<replaying, contended, created>>,
         \A t \in Ticks, d \in Deliveries : Waits(t, d)' <=> Waits(t, d),
         \A d \in Deliveries : \/ status'[d] = status[d]
                               \/ status[d] # "none" /\ status'[d] = "removed"
  PROVE  HoldsInv'
<1>1. \A d \in Deliveries : TickHolds(d)' = TickHolds(d) /\ ReplayHolds(d)' = ReplayHolds(d)
  BY DEF TickHolds, ReplayHolds, Waits
<1>2. \A d \in Deliveries : (HeldTwice(d)' <=> HeldTwice(d)) /\ (Held(d)' <=> Held(d))
  BY <1>1 DEF HeldTwice, Held
<1>3. contended \subseteq Deliveries
  BY DEF TypeOK
<1>4. OverlapsAreSeen'
  BY <1>2, <1>3 DEF HoldsInv, OverlapsAreSeen
<1>5. HoldersAreRight'
  BY <1>1 DEF HoldsInv, HoldersAreRight, Queued
<1>6. CreatedInOrder'
  BY <1>3 DEF HoldsInv, CreatedInOrder
<1>7. QED
  BY <1>4, <1>5, <1>6 DEF HoldsInv

(* A step with which holders let go, after they wrote, or for good.        *)
LEMMA SomebodyLetsGo ==
  ASSUME TypeOK, HoldsInv, Overlaps, UNCHANGED created,
         \A d \in Deliveries : /\ TickHolds(d)' \subseteq TickHolds(d)
                               /\ ReplayHolds(d)' \subseteq ReplayHolds(d),
         \A d \in Deliveries : \/ status'[d] = status[d]
                               \/ /\ status[d] # "none" /\ status'[d] # "none"
                                  /\ d \in contended \/ ~Held(d)'
  PROVE  HoldsInv' /\ contended' \subseteq contended
<1>1. \A d \in Deliveries : (HeldTwice(d)' => HeldTwice(d)) /\ (Held(d)' => Held(d))
  BY FewerHold
<1>2. contended' = {d \in Deliveries : HeldTwice(d)' \/ (d \in contended /\ Held(d)')}
  BY DEF Overlaps
<1>3. contended' \subseteq contended
  BY <1>1, <1>2 DEF HoldsInv, OverlapsAreSeen
<1>4. \A d \in Deliveries : HeldTwice(d)' => Held(d)'
  BY TwiceHeldIsHeld
<1>5. OverlapsAreSeen'
  BY <1>2, <1>4 DEF OverlapsAreSeen
<1>6. HoldersAreRight'
  <2> SUFFICES ASSUME NEW d \in Deliveries, d \notin contended', Held(d)'
               PROVE  /\ TickHolds(d)' # {} => Queued(d)' \/ status'[d] = "removed"
                      /\ ReplayHolds(d)' # {} => status'[d] \in {"FAILED", "removed"}
    BY DEF HoldersAreRight, Held
  <2>1. d \notin contended
    BY <1>2
  <2>2. status'[d] = status[d]
    BY <2>1
  <2>3. QED
    BY <2>1, <2>2 DEF HoldsInv, HoldersAreRight, Queued
<1>7. CreatedInOrder'
  BY <1>3 DEF HoldsInv, CreatedInOrder, TypeOK
<1>8. QED
  BY <1>3, <1>5, <1>6, <1>7 DEF HoldsInv

(* A step with which somebody takes hold of queued or of failed rows.      *)
LEMMA SomebodyTakes ==
  ASSUME TypeOK, HoldsInv, Overlaps, UNCHANGED <<created, status>>,
         NEW D \in SUBSET Deliveries,
         \A d \in Deliveries : TickHolds(d) \subseteq TickHolds(d)' /\ ReplayHolds(d) \subseteq ReplayHolds(d)',
         \A d \in Deliveries \ D : TickHolds(d)' = TickHolds(d) /\ ReplayHolds(d)' = ReplayHolds(d),
         \/ \A d \in D : Queued(d) /\ ReplayHolds(d)' = ReplayHolds(d)
         \/ \A d \in D : status[d] = "FAILED" /\ TickHolds(d)' = TickHolds(d)
  PROVE  /\ HoldsInv'
         /\ contended \subseteq contended'
         /\ \A d \in contended' \ contended : d \in D
<1>1. contended' = {d \in Deliveries : HeldTwice(d)' \/ (d \in contended /\ Held(d)')}
  BY DEF Overlaps
<1>2. \A d \in Deliveries : Held(d) => Held(d)'
  BY DEF Held
<1>3. contended \subseteq contended'
  BY <1>1, <1>2 DEF HoldsInv, OverlapsAreSeen, TypeOK
<1>4. \A d \in contended' \ contended : d \in D
  <2>1. \A d \in Deliveries \ D : HeldTwice(d)' => HeldTwice(d)
    BY DEF HeldTwice
  <2>2. QED
    BY <1>1, <2>1 DEF HoldsInv, OverlapsAreSeen
<1>5. \A d \in Deliveries : HeldTwice(d)' => Held(d)'
  BY TwiceHeldIsHeld
<1>6. OverlapsAreSeen'
  BY <1>1, <1>5 DEF OverlapsAreSeen
<1>7. HoldersAreRight'
  <2> SUFFICES ASSUME NEW d \in Deliveries, d \notin contended'
               PROVE  /\ TickHolds(d)' # {} => Queued(d) \/ status[d] = "removed"
                      /\ ReplayHolds(d)' # {} => status[d] \in {"FAILED", "removed"}
    BY DEF HoldersAreRight, Queued
  <2>1. d \notin contended
    BY <1>3
  <2>2. /\ TickHolds(d) # {} => Queued(d) \/ status[d] = "removed"
        /\ ReplayHolds(d) # {} => status[d] \in {"FAILED", "removed"}
    BY <2>1 DEF HoldsInv, HoldersAreRight
  <2>3. CASE d \notin D
    BY <2>2, <2>3
  <2>4. CASE d \in D
    BY <2>2, <2>4 DEF Queued
  <2>5. QED
    BY <2>3, <2>4
<1>8. CreatedInOrder'
  <2>1. \A d \in D : status[d] # "none"
    BY DEF Queued
  <2>2. QED
    BY <1>4, <2>1 DEF HoldsInv, CreatedInOrder
<1>9. QED
  BY <1>3, <1>4, <1>6, <1>7, <1>8 DEF HoldsInv

-----------------------------------------------------------------------------
(* Phases                                                                  *)

PhaseOf(st, overlap) ==
  CASE st \in {"none", "removed"} -> st
    [] st \notin {"none", "removed"} /\ overlap -> "contended"
    [] st \in {"PENDING", "RETRYING"} /\ ~overlap -> "queued"
    [] st = "SUCCESS" /\ ~overlap -> "delivered"
    [] st = "FAILED" /\ ~overlap -> "failed"

Written == {"PENDING", "RETRYING", "SUCCESS", "FAILED"}

LEMMA PhaseIs == phase = [d \in Deliveries |-> PhaseOf(status[d], d \in contended)]
BY DEF phase, PhaseOf, Queued

LEMMA PhaseWillBe == phase' = [d \in Deliveries |-> PhaseOf(status'[d], d \in contended')]
BY DEF phase, PhaseOf, Queued

LEMMA PhaseIsFunction ==
  /\ phase = [d \in Deliveries |-> phase[d]]
  /\ phase' = [d \in Deliveries |-> phase'[d]]
BY PhaseIs, PhaseWillBe

LEMMA PhaseCases ==
  ASSUME NEW st \in {"none", "removed"} \cup Written
  PROVE  /\ st \in {"none", "removed"} => PhaseOf(st, TRUE) = st /\ PhaseOf(st, FALSE) = st
         /\ st \in Written => /\ PhaseOf(st, TRUE) = "contended"
                              /\ PhaseOf(st, FALSE) \in Lifecycle!Outcomes
         /\ st \in {"PENDING", "RETRYING"} => PhaseOf(st, FALSE) = "queued"
         /\ st = "SUCCESS" => PhaseOf(st, FALSE) = "delivered"
         /\ st = "FAILED" => PhaseOf(st, FALSE) = "failed"
BY DEF PhaseOf, Written, Lifecycle!Outcomes

LEMMA PhaseByCase ==
  ASSUME NEW st, NEW b \in BOOLEAN
  PROVE  PhaseOf(st, b) = IF b THEN PhaseOf(st, TRUE) ELSE PhaseOf(st, FALSE)
<1>1. CASE b = TRUE
  BY <1>1
<1>2. CASE b = FALSE
  BY <1>2
<1>3. QED
  BY <1>1, <1>2

(* The phase of a delivery, in and out of an overlap.                      *)
LEMMA PhaseAt ==
  ASSUME TypeOK, NEW d \in Deliveries
  PROVE  /\ status[d] \in {"none", "removed"} \cup Written
         /\ d \in contended => phase[d] = PhaseOf(status[d], TRUE)
         /\ d \notin contended => phase[d] = PhaseOf(status[d], FALSE)
<1>1. status[d] \in {"none", "removed"} \cup Written
  BY DEF TypeOK, Written
<1>2. phase[d] = PhaseOf(status[d], d \in contended)
  BY PhaseIs
<1>3. (d \in contended) \in BOOLEAN
  BY SMT
<1>4. phase[d] = IF d \in contended THEN PhaseOf(status[d], TRUE) ELSE PhaseOf(status[d], FALSE)
  BY <1>2, <1>3, PhaseByCase
<1>5. QED
  BY <1>1, <1>4

LEMMA PhaseWillBeAt ==
  ASSUME NEW d \in Deliveries
  PROVE  /\ d \in contended' => phase'[d] = PhaseOf(status'[d], TRUE)
         /\ d \notin contended' => phase'[d] = PhaseOf(status'[d], FALSE)
<1>1. phase'[d] = PhaseOf(status'[d], d \in contended')
  BY PhaseWillBe
<1>2. (d \in contended') \in BOOLEAN
  BY SMT
<1>3. phase'[d] = IF d \in contended' THEN PhaseOf(status'[d], TRUE) ELSE PhaseOf(status'[d], FALSE)
  BY <1>1, <1>2, PhaseByCase
<1>4. QED
  BY <1>3

LEMMA PhaseRests ==
  ASSUME UNCHANGED <<status, contended>>
  PROVE  UNCHANGED phase
BY DEF phase, Queued

(* A step with which overlaps end, on rows that others may have written.   *)
LEMMA OverlapsEnd ==
  ASSUME TypeOK, contended' \subseteq contended,
         \A d \in Deliveries : \/ status'[d] = status[d]
                               \/ d \in contended /\ status[d] \in Written /\ status'[d] \in Written
  PROVE  Lifecycle!Next
<1> DEFINE D == {d \in contended : d \notin contended' /\ status[d] \in Written}
<1>1. D \in SUBSET Deliveries /\ \A d \in D : status'[d] \in Written
  BY DEF TypeOK
<1>2. \A d \in D : phase[d] = "contended"
  BY <1>1, PhaseAt, PhaseCases
<1>3. \A d \in D : phase'[d] \in Lifecycle!Outcomes
  BY <1>1, PhaseWillBeAt, PhaseCases
<1>4. ASSUME NEW d \in Deliveries \ D
      PROVE  phase'[d] = phase[d]
  <2>1. CASE d \in contended' /\ status'[d] = status[d]
    BY <2>1, PhaseAt, PhaseWillBeAt
  <2>2. CASE d \in contended' /\ status[d] \in Written /\ status'[d] \in Written
    <3>1. phase[d] = "contended"
      BY <2>2, PhaseAt, PhaseCases
    <3>2. phase'[d] = "contended"
      BY <2>2, PhaseWillBeAt, PhaseCases
    <3>3. QED
      BY <3>1, <3>2
  <2>3. CASE d \notin contended
    BY <2>3, PhaseAt, PhaseWillBeAt
  <2>4. CASE d \in contended /\ d \notin contended'
    <3>1. status[d] \in {"none", "removed"} /\ status'[d] = status[d]
      BY <2>4, PhaseAt
    <3>2. phase[d] = status[d]
      BY <2>4, <3>1, PhaseAt, PhaseCases
    <3>3. phase'[d] = status[d]
      BY <2>4, <3>1, PhaseWillBeAt, PhaseCases
    <3>4. QED
      BY <3>2, <3>3
  <2>5. QED
    BY <2>1, <2>2, <2>3, <2>4
<1>5. phase' = [d \in Deliveries |-> phase'[d]]
  BY PhaseIsFunction
<1>6. [d \in D |-> phase'[d]] \in [D -> Lifecycle!Outcomes]
  BY <1>3
<1> HIDE DEF D
<1>7. phase' = [d \in Deliveries |-> IF d \in D THEN [e \in D |-> phase'[e]][d] ELSE phase[d]]
  BY <1>4, <1>5
<1>8. Lifecycle!Settle(D, [d \in D |-> phase'[d]])
  BY <1>2, <1>7 DEF Lifecycle!Settle
<1>9. QED
  BY <1>1, <1>6, <1>8 DEF Lifecycle!Next

(* One row is written, outside an overlap.                                 *)
LEMMA PhaseMoves ==
  ASSUME TypeOK, UNCHANGED contended, NEW d \in Deliveries, d \notin contended,
         NEW st, status' = [status EXCEPT ![d] = st]
  PROVE  phase' = [phase EXCEPT ![d] = PhaseOf(st, FALSE)]
<1>1. \A e \in Deliveries \ {d} : status'[e] = status[e]
  BY DEF TypeOK
<1>2. \A e \in Deliveries \ {d} : phase'[e] = phase[e]
  BY <1>1, PhaseAt, PhaseWillBeAt
<1>3. status'[d] = st
  BY DEF TypeOK
<1>4. phase'[d] = PhaseOf(st, FALSE)
  BY <1>3, PhaseWillBeAt
<1>5. /\ phase = [e \in Deliveries |-> phase[e]]
      /\ phase' = [e \in Deliveries |-> phase'[e]]
  BY PhaseIsFunction
<1>6. QED
  BY <1>2, <1>4, <1>5

(* The one row written in a step, in or out of an overlap.                 *)
LEMMA RowWritten ==
  ASSUME TypeOK, HoldsInv, Overlaps, UNCHANGED created,
         NEW d \in Deliveries, NEW st \in Written, status' = [status EXCEPT ![d] = st],
         \A e \in Deliveries \ {d} : TickHolds(e)' = TickHolds(e) /\ ReplayHolds(e)' = ReplayHolds(e),
         TickHolds(d)' \subseteq TickHolds(d), ReplayHolds(d)' \subseteq ReplayHolds(d),
         d \in contended \/ ~Held(d)',
         status[d] \in Written,
         d \notin contended => \/ Queued(d) /\ st # "PENDING"
                               \/ status[d] = "FAILED" /\ st = "PENDING"
  PROVE  HoldsInv' /\ [Lifecycle!Next]_phase
<1>1. \A e \in Deliveries \ {d} : status'[e] = status[e]
  BY DEF TypeOK
<1>2. status'[d] = st
  BY DEF TypeOK
<1>3. HoldsInv' /\ contended' \subseteq contended
  <2>1. \A e \in Deliveries : /\ TickHolds(e)' \subseteq TickHolds(e)
                              /\ ReplayHolds(e)' \subseteq ReplayHolds(e)
    OBVIOUS
  <2>2. \A e \in Deliveries : \/ status'[e] = status[e]
                              \/ /\ status[e] # "none" /\ status'[e] # "none"
                                 /\ e \in contended \/ ~Held(e)'
    BY <1>1, <1>2 DEF Written
  <2>3. QED
    BY <2>1, <2>2, SomebodyLetsGo
<1>4. CASE d \in contended
  BY <1>1, <1>2, <1>3, <1>4, OverlapsEnd
<1>5. CASE d \notin contended
  <2>1. \A e \in Deliveries \ {d} : e \in contended => e \in contended'
    BY DEF Overlaps, Held, HoldsInv, OverlapsAreSeen
  <2>2. contended' = contended
    BY <1>3, <1>5, <2>1 DEF TypeOK
  <2>3. phase' = [phase EXCEPT ![d] = PhaseOf(st, FALSE)]
    BY <1>5, <2>2, PhaseMoves
  <2>4. CASE Queued(d) /\ st # "PENDING"
    <3>1. phase[d] = "queued"
      BY <1>5, <2>4, PhaseAt, PhaseCases DEF Queued, Written
    <3>2. PhaseOf(st, FALSE) \in {"queued", "delivered", "failed"}
      BY PhaseCases DEF Lifecycle!Outcomes
    <3>3. CASE PhaseOf(st, FALSE) = "queued"
      BY <1>3, <2>3, <3>1, <3>3, PhaseIsFunction
    <3>4. CASE PhaseOf(st, FALSE) # "queued"
      BY <1>3, <2>3, <3>1, <3>2, <3>4 DEF Lifecycle!Next, Lifecycle!Move
    <3>5. QED
      BY <3>3, <3>4
  <2>5. CASE status[d] = "FAILED" /\ st = "PENDING"
    <3>1. phase[d] = "failed"
      BY <1>5, <2>5, PhaseAt, PhaseCases DEF Written
    <3>2. PhaseOf(st, FALSE) = "queued"
      BY <2>5, PhaseCases
    <3>3. QED
      BY <1>3, <2>3, <3>1, <3>2 DEF Lifecycle!Next, Lifecycle!Move
  <2>6. QED
    BY <1>5, <2>4, <2>5
<1>6. QED
  BY <1>3, <1>4, <1>5

(* Somebody lets go without a write.                                       *)
LEMMA NothingWritten ==
  ASSUME TypeOK, HoldsInv, Overlaps, UNCHANGED <<created, status>>,
         \A d \in Deliveries : /\ TickHolds(d)' \subseteq TickHolds(d)
                               /\ ReplayHolds(d)' \subseteq ReplayHolds(d)
  PROVE  HoldsInv' /\ [Lifecycle!Next]_phase
<1>1. HoldsInv' /\ contended' \subseteq contended
  BY SomebodyLetsGo
<1>2. QED
  BY <1>1, OverlapsEnd

(* Somebody takes hold of rows that others may hold.                       *)
LEMMA RowsTaken ==
  ASSUME TypeOK, TypeOK', HoldsInv, Overlaps, UNCHANGED <<created, status>>,
         NEW D \in SUBSET Deliveries,
         \A d \in Deliveries : TickHolds(d) \subseteq TickHolds(d)' /\ ReplayHolds(d) \subseteq ReplayHolds(d)',
         \A d \in Deliveries \ D : TickHolds(d)' = TickHolds(d) /\ ReplayHolds(d)' = ReplayHolds(d),
         \/ \A d \in D : Queued(d) /\ ReplayHolds(d)' = ReplayHolds(d)
         \/ \A d \in D : status[d] = "FAILED" /\ TickHolds(d)' = TickHolds(d)
  PROVE  HoldsInv' /\ [Lifecycle!Next]_phase
<1> DEFINE C == contended' \ contended
<1>1. /\ HoldsInv'
      /\ contended \subseteq contended'
      /\ C \subseteq D
  BY SomebodyTakes
<1>2. C \in SUBSET Deliveries
  BY DEF TypeOK
<1>3. \A d \in C : phase[d] \in {"queued", "failed"}
  <2> SUFFICES ASSUME NEW d \in C
               PROVE  phase[d] \in {"queued", "failed"}
    OBVIOUS
  <2>1. d \in Deliveries /\ d \notin contended /\ status[d] \in {"PENDING", "RETRYING", "FAILED"}
    BY <1>1, <1>2 DEF Queued
  <2>2. QED
    BY <2>1, PhaseAt, PhaseCases DEF Written
<1>4. \A d \in C : phase'[d] = "contended"
  <2> SUFFICES ASSUME NEW d \in C
               PROVE  phase'[d] = "contended"
    OBVIOUS
  <2>1. d \in Deliveries /\ d \in contended' /\ status'[d] \in Written
    BY <1>1, <1>2 DEF Queued, Written
  <2>2. QED
    BY <2>1, PhaseWillBeAt, PhaseCases
<1>5. \A d \in Deliveries \ C : phase'[d] = phase[d]
  BY <1>1, PhaseAt, PhaseWillBeAt
<1>6. phase' = [d \in Deliveries |-> phase'[d]]
  BY PhaseIsFunction
<1> HIDE DEF C
<1>7. Lifecycle!Overlap(C)
  BY <1>3, <1>4, <1>5, <1>6 DEF Lifecycle!Overlap
<1>8. QED
  BY <1>1, <1>2, <1>7 DEF Lifecycle!Next

-----------------------------------------------------------------------------
(* The lifecycle                                                           *)

LEMMA LifecycleInit == Init => Lifecycle!Init
<1> SUFFICES ASSUME Init PROVE phase = [d \in Deliveries |-> "none"]
  BY DEF Lifecycle!Init
<1>1. TypeOK
  BY WebhookInit DEF WInv
<1>2. \A d \in Deliveries : status[d] = "none" /\ d \notin contended
  BY DEF Init
<1>3. \A d \in Deliveries : phase[d] = "none"
  BY <1>1, <1>2, PhaseAt, PhaseCases
<1>4. QED
  BY <1>3, PhaseIsFunction

(* A tick's worker lets go of one delivery.                                *)
LEMMA WorkerLetsGo ==
  ASSUME TypeOK, NEW t \in Ticks, NEW d \in Deliveries, job[t][d] = "posting",
         NEW v \in {"none", "counting"}, job' = [job EXCEPT ![t][d] = v],
         UNCHANGED replaying
  PROVE  /\ \A e \in Deliveries \ {d} : TickHolds(e)' = TickHolds(e)
         /\ \A e \in Deliveries : ReplayHolds(e)' = ReplayHolds(e)
         /\ t \in TickHolds(d) /\ TickHolds(d)' = TickHolds(d) \ {t}
<1>1. /\ job'[t][d] = v
      /\ \A e \in Deliveries : e # d => job'[t][e] = job[t][e]
      /\ \A u \in Ticks : u # t => job'[u] = job[u]
  BY DEF TypeOK
<1>2. QED
  BY <1>1 DEF TickHolds, ReplayHolds

(* Outside an overlap, it was the only one.                                *)
LEMMA WorkerWasAlone ==
  ASSUME TypeOK, HoldsInv, NEW t \in Ticks, NEW d \in Deliveries, t \in TickHolds(d),
         TickHolds(d)' = TickHolds(d) \ {t}, ReplayHolds(d)' = ReplayHolds(d),
         d \notin contended
  PROVE  ~Held(d)' /\ (Queued(d) \/ status[d] = "removed")
<1>1. ~HeldTwice(d)
  BY DEF HoldsInv, OverlapsAreSeen
<1>2. TickHolds(d) = {t} /\ ReplayHolds(d) = {}
  BY <1>1, AloneHolds
<1>3. ~Held(d)'
  BY <1>2 DEF Held
<1>4. QED
  BY <1>3 DEF HoldsInv, HoldersAreRight

LEMMA ResultLifecycle ==
  ASSUME TypeOK, HoldsInv, NEW t \in Ticks, NEW d \in Deliveries,
         RecordSuccess(t, d) \/ RecordFailure(t, d)
  PROVE  HoldsInv' /\ [Lifecycle!Next]_phase
<1>1. /\ job[t][d] = "posting" /\ status[d] # "removed"
      /\ UNCHANGED <<created, replaying>> /\ Overlaps
  BY DEF RecordSuccess, RecordFailure
<1>2. PICK st \in {"SUCCESS", "FAILED", "RETRYING"} : status' = [status EXCEPT ![d] = st]
  BY DEF RecordSuccess, RecordFailure, Write
<1>3. PICK v \in {"none", "counting"} : job' = [job EXCEPT ![t][d] = v]
  BY DEF RecordSuccess, RecordFailure
<1>4. /\ \A e \in Deliveries \ {d} : TickHolds(e)' = TickHolds(e)
      /\ \A e \in Deliveries : ReplayHolds(e)' = ReplayHolds(e)
      /\ t \in TickHolds(d) /\ TickHolds(d)' = TickHolds(d) \ {t}
  BY <1>1, <1>3, WorkerLetsGo
<1>5. d \notin contended => ~Held(d)' /\ Queued(d)
  BY <1>1, <1>4, WorkerWasAlone
<1>6. status[d] \in Written
  <2>1. CASE d \in contended
    BY <1>1, <2>1, PhaseAt DEF HoldsInv, CreatedInOrder
  <2>2. CASE d \notin contended
    BY <1>5, <2>2 DEF Queued, Written
  <2>3. QED
    BY <2>1, <2>2
<1>7. st \in Written /\ st # "PENDING"
  BY DEF Written
<1>8. QED
  BY <1>1, <1>2, <1>4, <1>5, <1>6, <1>7, RowWritten

LEMMA ReplayWriteLifecycle ==
  ASSUME TypeOK, HoldsInv, NEW r \in Replayers, ReplayWrite(r)
  PROVE  HoldsInv' /\ [Lifecycle!Next]_phase
<1>0. PICK d \in Deliveries : d = replaying[r]
  BY DEF ReplayWrite, TypeOK
<1>1. /\ UNCHANGED <<created, job>> /\ Overlaps
      /\ replaying' = [replaying EXCEPT ![r] = NoDelivery]
  BY DEF ReplayWrite
<1>2. \/ UNCHANGED status
      \/ status[d] # "removed" /\ status' = [status EXCEPT ![d] = "PENDING"]
  BY <1>0 DEF ReplayWrite, Write
<1>3. r \in ReplayHolds(d)
  BY <1>0 DEF ReplayHolds
<1>4. /\ \A e \in Deliveries : TickHolds(e)' = TickHolds(e)
      /\ \A e \in Deliveries \ {d} : ReplayHolds(e)' = ReplayHolds(e)
      /\ ReplayHolds(d)' = ReplayHolds(d) \ {r}
  <2>1. /\ \A q \in Replayers : q # r => replaying'[q] = replaying[q]
        /\ replaying'[r] = NoDelivery /\ replaying[r] = d /\ NoDelivery \notin Deliveries
    BY <1>0, <1>1, OwnerTyped DEF TypeOK
  <2>2. QED
    BY <1>1, <2>1 DEF TickHolds, ReplayHolds
<1>5. d \notin contended => ~Held(d)' /\ status[d] \in {"FAILED", "removed"}
  <2> SUFFICES ASSUME d \notin contended
               PROVE  ~Held(d)' /\ status[d] \in {"FAILED", "removed"}
    OBVIOUS
  <2>1. ~HeldTwice(d)
    BY <1>1 DEF HoldsInv, OverlapsAreSeen
  <2>2. ReplayHolds(d) = {r} /\ TickHolds(d) = {}
    BY <1>1, <1>3, <2>1, AloneHolds
  <2>3. ~Held(d)'
    BY <1>1, <1>4, <2>2 DEF Held
  <2>4. QED
    BY <1>1, <1>3, <2>3 DEF HoldsInv, HoldersAreRight
<1>6. CASE UNCHANGED status
  BY <1>1, <1>4, <1>6, NothingWritten
<1>7. CASE status[d] # "removed" /\ status' = [status EXCEPT ![d] = "PENDING"]
  <2>1. status[d] \in Written
    <3>1. CASE d \in contended
      BY <1>1, <1>7, <3>1, PhaseAt DEF HoldsInv, CreatedInOrder
    <3>2. CASE d \notin contended
      BY <1>5, <1>7, <3>2 DEF Written
    <3>3. QED
      BY <3>1, <3>2
  <2>2. "PENDING" \in Written
    BY DEF Written
  <2>3. QED
    BY <1>1, <1>4, <1>5, <1>7, <2>1, <2>2, RowWritten
<1>8. QED
  BY <1>2, <1>6, <1>7

LEMMA TakeLifecycle ==
  ASSUME TypeOK, TypeOK', HoldsInv,
         \/ \E r \in Replayers, d \in Deliveries : ReplayCheck(r, d)
         \/ \E t \in Ticks : StartTick(t)
  PROVE  HoldsInv' /\ [Lifecycle!Next]_phase
<1>1. ASSUME NEW r \in Replayers, NEW d \in Deliveries, ReplayCheck(r, d)
      PROVE  HoldsInv' /\ [Lifecycle!Next]_phase
  <2>1. /\ replaying[r] = NoDelivery /\ status[d] = "FAILED"
        /\ replaying' = [replaying EXCEPT ![r] = d]
        /\ UNCHANGED <<created, status, job>> /\ Overlaps
    BY <1>1 DEF ReplayCheck
  <2>2. /\ \A q \in Replayers : q # r => replaying'[q] = replaying[q]
        /\ replaying'[r] = d /\ NoDelivery \notin Deliveries
    BY <2>1, OwnerTyped DEF TypeOK
  <2>3. /\ \A e \in Deliveries : TickHolds(e)' = TickHolds(e) /\ ReplayHolds(e) \subseteq ReplayHolds(e)'
        /\ \A e \in Deliveries \ {d} : ReplayHolds(e)' = ReplayHolds(e)
    BY <2>1, <2>2 DEF TickHolds, ReplayHolds
  <2>4. {d} \in SUBSET Deliveries
    OBVIOUS
  <2>5. QED
    BY <2>1, <2>3, <2>4, RowsTaken
<1>2. ASSUME NEW t \in Ticks, StartTick(t)
      PROVE  HoldsInv' /\ [Lifecycle!Next]_phase
  <2> DEFINE due == {d \in Deliveries : Due(d)}
  <2>1. /\ job[t] = Idle
        /\ job' = [job EXCEPT ![t] = [d \in Deliveries |-> IF d \in due THEN "waiting" ELSE "none"]]
        /\ UNCHANGED <<created, status, replaying>> /\ Overlaps
    BY <1>2 DEF StartTick, Busy
  <2>2. /\ \A u \in Ticks : u # t => job'[u] = job[u]
        /\ \A d \in Deliveries : job'[t][d] = IF d \in due THEN "waiting" ELSE "none"
    BY <2>1 DEF TypeOK
  <2>3. \A d \in Deliveries : job[t][d] = "none"
    BY <2>1 DEF Idle
  <2>4. due \in SUBSET Deliveries /\ \A d \in due : Queued(d)
    BY DEF Due, InPage
  <2> HIDE DEF due
  <2>5. /\ \A d \in Deliveries : ReplayHolds(d)' = ReplayHolds(d) /\ TickHolds(d) \subseteq TickHolds(d)'
        /\ \A d \in Deliveries \ due : TickHolds(d)' = TickHolds(d)
    BY <2>1, <2>2, <2>3 DEF TickHolds, ReplayHolds
  <2>6. QED
    BY <2>1, <2>4, <2>5, RowsTaken
<1>3. QED
  BY <1>1, <1>2

LEMMA GiveUpLifecycle ==
  ASSUME TypeOK, HoldsInv,
         Crash \/ \E t \in Ticks, d \in Deliveries : WorkerThrows(t, d)
  PROVE  HoldsInv' /\ [Lifecycle!Next]_phase
<1>1. /\ UNCHANGED <<created, status, replaying>> /\ Overlaps
      /\ \A u \in Ticks, e \in Deliveries : job'[u][e] # "none" => job'[u][e] = job[u][e]
  <2>1. CASE Crash
    BY <2>1 DEF Crash, Idle
  <2>2. ASSUME NEW t \in Ticks, NEW d \in Deliveries, WorkerThrows(t, d)
        PROVE  /\ UNCHANGED <<created, status, replaying>> /\ Overlaps
               /\ \A u \in Ticks, e \in Deliveries : job'[u][e] # "none" => job'[u][e] = job[u][e]
    BY <2>2 DEF WorkerThrows, Idle, TypeOK
  <2>3. QED
    BY <2>1, <2>2
<1>2. \A d \in Deliveries : TickHolds(d)' \subseteq TickHolds(d) /\ ReplayHolds(d)' \subseteq ReplayHolds(d)
  BY <1>1 DEF TickHolds, ReplayHolds
<1>3. QED
  BY <1>1, <1>2, NothingWritten

LEMMA CreateLifecycle ==
  ASSUME TypeOK, HoldsInv, CreateDelivery
  PROVE  HoldsInv' /\ [Lifecycle!Next]_phase
<1> DEFINE d == created + 1
<1>1. /\ d \in Deliveries /\ d > created /\ status' = [status EXCEPT ![d] = "PENDING"]
      /\ created' = d /\ UNCHANGED <<job, replaying, contended>>
      /\ \A e \in Deliveries : e > created' => e > created /\ e # d
  BY OwnerTyped DEF CreateDelivery, Write, TypeOK
<1> HIDE DEF d
<1>2. status[d] = "none" /\ d \notin contended
  BY <1>1 DEF HoldsInv, CreatedInOrder
<1>3. /\ \A e \in Deliveries \ {d} : status'[e] = status[e]
      /\ status'[d] = "PENDING"
  BY <1>1 DEF TypeOK
<1>4. \A e \in Deliveries : TickHolds(e)' = TickHolds(e) /\ ReplayHolds(e)' = ReplayHolds(e)
  BY <1>1 DEF TickHolds, ReplayHolds
<1>5. TickHolds(d) = {} /\ ReplayHolds(d) = {}
  BY <1>1, <1>2 DEF HoldsInv, HoldersAreRight, Queued
<1>6. OverlapsAreSeen'
  BY <1>1, <1>4 DEF HoldsInv, OverlapsAreSeen, HeldTwice, Held, TypeOK
<1>7. HoldersAreRight'
  BY <1>1, <1>3, <1>4, <1>5 DEF HoldsInv, HoldersAreRight, Queued
<1>8. CreatedInOrder'
  <2>1. \A e \in contended : status'[e] # "none"
    BY <1>2, <1>3 DEF HoldsInv, CreatedInOrder, TypeOK
  <2>2. \A e \in Deliveries : e > created' => status'[e] = "none"
    BY <1>1, <1>3 DEF HoldsInv, CreatedInOrder
  <2>3. QED
    BY <1>1, <2>1, <2>2 DEF CreatedInOrder
<1>9. phase[d] = "none"
  BY <1>1, <1>2, PhaseAt, PhaseCases
<1>10. phase' = [phase EXCEPT ![d] = "queued"]
  <2>1. phase' = [phase EXCEPT ![d] = PhaseOf("PENDING", FALSE)]
    BY <1>1, <1>2, PhaseMoves
  <2>2. PhaseOf("PENDING", FALSE) = "queued"
    BY PhaseCases DEF Written
  <2>3. QED
    BY <2>1, <2>2
<1>11. Lifecycle!Next
  BY <1>1, <1>9, <1>10 DEF Lifecycle!Next, Lifecycle!Move
<1>12. QED
  BY <1>6, <1>7, <1>8, <1>11 DEF HoldsInv

LEMMA DeleteLifecycle ==
  ASSUME TypeOK, HoldsInv, NEW s \in Subs, Delete(s)
  PROVE  HoldsInv' /\ [Lifecycle!Next]_phase
<1> DEFINE D == {d \in Deliveries : Owner[d] = s /\ status[d] # "none"}
<1>1. /\ \A d \in Deliveries : status'[d] = IF d \in D THEN "removed" ELSE status[d]
      /\ UNCHANGED <<job, replaying, contended, created>>
  BY DEF Delete
<1>2. \A d \in D : status[d] # "none"
  OBVIOUS
<1>3. D \in SUBSET Deliveries
  OBVIOUS
<1> HIDE DEF D
<1>4. HoldsInv'
  BY <1>1, <1>2, <1>3, NobodyMoves DEF Waits
<1>5. \A d \in D : phase[d] # "none"
  <2> SUFFICES ASSUME NEW d \in D
               PROVE  phase[d] # "none"
    OBVIOUS
  <2>1. status[d] \in {"removed"} \cup Written /\ d \in Deliveries
    BY <1>2, <1>3, PhaseAt
  <2>2. QED
    BY <2>1, PhaseAt, PhaseCases DEF Lifecycle!Outcomes
<1>6. \A d \in D : phase'[d] = "removed"
  BY <1>1, <1>3, PhaseWillBeAt, PhaseCases
<1>7. \A d \in Deliveries \ D : phase'[d] = phase[d]
  BY <1>1, PhaseAt, PhaseWillBeAt
<1>8. phase' = [d \in Deliveries |-> IF d \in D THEN "removed" ELSE phase[d]]
  BY <1>6, <1>7, PhaseIsFunction
<1>9. Lifecycle!Remove(D)
  BY <1>5, <1>8 DEF Lifecycle!Remove
<1>10. QED
  BY <1>3, <1>4, <1>9 DEF Lifecycle!Next

(* The other steps are not seen.                                           *)
LEMMA OtherLifecycle ==
  ASSUME TypeOK, HoldsInv,
         \/ UNCHANGED vars
         \/ \E S \in SUBSET Subs : CreateSubscriptions(S)
         \/ \E s \in Subs, state \in {"active", "inactive"}, b \in Budgets, slower \in BOOLEAN :
              Patch(s, state, b, slower)
         \/ \E t \in Ticks, d \in Deliveries : Post(t, d) \/ CountFailure(t, d)
         \/ \E d \in Deliveries : BackoffElapses(d)
  PROVE  HoldsInv' /\ [Lifecycle!Next]_phase
<1>1. UNCHANGED <<replaying, contended, created, status>>
  BY DEF CreateSubscriptions, Patch, Post, CountFailure, BackoffElapses
<1>2. \A t \in Ticks, d \in Deliveries : Waits(t, d)' <=> Waits(t, d)
  <2>1. CASE UNCHANGED job
    BY <2>1 DEF Waits
  <2>2. ASSUME NEW t \in Ticks, NEW d \in Deliveries, Post(t, d) \/ CountFailure(t, d)
        PROVE  \A u \in Ticks, e \in Deliveries : Waits(u, e)' <=> Waits(u, e)
    <3>1. PICK v : /\ job' = [job EXCEPT ![t][d] = v]
                   /\ \/ v = "posting" /\ job[t][d] = "waiting"
                      \/ v = "none" /\ job[t][d] = "counting"
      BY <2>2 DEF Post, CountFailure
    <3>2. /\ job'[t][d] = v
          /\ \A e \in Deliveries : e # d => job'[t][e] = job[t][e]
          /\ \A u \in Ticks : u # t => job'[u] = job[u]
      BY <3>1 DEF TypeOK
    <3>3. QED
      BY <3>1, <3>2 DEF Waits
  <2>3. QED
    BY <2>1, <2>2 DEF CreateSubscriptions, Patch, BackoffElapses
<1>3. HoldsInv'
  BY <1>1, <1>2, NobodyMoves
<1>4. UNCHANGED phase
  BY <1>1, PhaseRests
<1>5. QED
  BY <1>3, <1>4

LEMMA LifecycleStep ==
  ASSUME TypeOK, TypeOK', HoldsInv, [Next]_vars
  PROVE  HoldsInv' /\ [Lifecycle!Next]_phase
<1>1. CASE UNCHANGED vars
  BY <1>1, OtherLifecycle
<1>2. CASE Request
  <2>1. ASSUME NEW r \in Replayers, ReplayWrite(r) \/ \E d \in Deliveries : ReplayCheck(r, d)
        PROVE  HoldsInv' /\ [Lifecycle!Next]_phase
    BY <2>1, ReplayWriteLifecycle, TakeLifecycle
  <2>2. QED
    BY <1>2, <2>1, OtherLifecycle, DeleteLifecycle, CreateLifecycle DEF Request
<1>3. ASSUME NEW t \in Ticks, StartTick(t) \/ \E d \in Deliveries : Work(t, d)
      PROVE  HoldsInv' /\ [Lifecycle!Next]_phase
  BY <1>3, TakeLifecycle, OtherLifecycle, ResultLifecycle, GiveUpLifecycle DEF Work
<1>4. CASE Crash \/ \E d \in Deliveries : BackoffElapses(d)
  BY <1>4, GiveUpLifecycle, OtherLifecycle
<1>5. QED
  BY <1>1, <1>2, <1>3, <1>4 DEF Next

(* Every delivery goes through the documented lifecycle, however many      *)
(* ticks and replay requests overlap, whatever is edited, deleted, or lost *)
(* in a crash: a delivered one is taken back, and one that is not failed   *)
(* queued again, by nobody whose work on it did not overlap another's, and *)
(* such an overlap never begins on a delivered one.                        *)
THEOREM LifecycleThroughOverlaps == Spec => LifecycleKept
<1>1. Init => HoldsInv
  BY HoldsInit
<1>2. TypeOK /\ TypeOK' /\ HoldsInv /\ [Next]_vars => HoldsInv' /\ [Lifecycle!Next]_phase
  BY LifecycleStep
<1>3. Init => Lifecycle!Init
  BY LifecycleInit
<1>4. QED
  BY <1>1, <1>2, <1>3, WebhookTypesKept, PTL DEF Spec, LifecycleKept, Lifecycle!Spec
=============================================================================
