---------------------------- MODULE WebhookDelivery ----------------------------
(***************************************************************************)
(* The webhook delivery worker (apps/ingester/src/webhook-worker.ts) and   *)
(* the API routes that write the same rows (apps/web/.../webhooks).        *)
(*                                                                         *)
(* A tick of the worker's setInterval takes a snapshot of the queued rows  *)
(* and works it off with a pool of concurrent workers.  setInterval does   *)
(* not wait for the previous tick, so Ticks names the ticks that may be in *)
(* progress together.  Every await is a point where others step in: the    *)
(* snapshot, the POST with its answer and the write of the result, the     *)
(* write of the subscription's counter.  The answer changes nothing that   *)
(* another process can see before it is written, so answer and write are   *)
(* one step.                                                               *)
(*                                                                         *)
(* Deliveries are numbered in the order of createdAt.  A row's backoff has *)
(* elapsed when ready; every write of the row sets updatedAt and so starts *)
(* it again.                                                               *)
(***************************************************************************)
EXTENDS Integers, FiniteSets

CONSTANTS
  Subs,            \* ids of webhook subscriptions
  NumDeliveries,   \* bound: deliveries ever created
  Owner,           \* Owner[d]: subscription the delivery belongs to
  Ticks,           \* ticks that can be in progress at the same time
  Replayers,       \* replay requests that can be in progress at the same time
  PageSize,        \* findMany take: 100
  MaxConcurrent,   \* MAX_CONCURRENT_DELIVERIES
  DefaultRetries,  \* schema default of maxRetries
  Budgets,         \* values tried for maxRetries in PATCH
  MaxEdits,        \* bound: PATCH, DELETE and replay requests
  MaxCrashes,      \* bound: crashes of the ingester
  MaxErrors        \* bound: failed database writes of the worker

Deliveries == 1..NumDeliveries
NoDelivery == 0

ASSUME WebhookAssumption ==
  /\ NumDeliveries \in Nat
  /\ Owner \in [Deliveries -> Subs]
  /\ PageSize \in Nat \ {0} /\ MaxConcurrent \in Nat \ {0}
  /\ DefaultRetries \in Nat /\ Budgets \subseteq Nat
  /\ MaxEdits \in Nat /\ MaxCrashes \in Nat /\ MaxErrors \in Nat
  /\ IsFiniteSet(Subs) /\ IsFiniteSet(Ticks) /\ IsFiniteSet(Replayers)

VARIABLES
  subState,        \* new, active, inactive (isActive FALSE) or deleted
  maxRetries, failedDeliveries,    \* WebhookSubscription
  status, attempt, completed,      \* WebhookDelivery; completedAt is set
  ready,           \* the backoff since updatedAt has elapsed
  created,         \* number of deliveries created
  job,             \* job[t][d]: where tick t is with delivery d
  snap,            \* snap[t][d]: attempt and maxRetries as tick t read them
  live,            \* workers of the tick that have not thrown
  replaying,       \* delivery a replay request has read as FAILED
  edits, crashes, errors,          \* used up of the bounds
  failures,        \* history: failed answers recorded per delivery
  budgets,         \* history: every maxRetries a subscription has had
  contended        \* history: deliveries with an overlap of ticks or replays under way

subVars   == <<subState, maxRetries, failedDeliveries, budgets>>
rowVars   == <<status, attempt, completed, ready, created, failures>>
tickVars  == <<job, snap, live>>
bounds    == <<edits, crashes, errors>>
replays   == <<replaying, contended>>
vars      == <<subVars, rowVars, tickVars, replays, bounds>>

Idle   == [d \in Deliveries |-> "none"]
Unread == [d \in Deliveries |-> [attempt |-> 0, maxRetries |-> 0]]

Init ==
  /\ subState = [s \in Subs |-> "new"]
  /\ maxRetries = [s \in Subs |-> DefaultRetries]
  /\ failedDeliveries = [s \in Subs |-> 0]
  /\ budgets = [s \in Subs |-> {DefaultRetries}]
  /\ status = [d \in Deliveries |-> "none"]
  /\ attempt = [d \in Deliveries |-> 0]
  /\ completed = [d \in Deliveries |-> FALSE]
  /\ ready = [d \in Deliveries |-> FALSE]
  /\ created = 0
  /\ failures = [d \in Deliveries |-> 0]
  /\ job = [t \in Ticks |-> Idle]
  /\ snap = [t \in Ticks |-> Unread]
  /\ live = [t \in Ticks |-> 0]
  /\ replaying = [r \in Replayers |-> NoDelivery] /\ contended = {}
  /\ edits = 0 /\ crashes = 0 /\ errors = 0

-----------------------------------------------------------------------------
(* The rows a tick picks *)

Queued(d) == status[d] \in {"PENDING", "RETRYING"}

(* The page is cut before the rows of inactive or exhausted subscriptions  *)
(* are filtered out, so those hold places in it.                           *)
InPage(d) ==
  Queued(d) /\ Cardinality({e \in Deliveries : e < d /\ Queued(e)}) < PageSize

Deliverable(d) ==
  /\ subState[Owner[d]] = "active"
  /\ attempt[d] < maxRetries[Owner[d]]

Due(d) == InPage(d) /\ Deliverable(d) /\ ready[d]

InFlight(t) == {d \in Deliveries : job[t][d] \in {"posting", "counting"}}
Busy(t)     == job[t] # Idle

(* Ticks and replay requests that have read a row and are yet to write it. *)
TickHolds(d)   == {t \in Ticks : job[t][d] \in {"waiting", "posting"}}
ReplayHolds(d) == {r \in Replayers : replaying[r] = d}
Held(d)        == TickHolds(d) # {} \/ ReplayHolds(d) # {}
HeldTwice(d)   == Cardinality(TickHolds(d)) + Cardinality(ReplayHolds(d)) > 1

(* An overlap lasts from the second reader until the last has written or   *)
(* is gone.                                                                *)
Overlaps ==
  contended' = {d \in Deliveries : HeldTwice(d)' \/ (d \in contended /\ Held(d)')}

Write(d, st, att, done) ==
  /\ status' = [status EXCEPT ![d] = st]
  /\ attempt' = [attempt EXCEPT ![d] = att]
  /\ completed' = [completed EXCEPT ![d] = done]
  /\ ready' = [ready EXCEPT ![d] = FALSE]

-----------------------------------------------------------------------------
(* API routes *)

(* POST /webhooks creates one, POST /webhooks/batch several in one         *)
(* transaction; both leave isActive and maxRetries at their defaults.      *)
CreateSubscriptions(S) ==
  /\ S # {} /\ \A s \in S : subState[s] = "new"
  /\ subState' = [s \in Subs |-> IF s \in S THEN "active" ELSE subState[s]]
  /\ UNCHANGED <<maxRetries, failedDeliveries, budgets, rowVars, tickVars, replays, bounds>>

Exists(s) == subState[s] \in {"active", "inactive"}

(* PATCH /webhooks/[id]; a longer retryDelayMs takes rows back into their  *)
(* backoff.                                                                *)
Patch(s, state, budget, slower) ==
  /\ edits < MaxEdits
  /\ Exists(s)
  /\ subState' = [subState EXCEPT ![s] = state]
  /\ maxRetries' = [maxRetries EXCEPT ![s] = budget]
  /\ budgets' = [budgets EXCEPT ![s] = @ \cup {budget}]
  /\ ready' = [d \in Deliveries |-> ready[d] /\ ~(slower /\ Owner[d] = s)]
  /\ edits' = edits + 1
  /\ UNCHANGED <<failedDeliveries, status, attempt, completed, created, failures,
                 tickVars, replays, crashes, errors>>

(* DELETE /webhooks/[id]: the database removes the deliveries with it.     *)
Delete(s) ==
  /\ edits < MaxEdits
  /\ Exists(s)
  /\ subState' = [subState EXCEPT ![s] = "deleted"]
  /\ status' = [d \in Deliveries |->
                  IF Owner[d] = s /\ status[d] # "none" THEN "removed" ELSE status[d]]
  /\ edits' = edits + 1
  /\ UNCHANGED <<maxRetries, failedDeliveries, budgets, attempt, completed, ready, created,
                 failures, tickVars, replays, crashes, errors>>

(* External: whatever queues a delivery for an event; the row's defaults   *)
(* are PENDING and attempt 1.                                              *)
CreateDelivery ==
  LET d == created + 1
  IN  /\ d \in Deliveries
      /\ Exists(Owner[d])
      /\ Write(d, "PENDING", 1, FALSE)
      /\ created' = d
      /\ UNCHANGED <<subVars, failures, tickVars, replays, bounds>>

(* Seeded bug: the replay route does not look at the status.               *)
ReplayCheckAnyStatus(r, d) ==
  /\ edits < MaxEdits
  /\ replaying[r] = NoDelivery
  /\ status[d] \notin {"none", "removed"}
  /\ subState[Owner[d]] = "active"
  /\ replaying' = [replaying EXCEPT ![r] = d]
  /\ edits' = edits + 1
  /\ UNCHANGED <<subVars, rowVars, tickVars, crashes, errors>>
  /\ Overlaps

(* The replay route reads the row and its subscription ...                 *)
ReplayCheck(r, d) ==
  /\ edits < MaxEdits
  /\ replaying[r] = NoDelivery
  /\ status[d] = "FAILED"
  /\ subState[Owner[d]] = "active"
  /\ replaying' = [replaying EXCEPT ![r] = d]
  /\ edits' = edits + 1
  /\ UNCHANGED <<subVars, rowVars, tickVars, crashes, errors>>
  /\ Overlaps

(* Seeded bug: the replay leaves completedAt set.                          *)
ReplayWriteKeepsStamp(r) ==
  LET d == replaying[r]
  IN  /\ d # NoDelivery
      /\ \/ status[d] = "removed" /\ UNCHANGED <<status, attempt, completed, ready>>
         \/ status[d] # "removed" /\ Write(d, "PENDING", 0, completed[d])
      /\ replaying' = [replaying EXCEPT ![r] = NoDelivery]
      /\ UNCHANGED <<subVars, created, failures, tickVars, bounds>>
      /\ Overlaps

(* ... and re-queues it, whatever became of it in between; the update of a *)
(* row that is gone is an error response.                                  *)
ReplayWrite(r) ==
  LET d == replaying[r]
  IN  /\ d # NoDelivery
      /\ \/ status[d] = "removed" /\ UNCHANGED <<status, attempt, completed, ready>>
         \/ status[d] # "removed" /\ Write(d, "PENDING", 0, FALSE)
      /\ replaying' = [replaying EXCEPT ![r] = NoDelivery]
      /\ UNCHANGED <<subVars, created, failures, tickVars, bounds>>
      /\ Overlaps

-----------------------------------------------------------------------------
(* The worker *)

(* getPendingDeliveries and the start of the pool. *)
StartTick(t) ==
  LET due == {d \in Deliveries : Due(d)}
  IN  /\ ~Busy(t)
      /\ due # {}
      /\ job' = [job EXCEPT ![t] = [d \in Deliveries |-> IF d \in due THEN "waiting" ELSE "none"]]
      /\ snap' = [snap EXCEPT ![t] = [d \in Deliveries |->
                    IF d \in due THEN [attempt |-> attempt[d], maxRetries |-> maxRetries[Owner[d]]]
                                 ELSE Unread[d]]]
      /\ live' = [live EXCEPT ![t] =
                    IF Cardinality(due) < MaxConcurrent THEN Cardinality(due) ELSE MaxConcurrent]
      /\ UNCHANGED <<subVars, rowVars, replaying, bounds>>
      /\ Overlaps

(* Seeded bug: the attempt is charged when the POST is sent, and again     *)
(* when it fails.                                                          *)
PostCharges(t, d) ==
  /\ job[t][d] = "waiting"
  /\ \A e \in 1..(d - 1) : job[t][e] # "waiting"
  /\ Cardinality(InFlight(t)) < live[t]
  /\ job' = [job EXCEPT ![t][d] = "posting"]
  /\ attempt' = [attempt EXCEPT ![d] = @ + 1]
  /\ UNCHANGED <<subVars, status, completed, ready, created, failures, snap, live,
                 replays, bounds>>

(* Seeded bug: a worker ends after its first row instead of taking the     *)
(* next one.                                                               *)
PostFirstOnly(t, d) ==
  /\ job[t][d] = "waiting"
  /\ \A e \in 1..(d - 1) : snap[t][e] = Unread[e]
  /\ Cardinality(InFlight(t)) < live[t]
  /\ job' = [job EXCEPT ![t][d] = "posting"]
  /\ UNCHANGED <<subVars, rowVars, snap, live, replays, bounds>>

(* A free worker takes the next row of the snapshot and sends the POST.    *)
Post(t, d) ==
  /\ job[t][d] = "waiting"
  /\ \A e \in 1..(d - 1) : job[t][e] # "waiting"
  /\ Cardinality(InFlight(t)) < live[t]
  /\ job' = [job EXCEPT ![t][d] = "posting"]
  /\ UNCHANGED <<subVars, rowVars, snap, live, replays, bounds>>

(* A 2xx answer in time: the row is updated by id alone. *)
RecordSuccess(t, d) ==
  /\ job[t][d] = "posting"
  /\ status[d] # "removed"
  /\ Write(d, "SUCCESS", attempt[d], TRUE)
  /\ job' = [job EXCEPT ![t][d] = "none"]
  /\ UNCHANGED <<subVars, created, failures, snap, live, replaying, bounds>>
  /\ Overlaps

(* Seeded bug: attempt is taken for the number of attempts left.           *)
RecordFailureCountingDown(t, d) ==
  LET newAttempt == snap[t][d].attempt - 1
      isFinal    == newAttempt <= 0
  IN  /\ job[t][d] = "posting"
      /\ status[d] # "removed"
      /\ Write(d, IF isFinal THEN "FAILED" ELSE "RETRYING", newAttempt, completed[d] \/ isFinal)
      /\ failures' = [failures EXCEPT ![d] = @ + 1]
      /\ job' = [job EXCEPT ![t][d] = IF isFinal THEN "counting" ELSE "none"]
      /\ UNCHANGED <<subVars, created, snap, live, replaying, bounds>>
      /\ Overlaps

(* Seeded bug: the last attempt of the budget is given up.                 *)
RecordFailureTooEarly(t, d) ==
  LET newAttempt == snap[t][d].attempt + 1
      isFinal    == newAttempt + 1 >= snap[t][d].maxRetries
  IN  /\ job[t][d] = "posting"
      /\ status[d] # "removed"
      /\ Write(d, IF isFinal THEN "FAILED" ELSE "RETRYING", newAttempt, completed[d] \/ isFinal)
      /\ failures' = [failures EXCEPT ![d] = @ + 1]
      /\ job' = [job EXCEPT ![t][d] = IF isFinal THEN "counting" ELSE "none"]
      /\ UNCHANGED <<subVars, created, snap, live, replaying, bounds>>
      /\ Overlaps

(* Any other answer, or none within 10 s: the attempt is charged to the    *)
(* number the snapshot holds.                                              *)
RecordFailure(t, d) ==
  LET newAttempt == snap[t][d].attempt + 1
      isFinal    == newAttempt >= snap[t][d].maxRetries
  IN  /\ job[t][d] = "posting"
      /\ status[d] # "removed"
      /\ Write(d, IF isFinal THEN "FAILED" ELSE "RETRYING", newAttempt, completed[d] \/ isFinal)
      /\ failures' = [failures EXCEPT ![d] = @ + 1]
      /\ job' = [job EXCEPT ![t][d] = IF isFinal THEN "counting" ELSE "none"]
      /\ UNCHANGED <<subVars, created, snap, live, replaying, bounds>>
      /\ Overlaps

(* Seeded bug: the increment is repeated when its reply is late.           *)
CountFailureAgain(t, d) ==
  /\ job[t][d] = "counting"
  /\ Exists(Owner[d])
  /\ failedDeliveries' = [failedDeliveries EXCEPT ![Owner[d]] = @ + 1]
  /\ UNCHANGED <<subState, maxRetries, budgets, rowVars, job, snap, live, replays, bounds>>

CountFailure(t, d) ==
  /\ job[t][d] = "counting"
  /\ Exists(Owner[d])
  /\ failedDeliveries' = [failedDeliveries EXCEPT ![Owner[d]] = @ + 1]
  /\ job' = [job EXCEPT ![t][d] = "none"]
  /\ UNCHANGED <<subState, maxRetries, budgets, rowVars, snap, live, replays, bounds>>

(* An update that throws, because its row is gone or the database failed,  *)
(* ends the worker that made it; the others go on, and with the last one   *)
(* the rest of the snapshot is given up.                                   *)
WorkerThrows(t, d) ==
  /\ \/ job[t][d] = "posting" /\ status[d] = "removed" /\ UNCHANGED errors
     \/ job[t][d] = "counting" /\ ~Exists(Owner[d]) /\ UNCHANGED errors
     \/ d \in InFlight(t) /\ errors < MaxErrors /\ errors' = errors + 1
  /\ live' = [live EXCEPT ![t] = @ - 1]
  /\ job' = [job EXCEPT ![t] =
               IF live[t] = 1 THEN Idle ELSE [job[t] EXCEPT ![d] = "none"]]
  /\ UNCHANGED <<subVars, rowVars, snap, replaying, edits, crashes>>
  /\ Overlaps

(* The ingester dies and starts again: nothing of its ticks was stored.    *)
Crash ==
  /\ crashes < MaxCrashes
  /\ \E t \in Ticks : Busy(t)
  /\ job' = [t \in Ticks |-> Idle]
  /\ snap' = [t \in Ticks |-> Unread]
  /\ live' = [t \in Ticks |-> 0]
  /\ crashes' = crashes + 1
  /\ UNCHANGED <<subVars, rowVars, replaying, edits, errors>>
  /\ Overlaps

(* Seeded bug: only rows that were never attempted come out of the backoff.*)
BackoffElapsesOnce(d) ==
  /\ status[d] = "PENDING" /\ ~ready[d]
  /\ ready' = [ready EXCEPT ![d] = TRUE]
  /\ UNCHANGED <<subVars, status, attempt, completed, created, failures, tickVars,
                 replays, bounds>>

(* retryDelayMs (or the default) and the jitter have passed. *)
BackoffElapses(d) ==
  /\ Queued(d) /\ ~ready[d]
  /\ ready' = [ready EXCEPT ![d] = TRUE]
  /\ UNCHANGED <<subVars, status, attempt, completed, created, failures, tickVars,
                 replays, bounds>>

-----------------------------------------------------------------------------
Request ==
  \/ \E S \in SUBSET Subs : CreateSubscriptions(S)
  \/ \E s \in Subs, state \in {"active", "inactive"}, b \in Budgets, slower \in BOOLEAN :
       Patch(s, state, b, slower)
  \/ \E s \in Subs : Delete(s)
  \/ CreateDelivery
  \/ \E r \in Replayers : ReplayWrite(r) \/ \E d \in Deliveries : ReplayCheck(r, d)

Work(t, d) ==
  \/ Post(t, d)
  \/ RecordSuccess(t, d)
  \/ RecordFailure(t, d)
  \/ CountFailure(t, d)
  \/ WorkerThrows(t, d)

Next ==
  \/ Request
  \/ \E t \in Ticks : StartTick(t) \/ \E d \in Deliveries : Work(t, d)
  \/ Crash
  \/ \E d \in Deliveries : BackoffElapses(d)

(* setInterval keeps firing, a POST is answered or times out after 10 s,   *)
(* updates settle, and time passes; nobody has to send requests or crash.  *)
Fairness ==
  /\ \A t \in Ticks : WF_vars(StartTick(t))
  /\ \A t \in Ticks, d \in Deliveries : WF_vars(Work(t, d))
  /\ \A d \in Deliveries : WF_vars(BackoffElapses(d))

Spec == Init /\ [][Next]_vars /\ Fairness

-----------------------------------------------------------------------------
(* Properties *)

TypeOK ==
  /\ subState \in [Subs -> {"new", "active", "inactive", "deleted"}]
  /\ maxRetries \in [Subs -> Nat] /\ failedDeliveries \in [Subs -> Nat]
  /\ budgets \in [Subs -> SUBSET Nat]
  /\ status \in [Deliveries -> {"none", "PENDING", "RETRYING", "SUCCESS", "FAILED", "removed"}]
  /\ attempt \in [Deliveries -> Nat] /\ failures \in [Deliveries -> Nat]
  /\ completed \in [Deliveries -> BOOLEAN] /\ ready \in [Deliveries -> BOOLEAN]
  /\ created \in 0..NumDeliveries
  /\ job \in [Ticks -> [Deliveries -> {"none", "waiting", "posting", "counting"}]]
  /\ snap \in [Ticks -> [Deliveries -> [attempt : Nat, maxRetries : Nat]]]
  /\ live \in [Ticks -> 0..MaxConcurrent]
  /\ replaying \in [Replayers -> Deliveries \cup {NoDelivery}] /\ contended \in SUBSET Deliveries
  /\ edits \in 0..MaxEdits /\ crashes \in 0..MaxCrashes /\ errors \in 0..MaxErrors

(* No attempt is charged that was not made: however ticks, replays and     *)
(* crashes interleave, the attempt number is at most one more than the     *)
(* failed answers recorded (webhook-worker.ts:161-168).                    *)
AttemptsAreCharged ==
  \A d \in Deliveries : attempt[d] <= 1 + failures[d]

(* Edits of maxRetries between a tick's snapshot and its write never leave *)
(* a row outside the budgets its subscription has had: it is not attempted *)
(* beyond the largest, and not given up before the smallest.               *)
WithinSomeBudget ==
  \A d \in Deliveries :
    /\ attempt[d] <= 1 \/ \E b \in budgets[Owner[d]] : attempt[d] <= b
    /\ status[d] = "FAILED" => \E b \in budgets[Owner[d]] : attempt[d] >= b

(* completedAt marks every settled row and no row that waits for its first *)
(* attempt, also after a replay raced with a tick.                         *)
CompletionStamped ==
  \A d \in Deliveries :
    /\ status[d] \in {"SUCCESS", "FAILED"} => completed[d]
    /\ status[d] = "PENDING" => ~completed[d]

(* failedDeliveries never overstates: each increment belongs to a failed   *)
(* answer recorded for one of the subscription's deliveries.               *)
FailedCounterSound ==
  \A s \in Subs :
    LET owned == {d \in Deliveries : Owner[d] = s}
        pending == {w \in Ticks \X owned : job[w[1]][w[2]] = "counting"}
        failed(d) == {d} \X (1..failures[d])
    IN  failedDeliveries[s] + Cardinality(pending)
          <= Cardinality(UNION {failed(d) : d \in owned})

(* Why a queued delivery may wait forever: its subscription is inactive,   *)
(* its attempts have reached a budget that was lowered, or a page of older *)
(* rows that are themselves stuck is read before it every time.            *)
Stuck(d) == ~Deliverable(d) \/ ~InPage(d)

(* Liveness of the queue: a queued delivery is settled, removed, or stuck  *)
(* for one of those reasons (getPendingDeliveries, processWebhookDeliveries).*)
QueuedIsSettled ==
  \A d \in Deliveries : Queued(d) ~> ~Queued(d) \/ Stuck(d)

(* The lifecycle a delivery promises its owner, through any overlap of     *)
(* ticks and replays: a row is taken back, settled twice or re-queued only *)
(* by somebody whose hold of it overlapped another's, an overlap begins on *)
(* a queued or a failed row only, and a row delivered when the last of     *)
(* them is done stays delivered (webhook-worker.ts:44-67, 126-180,         *)
(* replay/route.ts:41-84).                                                 *)
phase == [d \in Deliveries |->
            CASE status[d] \in {"none", "removed"} -> status[d]
              [] status[d] \notin {"none", "removed"} /\ d \in contended -> "contended"
              [] Queued(d) /\ d \notin contended -> "queued"
              [] status[d] = "SUCCESS" /\ d \notin contended -> "delivered"
              [] status[d] = "FAILED" /\ d \notin contended -> "failed"]

Lifecycle == INSTANCE DeliveryLifecycle

LifecycleKept == Lifecycle!Spec

(* docs/webhooks.md:278-279: "Failed attempts are ... retried after the    *)
(* subscription's retryDelayMs ... up to maxRetries."  Without edits and   *)
(* crashes a delivery is posted at most once and maxRetries times again.   *)
(* The code does not keep this when ticks overlap.                         *)
RetriesWithinBudget ==
  \A d \in Deliveries : failures[d] <= 1 + maxRetries[Owner[d]]
=============================================================================
