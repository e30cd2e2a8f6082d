# MizpahPulse: models, checks and proofs

MizpahPulse watches the Stellar network. A Soroban contract (`contracts/pulse`)
counts "pulses" and takes tips; an ingester (`apps/ingester`) captures events from
Horizon and Soroban RPC, stores them and delivers webhooks; the web application
(`apps/web`) serves the API, live feeds and the dashboard; a WebSocket server
(`apps/ws`) broadcasts what the ingester announces on Redis.

The modules here are TLA+ translations of that code. TLC checks them on small
instances, TLAPS proves the main safety properties for all values of the constants.
`PROJECT.json` maps every definition to the lines it stands for and lists
runs, seeded bugs, hazards and theorems.

## Inventory

| Component | State | Operations | Talks to | Hard because |
|---|---|---|---|---|
| Pulse contract, core (`contracts/pulse/src/lib.rs`) | metadata (owner, paused, version), version record, committee, counter, cap, rate limits, last pulse per address | initialize, ownership, upgrade, committee, pause, kill, caps and limits, six ways to pulse | token contract, other contracts (`broadcast_pulse`) | any sequence of calls by anybody; u32 edges; two authorities over one flag; settings that change between two calls of the same rule |
| Pulse contract, payments | native token address; balances and allowances in the token contract | tip, tip from allowance, batch tip, withdraw | token contract | a payment and its pulse have to happen together or not at all |
| Webhook worker (`webhook-worker.ts`) | `WebhookDelivery` and `WebhookSubscription` rows; in memory the snapshot and the pool of a tick | tick, POST, record result, count failure | receivers' endpoints, API routes through the rows | ticks overlap, snapshots go stale, crash between answer and update, a failing update ends a worker |
| Webhook routes (`api/v1/webhooks`) | the same rows | create, batch create, PATCH, DELETE, replay, rotate secret | worker through the rows | check and write in separate calls |
| Ingest pipeline (`ingester/src/index.ts`) | three BullMQ queues, `Event` rows, Pub/Sub client, stage of startup or shutdown | capture, process (check, insert, publish, add), dead letter, shutdown | Horizon, Soroban RPC, Postgres, Redis | at-least-once jobs, duplicates racing, lost replies, crash and shutdown between steps |
| Capture (`index.ts` 65-219) | stream flag, backoff, watchdog, last ledger | open, message, error, silence, poll | raw queue, health record | reconnects leave old streams behind, polls overlap and share `lastLedger` |
| Wallet sync (`monitored-sync.ts`, `api/v1/wallets`) | key cache, last write per wallet | account activity, registration | pipeline, wallet rows | cache and throttle shared by concurrent handlers |
| Retention (`retention.ts`), daily statistics (`daily-stats.ts`) | one run in progress each | prune in batches, roll up the day before | event rows, `DailyStat` rows | one deletes the rows the other counts and the feed resumes from |
| Live feed (`events/live`, `sse-clients.ts`) | last event id, registry of streams | connect, poll, abort, SIGTERM | event rows, retention | overlapping polls, resume, pruned rows, ties |
| WebSocket server (`apps/ws`), client hook (`use-websocket.ts`) | connections counted, connection status | connect, refuse, broadcast, break, reconnect | Redis Pub/Sub, feed page | the two ends notice a break at different times |
| Figures (`api/v1/stats`, `lib/timeseries.ts`) | two caches of 30 s | figures by the hour, by the day, totals | event rows, `DailyStat` rows | two reads with rollups and inserts in between, answers kept |
| Rate limiter (`rate-limit.ts`), API keys | fixed windows in Redis, one entry in memory | check, fall back, clean up | the write routes | two calls per check, either may fail after it took effect |
| Dashboard pages with their routes (`apps/web/src/app/dashboard`) | what is shown, requests under way, rows of the server | load, search, page, create, delete, save | routes through `apiFetch` | answers out of order, lost replies, other tabs |
| Wallet, dialogs and balances (`useFreighter`, `useSendTransaction`, `useContractInvoke`) | connection, dialog, transaction under way | connect, sign, submit, wait, load balance | Freighter, Horizon | a payment may be made whose answer is lost |
| Other read-only routes, public pages, UI package, Stellar helpers, types, scripts | none, or presentation | | | |

What makes each modelled component correct:

- contract core: the counter never passes the cap or its width; nothing pulses while
  paused; owner, pause flag and version change only by the right authority and in the
  right direction; the version record tells the truth; pulses of a limited address
  keep their distance;
- payments: nobody pays without a signature or an allowance, an allowance falls by what
  was paid with it, a payment is never without its pulse, and the core's guarantees are
  kept;
- webhooks: attempts are charged for what happened, a settled row is stamped, the
  failure counter never overstates, a queued row is settled unless it is stuck for a
  known reason, and a row follows the documented lifecycle but while several readers
  of it overlap;
- pipeline: an event is stored once, announced and handed on at most once; a
  completed job's event is stored; dead letters are earned; every job is decided;
- capture: one stream is current at a time and the flag says so; polling never moves
  past an event that was not queued; capture comes back after every error;
- wallet sync: what is shown as last synced is a time at which the account was active,
  and writes keep the throttle's distance;
- event table: a stream that resumes passes over nothing but what a timestamp cannot
  tell; SIGTERM finds every stream; figures of a day never shrink; retention converges;
- web application: what a page shows answers what was asked; lists agree with the
  server as far as they go; every event that is due is in one bucket of a series; the feed loses nothing it
  should show, mirrors its buffer and renders what is in view; what is reported of a
  payment is what happened; no spinner runs for good; no window lets through more
  requests than the limit.

## Modules

| Module | Models | Depends on |
|---|---|---|
| `PulseContract` | core contract, one action per entry point; `auth` is the set of addresses that signed the call | |
| `PulsePayments` | payment entry points, token balances and allowances | EXTENDS `PulseContract` |
| `PulseContractProofs`, `PulsePaymentsProofs` | theorems | EXTEND the above |
| `DeliveryLifecycle` | what a delivery promises: none, queued, delivered or failed, re-queued by a replay, removed; contended while several work on it | |
| `WebhookDelivery` | worker and routes, one step per await | implements `DeliveryLifecycle` |
| `WebhookDeliveryProofs` | theorems | EXTENDS `WebhookDelivery` |
| `EventHandoff` | what the pipeline promises per event: stored once, then announced and handed on at most once | |
| `IngestPipeline` | queue, handler, dead letters, startup, shutdown, crash | implements `EventHandoff` |
| `IngestPipelineProofs` | theorems | EXTENDS `IngestPipeline` |
| `EventFeed` | event table, live stream, retention, daily statistics | |
| `EventFeedProofs` | theorems | EXTENDS `EventFeed` |
| `HorizonStream`, `SorobanPolling` | the two sources of capture | |
| `WalletSync` | sync tracker and the route that registers wallets | |
| `IngesterSources` | the three above as one process, with the health status | EXTENDS them |
| `IngesterSourcesProofs` | theorems | EXTENDS `IngesterSources` |
| `FeedPage`, `VirtualList` | live feed page, its windowed rows | `FeedPage` EXTENDS `LiveSocket` |
| `LiveSocket` | WebSocket server and client hook | |
| `SearchPage` | search page and route | |
| `ListPages`, `DeliveryLog` | webhooks, API keys and wallets pages with their routes; the log of one webhook | |
| `StatsPages` | overview, analytics, contracts, notifications | |
| `SettingsPage` | notification preferences, page and route | |
| `WalletPage`, `BalanceDisplay` | Freighter, payments, invocations; displays of balances | |
| `RateLimiter` | the limiter of the routes | |
| `Timeseries` | the routes of the figures with their caches, over event rows and rolled-up days | |
| `WebRoutesProofs` | theorems | EXTENDS `RateLimiter`, `Timeseries` |
| `WebApp` | the parts of the web application in one specification | EXTENDS them |
| `WebAppProofs` | theorems | EXTENDS `WebApp`, `WebRoutesProofs` |
| `MC*` | constants for TLC | |

Operators that start with "Seeded bug" in their comment are not part of a model. Each
is a wrong version of the definition that follows it, used to confirm that a property
notices it.

### Contract

A transaction is atomic: a call that returns an error changes nothing, so a refused
call is the absence of a step and every action is one successful call. `auth` ranges over
all sets of signers, the contract's own address (`Self`) among the accounts but never
among the signers: `get_or_create_meta` makes the contract its own owner until it is
initialized, and that owner cannot sign. `update_wasm` is left out because it
replaces the code the model is about. u32 counters have the width `MaxU32`, symbols
and hashes are abstracted, time is a bounded ledger clock whose steps are
nondeterministic. Queries are `NoEffect`.

`PulsePayments` adds two tokens. The token contract is external: `Moved` is a transfer
that fails when the payer cannot pay. The order inside a call matters only for what
is undone with it: transfer, then pulse, and a refused pulse takes the transfer back. That
transfers neither make nor lose tokens is the token contract's business and no property here.

### Webhooks

Each tick has a snapshot (`snap`) and a pool (`job`, `live`). A POST with its answer and
the update by id are separated from the snapshot by other processes' steps; so is the
increment of `failedDeliveries` from the update before it. An update that
throws (row deleted, database error) ends its worker; when the last worker is gone the
rest of the snapshot is dropped and the tick is over. Backoff is a flag
that every write clears and time sets again. `contended` is a history: the deliveries that two
ticks, two replays or one of each have read and not all written yet. While it lasts any of
them may overwrite the other's result, also a SUCCESS by a stale failure; `phase` shows such a
row as "contended", and `DeliveryLifecycle` promises of it only that it ends up queued,
delivered or failed. `CreateDelivery` is external: the
repository has no producer of deliveries besides seeds and tests. Signatures, endpoints and the secret are
left out.

### Pipeline

`where[j]` is the BullMQ set a job is in or the next await of its handler. `creator`
is the unique row, by the job that inserted it. `Fault` is a failed call; for inserts
and adds it may have taken effect. A crash puts active jobs back until
`maxStalledCount` is used up and fails them after that. Three histories say what a dead letter can
rest on: attempts that threw though no call of theirs failed (`refused`), adds whose effect
the queue did not see (`unseen`), letters that were lost (`unlettered`). `Exit` is the end of
`shutdown`, after which the service is started again. The paging token is always
present, as both capture paths supply it; the rate limiter of the worker
only delays `Pick`.

### Event table

One clock of ticks, `DayLength` to a day, serves the cutoff of retention, the day of a
rollup and the timestamps. `Store` is the pipeline's insert as a reader of the table sees it: a row is committed up to
`MaxDelay` after its capture, so rows arrive behind later ones. A poll of the
live stream is three steps (lookup of the last event's time, query, sending), and
`Slots` of them share `lastEventId`, as `setInterval` does not wait. The query may
return rows of one timestamp in any order, and its page may cut through them. One client
is followed over its connections; the server learns of a lost one later. A retention
run and a rollup each take one step per call to the database, of which any may
throw. `RetentionDb` is what the job is called with: the whole Prisma client, as
`index.ts` does, or the event delegate. `setting` chooses the instance that a
behaviour belongs to, so that one run covers streams over live rows, streams over
rows that vanish at once, and statistics with retention.

### Capture and wallet sync

The SDK's own close function is never kept, so in `HorizonStream` a stream that was
given up stays open, may deliver, and may fail, which schedules one more restart; only
the mark `closed` tells it from the current one. Timers fire at any time; the lengths of
backoff and silence are left out. In `SorobanPolling` each poll reads `lastLedger` when it
starts and writes it after its last add; the server (external) answers the first
`Limit` events and refuses a ledger outside its window. In `WalletSync` a call waits for
the key cache, the wallets and each update in turn. The three share no state, so
`IngesterSources` runs one of them per behaviour (`part`), and `HealthStatus` is
derived from their flags.

### Web application

`WebApp` likewise runs one part per behaviour: one page is open at a time, opening
another unmounts it, and the limiter's state is its own. In each part a request is a
value in flight together with the moment the server served it, so that answers can be
late, out of order or lost after they took effect. Rows are numbers, queries, ranges and
forms members of small sets, texts and layout are left out. Where the code is known
to let the page disagree with the server, a variable or operator names the case (`doubt` and `staleRows` in
`ListPages`, `doubt` in `BalanceDisplay`, `outrun` in `StatsPages`, `edited` and `overtaken` in
`SettingsPage`, `unsure` in `WalletPage`, `stale` in `FeedPage`), the module's head
describes it, and the property is about everything else.

In `SearchPage` the route answers with matches in the order of their timestamps, and rows of one timestamp in an
order that every request chooses anew (`Orders`), as the query orders by nothing else. Two pages may so repeat one row of
a ledger and leave out another; `SearchFits` says that nothing else goes wrong without an insert. That retention removes
matches during a search is left out.

In `StatsPages` the load of the analytics always fails: the page asks for 500 events
(`analytics/page.tsx` 234), the route accepts 100 at most (`api/v1/events/route.ts` 33), and one refused
request fails the three. What the page shows is therefore a sample of the range chosen, marked as one.

In `ListPages` a route lists the newest `ListLimit` rows (20 webhooks, 50 wallets, 100 keys) and no page asks for
more. `pageEnd` is the row at which the list shown was cut, and rows below it are not expected. `staleRows` are the
rows changed since the list was read, by another client or by a change whose answer was lost: those show as they
were until the next load. Rows of one `createdAt` are not modelled. In `WalletPage` Freighter that is not installed,
that refuses and that answers with an error are one case, as the hook ends them the same way.

`FeedPage` keeps three histories for what may rightly be missing from the feed: what was
replaced in the hook's slot before a render (`overwritten`), what had been rendered when the
feed was last cleared (`clearedTo`, taken from `lastRendered`), and a cut by the full buffer, which shows in
the buffer itself. `clearedTo` has to be the newest event rendered and not the newest one
in the buffer: simulated events can push every real one out before the feed is
cleared.

In `Timeseries` each query of a request to the database is a step, so that events, rollups and other
requests come in between. A bucket is the set of events it counts, and a figure
that is larger than it should be shows as an event in two buckets. Retention is left
out of it: what it does to the statistics is in `EventFeed`.

`RateLimiter` has one identifier and one process: counters in Redis by aligned window,
the entry in memory, and requests that give way at every await. Every Redis call may
fail before or after it took effect.

## Runs

| Run | Instance | Shows |
|---|---|---|
| `contract` | 2 addresses and the contract, `MaxU32` 3, batches of 2, clock 3, caps {1,3}, intervals {0,2} | type, committee and audit-trail invariants; cap, pause, authority, consent and cooldown as action properties |
| `contract_kill` | smaller | violation of `KillIsFinal`: documented as irreversible, undone by `unpause` |
| `payments` | 2 addresses, 2 tokens, supply 1, amounts {0,1} | consent, payment with pulse, allowance with payment and pulse; refinement of the core |
| `webhook_overlap` | 1 delivery, 2 ticks, 2 replays, budgets {1,3}, 2 edits, 1 crash, 1 database error | what holds however ticks and replays interleave, the lifecycle refinement, and the liveness of the queue |
| `webhook_page` | 3 deliveries of 2 subscriptions, 1 tick, 1 replay, page 2, pool 1 | the liveness of the queue with competition for the page and the pool |
| `webhook_budget` | 1 delivery, 2 ticks, no edits, no crash | violation of `RetriesWithinBudget`: five POSTs on a budget of three |
| `ingest` | 2 captures of one event, 3 attempts, 3 faults, 2 crashes, 1 shutdown | all pipeline properties, refinement of `EventHandoff`, liveness |
| `ingest_lost` | 1 job, 1 shutdown, no faults, no crash | violation of `StoredIsQueued`: a shutdown loses the hand-off |
| `feed` | 3 events of 2 categories, 2 polls at once, page 1, 1 error, 1 SIGTERM; 2 connections over 2 ticks without retention, 1 connection with half a day kept, and statistics over 3 days with 2.5 kept | registry and types, nothing skipped, figures never shrink, and the feed catches up |
| `retention_client` | 2 events, statistics setting, the job called with the client | violation of `RetentionConverges` |
| `capture` | 3 transactions, 3 lapses; 5 contract events in 5 ledgers, answers of 3, window 3, 2 polls, 1 fault; 2 wallets of one account, 2 calls, clock 2, 1 mishap | one current stream, no gap in polling, spaced writes, capture goes on |
| `webapp` | 2 connections for a limit of 1, 2 published and 2 simulated events for a buffer of 2; 6 rows; 2 queries; up to 4 matches in ties of 2, pages of 2; up to 3 rows, lists of 2; up to 3 to 5 requests a page; 2 webhooks; 2 ranges; 2 clicks in the wallet; 3 requests to the limiter over 2 windows; series of 8 with hours of 2 and days of 4, 2 events, 2 figures | answers fit, lists agree, the feed shows what arrived, payments as reported, the limiter's budget, and spinners stop |

`UninitializedIsPristine`, `VersionMonotonic` (contract) are not in a run's list any more:
they are proved (`PristineBeforeOwner`, `VersionNeverBack`).

Why the bounds suffice. The contract's rules compare two addresses or two calls;
a width of 3 has room for a batch of 2 that passes the cap, the width or neither, and a
clock of 3 has one gap shorter and one as long as the interval. For the hazards of the webhook worker
two ticks, two replays and one row are the smallest conflict, three rows and a page of two the smallest
page that can be clogged. Two jobs on one token are the duplicate race; two crashes with
`maxStalledCount` 1 reach the job that is failed as stalled. In the feed a page of one is always cut and two polls
are the smallest overlap; three rows are a late one, a tied one and one to resume from;
five ticks are two midnights, past which a rollup can count a day again while
retention runs. The
capture's two full ledgers in a row fill an answer, and its empty ledger is one that a
poll's own ledger leads over; two of everything that overlaps is the smallest conflict there.
On the pages, a late answer needs two requests, a page that is outrun a third; two
lines of a list are a page and a remainder; a tie across the end of a page needs three matches and pages of two, a
list that is cut one row more than the limit; two windows and three requests are a burst
across a boundary and one request over the limit.

Fairness. The contract has none: nobody has to call it. The worker's interval keeps
firing, a POST ends by answer or by its 10 s timeout, updates settle and time passes, so
`StartTick`, each tick's work on each row and `BackoffElapses` are weakly fair;
requests, edits, crashes and errors are not. BullMQ serves waiting and delayed jobs, calls settle,
and startup and shutdown run to their end: `Pick`, `BackoffElapses`, the handler and
`Process` are weakly fair; captures, shutdowns, faults and crashes are not.
In the feed the timers keep firing and the database answers (`PollLookup`, `PollQuery`,
`PollSend`, the steps of a pruning and the exit after SIGTERM); connecting, storing,
the clock and rollups are not fair. Capture restarts a stream when its backoff is over,
fetches the transaction's operations and handles messages of the current stream; polls
go through their steps. Errors, silence and faults are free to happen or not, within their bounds. In
the web application requests are answered or given up: `apiFetch` aborts after 15 s, the
browser and Freighter give up on the rest; users, other tabs and the network have no fairness.
`CHECK_DEADLOCK FALSE` is set where the system may come to rest with all rows settled
or all jobs decided.

## Disagreements between documents and code

- `kill` is documented as permanent; `unpause` and `emergency_resume` undo its pause.
- `maxRetries` is documented as the bound of the retries; overlapping ticks exceed it.
- Every stored event is to be queued downstream; a shutdown between insert and add
  leaves one that never is.
- The retention job is documented to converge when no stale events remain; the ingester
  passes it the Prisma client where it needs the event delegate, and every run throws.

`api/v1/stats/route.ts` 60-67 returns the number of events of the most active account as
`uniqueAccounts`. It is a matter of data, not of order, and no model reaches it.

## Proofs

Checked by TLAPS for all constants that satisfy the named assumptions
(the named `ASSUME`s of the component modules, evaluated by TLC in the runs).

`PulseContractProofs`: the inductive invariant `IInv` is the type invariant with the
committee, audit-trail and pristine invariants and what connects them; none of
them is inductive alone (the audit trail needs the types of version and record,
and the pristine invariant needs that the contract never signs for itself). `InitEstablishes` and `NextPreserves`
have a step per entry point. From `IInv` follow the action properties: a step that
changes the counter is one of the pulse calls (`PulsesOnlyFired`), a step that changes the metadata one of
its writers (`MetaWriters`); each action property is then a case distinction over those few.

`PulsePaymentsProofs`: `PayStepIsCoreStep` maps every payment to a pulse or a
stutter of the core, so the contract with payments implements the core contract
(`PaymentsRefineCore`), and the core's theorems carry over (`RailsRespectPause`).
`PaymentsTyped` is about a batch whose entries are applied one after the other, a fold,
of which the provers know nothing: `NatSet` is induction for one set of numbers at a time, from the least number
outside the set, and with it `FoldExists` and `FoldTyped` give a fold's value. `DebitsConsented`,
`PaymentsPulse` and `AllowancePulled` then distinguish the few actions that lower a balance or an allowance; the last
needs that a transfer which succeeds takes exactly its amount from the payer.

`WebhookDeliveryProofs`: `WInv` adds to the properties what a tick holds in memory. The
attempt it read is charged already (`SnapshotsCharged`), was below a budget the
subscription has had (`SnapshotsInBudget`), and a tick has no more deliveries in flight
than workers left (`PoolBounded`), without which the number of workers could become
negative. Nothing in it limits the number of ticks, so these properties are proved for
overlapping ticks. `LifecycleThroughOverlaps` assumes nothing of them either. Its invariant, `HoldsInv`, says what
holds of a row that is not contended: it has one reader at most, a tick that works on it found it queued, and
a replay request found it failed, which it still is. Every step then maps to one of `DeliveryLifecycle`: a
write moves the row, a second reader starts an overlap (`Overlap`), and the last write, or the crash that takes the
readers away, ends one (`Settle`). `CounterIsSound`
compares the counter of a subscription with two cardinalities: `CounterInv` is the
property with the types, and each step leaves the three alone (`CounterQuiet`), adds one failure and one
increment to come (`CounterRecords`), or turns an increment to come into one of the counter
(`CounterCounts`).

`IngestPipelineProofs`: `PInv` adds two facts to the types. A job that can still run has
attempts left (`AttemptsLeft`), without which the retry count is not bounded; and only the job that inserted
the row stands between insert and add, before which nothing was announced or
queued (`CreatorHandsOff`), which is what makes the hand-off happen at most once. The
refinement of `EventHandoff` and the stored-before-completed invariant follow. For `DeadLettersEarned`, `DInv` adds the accounts
of the histories: a job is refused once at most, for after it the row is there or the process is restarted, so that all but one of
the attempts of a dead letter were used up by calls that failed.

`EventFeedProofs`: `FInv` adds `PollsCover` to the types and the registry. A poll looks from a
time before which all rows are covered (received, late or tied), and a page in hand leaves out no
older row than its own; without it nothing is known of what a send leaves behind. The
proof shows also where `late` and `tied` are needed: a row stored behind one in hand, and a page
that ends among equals. For the figures `RInv` adds that counts
read and counts written are not above the rows of a day that may be counted again
(`FiguresBehind`) and that a pruning's batch is older than that day (`PruningBehind`),
which is where two whole days of retention are needed.

`IngesterSourcesProofs`: `OneCurrentStream` is inductive as stated. `PollingHasNoGap` needs that a
poll in progress asked from a ledger before which nothing is missing, and that what is missing up to
the top of its page it still has to add (`PollsBehind`); the answer of the server is taken from its
definition by the lemma `AnswerHasNoGap`. For the wallets, `WInv` adds that a call
stands for an event of its account (`CallsGrounded`) and that
the stamp is not behind any write (`StampsLead`). `SourcesSafe` puts the three together
for the process as a whole.

`WebRoutesProofs`: no two requests of a window were told the same count (`CountsDiffer`),
because the counter leads all it has told (`RedisLeads`) and one that expires belongs to a
window that is over, and because the entry in memory is newer than all before it
(`MemoryLeads`). An injection from the requests let through into 1..`MaxRequests` gives the budget.
`SeriesCountsOnce` rests on arithmetic of buckets (a time is in the bucket of its floor and in no
other, and the hours of a day are that day's), and on an invariant that relates what a request has read so far, and what
the caches hold, to the rows of the moment it was read.

`WebAppProofs`: each part has an inductive invariant of its own, kept by its steps and left alone by those of
the others; `AppInv` is their conjunction. In the wallet every transaction belongs to a click; what is being signed or submitted is of the
last one, and whatever else of it the network has is in `unsure`. In the search page at most one search or
page of the last number is under way, and without an error the results end where the
next page begins. That the i-th result has fewer than i newer rows and at least i that are not older is
counting: of the first i of an order (`OrdersRank`), and so of each page (`PageCut`, `RanksRest`). Log, settings, balances and figures bound the
requests that can be under way for one question. The feed needs most: what is on the wire is in order and newer
than what was rendered (`WireInv`, `AheadInv`), buffer and storage are in order (`ListsInv`), and
of every event published over a connection, either it is on the wire or all that is on
the wire is newer and it waits in the slot or had its turn (`LossInv`); the server's count of open connections
is a cardinality, kept by `AcceptMoves` and `ClosedMoves`. On the pages with lists, a request said to be alone is the
only one (`AloneInv`), at most one creates a row (`MakesInv`), and without a doubt the rows of the server
down to `pageEnd`, but for `staleRows`, are those shown, with one created and less those deleted there whose answers are due (`AgreeInv`); from that follows
`ListsKept`. Its lists come from a filter, a recursion over data: `KeptIs` proves of a filter what it keeps, by `NatSet`, for one
set of lengths at a time, and `FirstRowsAre` what a cut leaves of a list in decreasing order.

Only model-checked: all liveness (`QueuedIsSettled`, `CapturedIsDecided`, `FeedCatchesUp`,
`CaptureGoesOn`, `SpinnersStop`), which is
outside the prover's reach. Every other property of the passing runs is a theorem. No module declares a
recursive operator: `Kept` and the folds are recursive functions.

## Not modelled

- `use-event-source.ts`: no page uses it; the live feed's clients are modelled from
  the route.
- Rooms per account and contract and the `stats` events of the WebSocket server: no part
  of the application listens to them.
- The authentication with an API key and `getRateLimitInfo`: lookups without state but for
  `lastUsedAt`.
- The other read-only routes: queries without state.
- `update_wasm`, the secret of a subscription, a raw event without a paging token: see the
  sections above and the notes in `PROJECT.json`.
- `mock.ts` stands in for the database in tests. Stellar client helpers, shared types,
  UI package, public pages, scripts, deployment: presentation, pure functions or generated.
- The limiter is modelled for one process and one identifier: several processes share
  Redis as several requests do, but each has a memory of its own.
- Lengths of timers, apart from those a property is about.
