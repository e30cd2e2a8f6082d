------------------------------- MODULE EventFeed -------------------------------
(***************************************************************************)
(* The readers and janitors of the event table: the live stream over SSE   *)
(* (apps/web/.../events/live, lib/sse-clients.ts), the retention job       *)
(* (apps/ingester/src/retention.ts) and the daily statistics               *)
(* (apps/ingester/src/daily-stats.ts).                                     *)
(*                                                                         *)
(* A stream polls the table every 2 s; setInterval does not wait for the   *)
(* poll before, so a connection may have one poll per slot of Slots in     *)
(* progress, all of them on the same lastEventId.  One client is followed  *)
(* over its connections: it may lose one and open the next with the last   *)
(* id it received.  A poll is three steps: the lookup of the last event's  *)
(* timestamp, the query, and the loop that sends the rows.  Only the polls *)
(* of the connection the client holds are followed; those of one that was  *)
(* lost or closed reach nobody.                                            *)
(*                                                                         *)
(* An event is stored when the pipeline commits it, which may be after     *)
(* events with a later timestamp.  Time counts ticks, DayLength to a day;  *)
(* the cutoff of the retention job and the day of a rollup are taken from  *)
(* it.                                                                     *)
(***************************************************************************)
EXTENDS Integers, FiniteSets, FiniteSetsExt

CONSTANTS
  Events,          \* ids of events
  Category,        \* Category[e]
  Filter,          \* categories of the stream's query; {} is no filter
  Slots,           \* polls of a connection that can be in progress together
  PageSize,        \* findMany take: 20
  DayLength,       \* ticks of a day
  Settings,        \* the instances one run covers: bounds on the connections
                   \* and the clock, EVENT_RETENTION_DAYS in hundredths of a
                   \* day (0 is unset) and whether statistics are kept
  MaxDelay,        \* bound: ticks from an event's capture to its row
  RetentionDb,     \* "client" as index.ts calls the job, "delegate" as the tests do
  BatchSize,       \* RETENTION_BATCH_SIZE
  MaxErrors,       \* bound: polls, rollups and prunings that throw
  MaxStops         \* bound: SIGTERMs of the web server

NoEvent    == 0
NoTime     == -1       \* no lower bound: every timestamp is greater

ASSUME FeedAssumption ==
  /\ IsFiniteSet(Events) /\ Events \subseteq Nat \ {NoEvent}
  /\ Settings \subseteq [conns : Nat, time : Nat, retention : Nat, stats : BOOLEAN]
  /\ MaxDelay \in Nat /\ MaxErrors \in Nat /\ MaxStops \in Nat
  /\ PageSize \in Nat \ {0} /\ BatchSize \in Nat \ {0} /\ DayLength \in Nat \ {0}
  /\ RetentionDb \in {"client", "delegate"}

VARIABLES
  setting,         \* the instance; never changes
  now,             \* the clock
  table, ts,       \* rows present; timestamp of every event ever stored
  arrived,         \* events ever stored
  conn,            \* conn[c]: none, open, gone (client left unnoticed), closed
  registry,        \* streams in the map of sse-clients.ts
  lastEventId,     \* of the route's closure, for the open connection
  poll,            \* poll[p]: one poll of it
  server,          \* up, stopping (SIGTERM handled) or down
  received, lastReceived, late,    \* the client: ids received, the last of them,
                                   \* and ids stored behind one it had or was sent
  pruning,         \* the retention run in progress
  stat,            \* stat[d][c]: DailyStat.count
  rollup,          \* buckets of a rollup still to be written
  errors, stops    \* used up of the bounds

clientVars == <<received, lastReceived, late>>
streamVars == <<conn, registry, lastEventId, poll, server, stops>>
tableVars  == <<table, ts, arrived>>
jobVars    == <<pruning, stat, rollup>>
vars       == <<setting, now, tableVars, clientVars, streamVars, jobVars, errors>>

Conns      == 1..setting.conns
Categories == {Category[e] : e \in Events}
Times      == 0..setting.time
Days       == 0..(setting.time \div DayLength)

IdlePoll == [at |-> "idle", since |-> NoTime, page |-> {}]
NoRun    == [at |-> "idle", cutoff |-> 0, batch |-> {}]
NoRollup == [day |-> 0, counts |-> [c \in Categories |-> 0]]

Init ==
  /\ setting \in Settings
  /\ now = 0
  /\ table = {} /\ arrived = {} /\ ts = [e \in Events |-> 0]
  /\ conn = [c \in Conns |-> "none"] /\ registry = {}
  /\ lastEventId = NoEvent
  /\ poll = [p \in Slots |-> IdlePoll]
  /\ server = "up" /\ stops = 0
  /\ received = {} /\ lastReceived = NoEvent /\ late = {}
  /\ pruning = NoRun /\ rollup = NoRollup
  /\ stat = [d \in Days |-> [c \in Categories |-> 0]]
  /\ errors = 0

Open(c)   == conn[c] = "open"
Live(c)   == conn[c] \in {"open", "gone"}
Wanted(e) == Filter = {} \/ Category[e] \in Filter

-----------------------------------------------------------------------------
(* The event table *)

(* Ids whose frames the client has, or that a poll is about to send it.    *)
InHand == received \cup UNION {poll[p].page : p \in Slots}

(* External: the pipeline commits event e, whose timestamp t is the time of *)
(* its capture.  Ids are numbered in the order of the rows.                *)
Store(e, t) ==
  /\ e \notin arrived /\ \A f \in Events : f < e => f \in arrived
  /\ t <= now /\ now <= t + MaxDelay
  /\ arrived' = arrived \cup {e} /\ table' = table \cup {e}
  /\ ts' = [ts EXCEPT ![e] = t]
  /\ late' = IF \E f \in InHand : t <= ts[f] THEN late \cup {e} ELSE late
  /\ UNCHANGED <<setting, now, received, lastReceived, streamVars, jobVars, errors>>

Tick ==
  /\ now < setting.time /\ now' = now + 1
  /\ UNCHANGED <<setting, tableVars, clientVars, streamVars, jobVars, errors>>

-----------------------------------------------------------------------------
(* The live stream *)

(* A request: a new id is sent along when the client has received one.     *)
Connect(c, resume) ==
  /\ server # "down"
  /\ conn[c] = "none" /\ \A k \in Conns : k < c => conn[k] \in {"gone", "closed"}
  /\ conn' = [conn EXCEPT ![c] = "open"]
  /\ registry' = registry \cup {c}
  /\ lastEventId' = IF resume THEN lastReceived ELSE NoEvent
  /\ UNCHANGED <<setting, now, tableVars, clientVars, poll, server, stops, jobVars, errors>>

SetPoll(p, q) == poll' = [poll EXCEPT ![p] = q]
NoPolls       == [p \in Slots |-> IdlePoll]
Connected     == \E c \in Conns : Open(c)

(* The timer fires; a row that is gone leaves the query without a bound.   *)
PollLookup(p) ==
  /\ Connected /\ poll[p].at = "idle"
  /\ LET id == lastEventId IN
     SetPoll(p, [at |-> "looked", page |-> {},
                    since |-> IF id \in table THEN ts[id] ELSE NoTime])
  /\ UNCHANGED <<setting, now, tableVars, clientVars, conn, registry, lastEventId, server, stops,
                 jobVars, errors>>

(* Seeded bug: gte for gt. *)
NewerOrSame(since) == {e \in table : Wanted(e) /\ ts[e] >= since}

Newer(since) == {e \in table : Wanted(e) /\ ts[e] > since}

(* Seeded bug: the query without its order. *)
IsPageUnordered(P, rows) ==
  /\ P \subseteq rows
  /\ Cardinality(P) = IF Cardinality(rows) < PageSize THEN Cardinality(rows) ELSE PageSize

(* The first PageSize rows by timestamp; rows of one timestamp come in any *)
(* order.                                                                  *)
IsPage(P, rows) ==
  /\ P \subseteq rows
  /\ Cardinality(P) = IF Cardinality(rows) < PageSize THEN Cardinality(rows) ELSE PageSize
  /\ \A e \in P, f \in rows \ P : ts[e] <= ts[f]

PollQuery(p) ==
  /\ poll[p].at = "looked"
  /\ LET rows == Newer(poll[p].since) IN
     \E P \in SUBSET rows :
       /\ IsPage(P, rows)
       /\ SetPoll(p, IF P = {} THEN IdlePoll
                        ELSE [poll[p] EXCEPT !.at = "sending", !.page = P])
  /\ UNCHANGED <<setting, now, tableVars, clientVars, conn, registry, lastEventId, server, stops,
                 jobVars, errors>>

IsLast(P, id) == id \in P /\ \A f \in P : ts[f] <= ts[id]

(* The loop sends the page and leaves lastEventId at its last row.         *)
PollSend(p) ==
  /\ poll[p].at = "sending"
  /\ SetPoll(p, IdlePoll)
  /\ \E id \in poll[p].page :
       /\ IsLast(poll[p].page, id)
       /\ lastEventId' = id /\ lastReceived' = id
  /\ received' = received \cup poll[p].page
  /\ UNCHANGED <<setting, now, tableVars, late, conn, registry, server, stops, jobVars, errors>>

PollThrows(p) ==
  /\ poll[p].at \in {"looked", "sending"} /\ errors < MaxErrors
  /\ SetPoll(p, IdlePoll)
  /\ errors' = errors + 1
  /\ UNCHANGED <<setting, now, tableVars, clientVars, conn, registry, lastEventId, server, stops,
                 jobVars>>

(* The client loses the connection; the server has not noticed.            *)
Drop(c) ==
  /\ Open(c)
  /\ conn' = [conn EXCEPT ![c] = "gone"]
  /\ poll' = NoPolls /\ lastEventId' = NoEvent
  /\ UNCHANGED <<setting, now, tableVars, clientVars, registry, server, stops, jobVars, errors>>

(* Seeded bug: shutdownStream without unregister. *)
AbortForgets(c) ==
  /\ conn[c] = "gone"
  /\ conn' = [conn EXCEPT ![c] = "closed"]
  /\ UNCHANGED <<setting, now, tableVars, clientVars, registry, lastEventId, poll, server, stops,
                 jobVars, errors>>

(* The abort signal or the stream's cancel: shutdownStream.                *)
Abort(c) ==
  /\ conn[c] = "gone"
  /\ conn' = [conn EXCEPT ![c] = "closed"]
  /\ registry' = registry \ {c}
  /\ UNCHANGED <<setting, now, tableVars, clientVars, lastEventId, poll, server, stops, jobVars, errors>>

(* closeAllSseStreams: a last frame for every stream of the registry.      *)
Sigterm ==
  /\ server = "up" /\ stops < MaxStops
  /\ server' = "stopping" /\ stops' = stops + 1
  /\ conn' = [c \in Conns |-> IF c \in registry THEN "closed" ELSE conn[c]]
  /\ registry' = {}
  /\ poll' = NoPolls /\ lastEventId' = NoEvent
  /\ UNCHANGED <<setting, now, tableVars, clientVars, jobVars, errors>>

(* process.exit after 100 ms; streams opened meanwhile break off.          *)
Exit ==
  /\ server = "stopping" /\ server' = "down"
  /\ conn' = [c \in Conns |-> IF Live(c) THEN "closed" ELSE conn[c]]
  /\ registry' = {}
  /\ poll' = NoPolls /\ lastEventId' = NoEvent
  /\ UNCHANGED <<setting, now, tableVars, clientVars, stops, jobVars, errors>>

Restart ==
  /\ server = "down" /\ server' = "up"
  /\ UNCHANGED <<setting, now, tableVars, clientVars, conn, registry, lastEventId, poll, stops,
                 jobVars, errors>>

-----------------------------------------------------------------------------
(* Retention *)

(* Whole days: half a day is accepted as positive and floored to none.     *)
RetentionDays == setting.retention \div 100

(* Seeded bug: the days are counted with today. *)
PruneStartInclusive ==
  /\ setting.retention > 0
  /\ pruning.at = "idle"
  /\ pruning' = [at |-> "find", cutoff |-> now - (RetentionDays - 1) * DayLength, batch |-> {}]
  /\ UNCHANGED <<setting, now, tableVars, clientVars, streamVars, stat, rollup, errors>>

PruneStart ==
  /\ setting.retention > 0
  /\ pruning.at = "idle"
  /\ pruning' = [at |-> "find", cutoff |-> now - RetentionDays * DayLength, batch |-> {}]
  /\ UNCHANGED <<setting, now, tableVars, clientVars, streamVars, stat, rollup, errors>>

Stale(cutoff) == {e \in table : ts[e] < cutoff}

(* The client has no findMany of its own: the call throws and the run ends.*)
PruneFind ==
  /\ pruning.at = "find"
  /\ \E B \in SUBSET Stale(pruning.cutoff) :
       /\ Cardinality(B) = IF Cardinality(Stale(pruning.cutoff)) < BatchSize
                             THEN Cardinality(Stale(pruning.cutoff)) ELSE BatchSize
       /\ pruning' = IF RetentionDb = "client" \/ B = {} THEN NoRun
                     ELSE [pruning EXCEPT !.at = "delete", !.batch = B]
  /\ UNCHANGED <<setting, now, tableVars, clientVars, streamVars, stat, rollup, errors>>

PruneDelete ==
  /\ pruning.at = "delete"
  /\ table' = table \ pruning.batch
  /\ pruning' = IF Cardinality(pruning.batch) < BatchSize THEN NoRun
                ELSE [pruning EXCEPT !.at = "find", !.batch = {}]
  /\ UNCHANGED <<setting, now, ts, arrived, clientVars, streamVars, stat, rollup, errors>>

PruneThrows ==
  /\ pruning.at # "idle" /\ errors < MaxErrors
  /\ pruning' = NoRun /\ errors' = errors + 1
  /\ UNCHANGED <<setting, now, tableVars, clientVars, streamVars, stat, rollup>>

-----------------------------------------------------------------------------
(* Daily statistics *)

DayOf(t) == t \div DayLength

CountOf(d, c) == Cardinality({e \in table : DayOf(ts[e]) = d /\ Category[e] = c})

(* rollupPreviousDay.  groupBy returns no empty buckets: those of counts    *)
(* that are not 0 are still to be written.                                 *)
RollupRead ==
  /\ setting.stats /\ rollup = NoRollup /\ DayOf(now) > 0
  /\ \E c \in Categories : CountOf(DayOf(now) - 1, c) > 0
  /\ rollup' = [day |-> DayOf(now) - 1,
                counts |-> [c \in Categories |-> CountOf(DayOf(now) - 1, c)]]
  /\ UNCHANGED <<setting, now, tableVars, clientVars, streamVars, pruning, stat, errors>>

Written(c) ==
  LET left == [rollup.counts EXCEPT ![c] = 0] IN
  IF \A k \in Categories : left[k] = 0 THEN NoRollup ELSE [rollup EXCEPT !.counts = left]

RollupUpsert(c) ==
  /\ rollup.counts[c] > 0
  /\ stat' = [stat EXCEPT ![rollup.day][c] = rollup.counts[c]]
  /\ rollup' = Written(c)
  /\ UNCHANGED <<setting, now, tableVars, clientVars, streamVars, pruning, errors>>

RollupThrows ==
  /\ rollup # NoRollup /\ errors < MaxErrors
  /\ rollup' = NoRollup /\ errors' = errors + 1
  /\ UNCHANGED <<setting, now, tableVars, clientVars, streamVars, pruning, stat>>

-----------------------------------------------------------------------------
Next ==
  \/ \E e \in Events, t \in Times : Store(e, t)
  \/ Tick
  \/ \E c \in Conns, resume \in BOOLEAN : Connect(c, resume)
  \/ \E p \in Slots : PollLookup(p)
  \/ \E p \in Slots : PollQuery(p)
  \/ \E p \in Slots : PollSend(p)
  \/ \E p \in Slots : PollThrows(p)
  \/ \E c \in Conns : Drop(c)
  \/ \E c \in Conns : Abort(c)
  \/ Sigterm
  \/ Exit
  \/ Restart
  \/ PruneStart
  \/ PruneFind
  \/ PruneDelete
  \/ PruneThrows
  \/ RollupRead
  \/ \E c \in Categories : RollupUpsert(c)
  \/ RollupThrows

(* The timers go on firing and the database answers; nobody has to connect,*)
(* and the clock need not reach another day.                               *)
Fairness ==
  /\ \A p \in Slots :
       WF_vars(PollLookup(p)) /\ WF_vars(PollQuery(p)) /\ WF_vars(PollSend(p))
  /\ WF_vars(Exit)
  /\ WF_vars(PruneStart) /\ WF_vars(PruneFind) /\ WF_vars(PruneDelete)

Spec == Init /\ [][Next]_vars /\ Fairness

-----------------------------------------------------------------------------
(* Properties *)

Polls == [at : {"idle", "looked", "sending"}, since : Times \cup {NoTime}, page : SUBSET Events]

(* Every variable has its type.                                            *)
TypeOK ==
  /\ setting \in Settings /\ now \in Times
  /\ arrived \subseteq Events /\ table \subseteq arrived
  /\ ts \in [Events -> Times]
  /\ conn \in [Conns -> {"none", "open", "gone", "closed"}]
  /\ registry \subseteq Conns
  /\ lastEventId \in Events \cup {NoEvent}
  /\ poll \in [Slots -> Polls]
  /\ server \in {"up", "stopping", "down"}
  /\ received \subseteq arrived /\ late \subseteq arrived
  /\ lastReceived \in received \cup {NoEvent}
  /\ errors \in 0..MaxErrors /\ stops \in 0..MaxStops

(* The registry that SIGTERM works off is exactly the set of live streams: *)
(* none is missed by the shutdown, none stays in the map for good.         *)
RegistryExact == registry = {c \in Conns : Live(c)}

StreamsAccountedFor == TypeOK /\ RegistryExact

(* Events of one timestamp: the query asks for later ones only, so those   *)
(* that do not fit on the page of the first are passed over.               *)
Tied(e) == \E f \in received : f # e /\ ts[f] = ts[e]

(* A client that resumes after each lost connection with the last id it    *)
(* received misses nothing before that id, whichever polls overlapped and  *)
(* whatever was pruned, but for the two cases the timestamp as a cursor    *)
(* cannot tell: rows stored after a later one was read, and ties.          *)
NothingSkipped ==
  lastReceived # NoEvent =>
    \A e \in table :
      (Wanted(e) /\ ts[e] < ts[lastReceived]) => e \in received \cup late \/ Tied(e)

(* On a connection that stays open every row the query wants is sent, with *)
(* the same two exceptions, unless retention removes it first.             *)
FeedCatchesUp ==
  \A e \in Events :
    (e \in table /\ Wanted(e) /\ Connected)
      ~> (e \in received \cup late \/ Tied(e) \/ e \notin table \/ ~Connected)

(* A day's figure only grows when it is rolled up again, "running the same *)
(* day twice" included, though retention works on the same rows: with two  *)
(* or more whole days kept it never reaches into yesterday.                *)
StatsNeverShrink ==
  [][RetentionDays >= 2 =>
       \A d \in Days, c \in Categories : stat'[d][c] >= stat[d][c]]_vars

(* The retention job "converges when no stale events remain".              *)
RetentionConverges ==
  \A e \in Events :
    (e \in table /\ ts[e] < now - RetentionDays * DayLength) ~> (e \notin table)
=============================================================================
