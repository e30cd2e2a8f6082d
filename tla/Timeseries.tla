-------------------------------- MODULE Timeseries --------------------------------
(***************************************************************************)
(* The figures of /api/v1/stats and /api/v1/stats/timeseries: events are   *)
(* counted into hours or days of a range, a day from the DailyStat table   *)
(* once it is rolled up, and both routes answer from a cache of one entry  *)
(* for CacheTtl.  A count is modelled by the set of the events it counts.  *)
(* Requests give way at every query; events arrive, late ones too, and the *)
(* rollup of the day before writes one category after the other.           *)
(*                                                                         *)
(* The code as it is: "any day not yet rolled up" falls back to the raw    *)
(* events only after the last day that is, so a day whose rollup was       *)
(* missed, a category still to be written and an event that came after the *)
(* rollup of its day are counted nowhere; the first day of the range is    *)
(* counted in part, and not at all when a later day is rolled up; a slow   *)
(* request puts its older figures in the place of newer ones; and the      *)
(* figures of /stats are read one by one, of different moments.            *)
(***************************************************************************)
EXTENDS Integers, FiniteSets

CONSTANTS
  Hour, Day,       \* GRANULARITY_MS
  Spans,           \* the values of RANGE_MS
  CacheTtl,        \* CACHE_TTL
  Kinds,           \* the categories of events
  Delays,          \* how late events are stored
  NoFigures,       \* nothing cached, read or answered yet
  FirstNow,        \* the time at first, at least a day after the epoch
  MaxSeriesNow, MaxEventRows, MaxFigures  \* bounds: time, events, requests

ASSUME SeriesAssumption ==
  /\ Hour \in Nat \ {0} /\ Day \in Nat \ {0} /\ Day % Hour = 0
  /\ Spans \subseteq Nat /\ Spans # {} /\ Delays \subseteq Nat /\ CacheTtl \in Nat \ {0}
  /\ FirstNow \in Nat /\ \A s \in Spans : FirstNow - s >= Day
  /\ MaxSeriesNow \in Nat /\ MaxEventRows \in Nat /\ MaxFigures \in Nat

VARIABLES
  clock,
  eventRows,         \* database: the events, [ts, category, stored]
  dailyStat,         \* database: rows [date, category, events]
  groups,            \* ingester: rows of the rollup still to be written
  seriesQueries,     \* requests under way, [key, at, rows, n]
  statsQueries,      \* requests under way, [at, total, recent, n]
  cachedTimeseries,  \* [key, at, buckets], or NoFigures
  cachedStats,       \* [at, total, recent], or NoFigures
  figuresAsked       \* requests so far

databaseVars == <<eventRows, dailyStat, groups>>
cacheVars == <<cachedTimeseries, cachedStats>>
requestsVars == <<seriesQueries, statsQueries, figuresAsked>>
seriesVars == <<clock, databaseVars, cacheVars, requestsVars>>

Keys == [granularity : {Hour, Day}, range : Spans]

SeriesInit ==
  /\ clock = FirstNow /\ eventRows = {} /\ dailyStat = {} /\ groups = {}
  /\ seriesQueries = {} /\ statsQueries = {} /\ figuresAsked = 0
  /\ cachedTimeseries = NoFigures /\ cachedStats = NoFigures

-----------------------------------------------------------------------------
(* The buckets *)

FloorToBucket(ts, granularity) == (ts \div granularity) * granularity

(* for (t = startMs; t <= endMs; t += stepMs)                              *)
FirstBucket(key, at) == FloorToBucket(at - key.range, key.granularity)
BucketStarts(key, at) ==
  {t \in FirstBucket(key, at)..at : (t - FirstBucket(key, at)) % key.granularity = 0}

InRange(rows, key, at) == {r \in rows : FirstBucket(key, at) <= r.ts /\ r.ts <= at}
Filled(key, at, fromStats, raw) ==
  [t \in BucketStarts(key, at) |->
     [stats |-> UNION {s.events : s \in {s \in fromStats : s.date = t}},
      raw |-> {r \in raw : FloorToBucket(r.ts, key.granularity) = t}]]

BuildTimeseriesBuckets(rows, key, at) == Filled(key, at, {}, InRange(rows, key, at))

LastRollupDay(fromStats) ==
  CHOOSE d \in {0} \cup {s.date : s \in fromStats} : \A s \in fromStats : s.date <= d

BuildDailyStatBuckets(fromStats, rows, key, at) ==
  Filled(key, at, fromStats,
    {r \in InRange(rows, key, at) : FloorToBucket(r.ts, Day) > LastRollupDay(fromStats)})

-----------------------------------------------------------------------------
(* The database and the ingester: time passes, an event captured at ts is  *)
(* stored, and the day before is rolled up.                                *)
ClockTicks ==
  /\ clock < MaxSeriesNow /\ clock' = clock + 1
  /\ UNCHANGED <<databaseVars, cacheVars, requestsVars>>

StoreEvent(ts, category) ==
  /\ Cardinality(eventRows) < MaxEventRows
  /\ LET r == [ts |-> ts, category |-> category, stored |-> clock] IN
       r \notin eventRows /\ eventRows' = eventRows \cup {r}
  /\ UNCHANGED <<clock, dailyStat, groups, cacheVars, requestsVars>>

(* rollupPreviousDay: the groups are read at once and written in turn; a   *)
(* failure leaves the rest unwritten.                                      *)
GroupsOf(day) ==
  LET rows(k) == {r \in eventRows : r.category = k /\ FloorToBucket(r.ts, Day) = day} IN
  {[date |-> day, category |-> k, events |-> rows(k)] : k \in {k \in Kinds : rows(k) # {}}}

RollupGroups ==
  /\ groups = {} /\ groups' = GroupsOf(FloorToBucket(clock, Day) - Day)
  /\ UNCHANGED <<clock, eventRows, dailyStat, cacheVars, requestsVars>>
UpsertGroup(g) ==
  /\ groups' = groups \ {g}
  /\ dailyStat' = {s \in dailyStat : s.date # g.date \/ s.category # g.category} \cup {g}
  /\ UNCHANGED <<clock, eventRows, cacheVars, requestsVars>>
RollupFails ==
  /\ groups # {} /\ groups' = {}
  /\ UNCHANGED <<clock, eventRows, dailyStat, cacheVars, requestsVars>>

-----------------------------------------------------------------------------
(* GET /api/v1/stats/timeseries                                            *)

Fresh(cached) == cached # NoFigures /\ clock - cached.at < CacheTtl

(* A hit answers with the cached figures and changes nothing.              *)
TimeseriesHit(key) == Fresh(cachedTimeseries) /\ cachedTimeseries.key = key

GetTimeseries(key) ==
  /\ ~TimeseriesHit(key)
  /\ figuresAsked < MaxFigures /\ figuresAsked' = figuresAsked + 1
  /\ seriesQueries' = seriesQueries \cup
       {[n |-> figuresAsked + 1, key |-> key, at |-> clock, rows |-> NoFigures]}
  /\ UNCHANGED <<clock, databaseVars, cacheVars, statsQueries>>

(* The answer, cached; no await between the last query and it.             *)
Respond(q, buckets) ==
  /\ seriesQueries' = seriesQueries \ {q}
  /\ cachedTimeseries' = [key |-> q.key, at |-> q.at, buckets |-> buckets]

FindRows(q) ==
  /\ q.rows = NoFigures
  /\ LET rows == {r \in eventRows : r.ts >= q.at - q.key.range} IN
     IF q.key.granularity = Day
     THEN /\ seriesQueries' = (seriesQueries \ {q}) \cup {[q EXCEPT !.rows = rows]}
          /\ UNCHANGED cachedTimeseries
     ELSE Respond(q, BuildTimeseriesBuckets(rows, q.key, q.at))
  /\ UNCHANGED <<clock, databaseVars, cachedStats, statsQueries, figuresAsked>>

FindStats(q) ==
  /\ q.rows # NoFigures
  /\ Respond(q, BuildDailyStatBuckets(
       {s \in dailyStat : s.date >= q.at - q.key.range}, q.rows, q.key, q.at))
  /\ UNCHANGED <<clock, databaseVars, cachedStats, statsQueries, figuresAsked>>

SeriesFails(q) ==
  /\ seriesQueries' = seriesQueries \ {q}
  /\ UNCHANGED <<clock, databaseVars, cacheVars, statsQueries, figuresAsked>>

-----------------------------------------------------------------------------
(* GET /api/v1/stats: of its queries, that of all events and that of the   *)
(* last 24 hours.                                                          *)
GetStats ==
  /\ ~Fresh(cachedStats)
  /\ figuresAsked < MaxFigures /\ figuresAsked' = figuresAsked + 1
  /\ statsQueries' = statsQueries \cup
       {[n |-> figuresAsked + 1, at |-> clock, total |-> NoFigures, recent |-> NoFigures]}
  /\ UNCHANGED <<clock, databaseVars, cacheVars, seriesQueries>>

CountAll(q) ==
  /\ q.total = NoFigures
  /\ statsQueries' = (statsQueries \ {q}) \cup {[q EXCEPT !.total = eventRows]}
  /\ UNCHANGED <<clock, databaseVars, cacheVars, seriesQueries, figuresAsked>>
CountRecent(q) ==
  /\ q.recent = NoFigures
  /\ statsQueries' = (statsQueries \ {q}) \cup
       {[q EXCEPT !.recent = {r \in eventRows : r.ts >= q.at - Day}]}
  /\ UNCHANGED <<clock, databaseVars, cacheVars, seriesQueries, figuresAsked>>

StatsRespond(q) ==
  /\ q.total # NoFigures /\ q.recent # NoFigures
  /\ statsQueries' = statsQueries \ {q}
  /\ cachedStats' = [at |-> q.at, total |-> q.total, recent |-> q.recent]
  /\ UNCHANGED <<clock, databaseVars, cachedTimeseries, seriesQueries, figuresAsked>>
StatsFails(q) ==
  /\ statsQueries' = statsQueries \ {q}
  /\ UNCHANGED <<clock, databaseVars, cacheVars, seriesQueries, figuresAsked>>

SeriesNext ==
  \/ ClockTicks \/ RollupGroups \/ RollupFails \/ GetStats
  \/ \E d \in Delays, k \in Kinds : StoreEvent(clock - d, k)
  \/ \E g \in groups : UpsertGroup(g)
  \/ \E key \in Keys : GetTimeseries(key)
  \/ \E q \in seriesQueries : FindRows(q) \/ FindStats(q) \/ SeriesFails(q)
  \/ \E q \in statsQueries : CountAll(q) \/ CountRecent(q) \/ StatsRespond(q) \/ StatsFails(q)

SeriesSpec == SeriesInit /\ [][SeriesNext]_seriesVars

-----------------------------------------------------------------------------
(* Where an event is counted: in which bucket, from which table.           *)
Places(r, buckets) ==
  {p \in (DOMAIN buckets) \X {"stats", "raw"} : r \in buckets[p[1]][p[2]]}
CountedOnce(r, buckets) == \E p \in Places(r, buckets) : Places(r, buckets) = {p}

(* An answer to a request of the time asked owes the event: it was stored  *)
(* a CacheTtl before.                                                      *)
Due(asked, r) == r.stored + CacheTtl <= asked

(* However requests, the rollup and late events interleave, a series, from *)
(* the cache or not, is that of the range and step asked for, counts       *)
(* nothing twice, and counts every event of the range stored a CacheTtl    *)
(* before it was asked for - in days, those after the last day rolled up;  *)
(* a category of a day rolled up misses only events that came after the    *)
(* rollup read it.  Nor do the figures of /stats miss any event stored a   *)
(* CacheTtl before.                                                        *)
SeriesFits(key, asked) ==
  LET buckets == cachedTimeseries.buckets IN
  /\ DOMAIN buckets = BucketStarts(key, cachedTimeseries.at)
  /\ \A r \in eventRows : Places(r, buckets) # {} => CountedOnce(r, buckets)
  /\ \A r \in eventRows :
       (Due(asked, r) /\ r.ts >= asked - key.range
          /\ (key.granularity = Day =>
                \A s \in dailyStat : s.date < FloorToBucket(r.ts, Day)))
       => CountedOnce(r, buckets)
  /\ \A t \in DOMAIN buckets, e \in eventRows, r \in eventRows :
       (e \in buckets[t].stats /\ r.category = e.category
          /\ FloorToBucket(r.ts, Day) = t /\ r.stored < e.stored)
       => r \in buckets[t].stats

FiguresFit(asked) ==
  \A r \in eventRows : Due(asked, r) =>
    /\ r \in cachedStats.total
    /\ r.ts >= asked - Day => r \in cachedStats.recent

SeriesFit ==
  /\ cachedTimeseries # NoFigures => SeriesFits(cachedTimeseries.key, cachedTimeseries.at)
  /\ \A key \in Keys : TimeseriesHit(key) => SeriesFits(key, clock)
  /\ cachedStats # NoFigures => FiguresFit(cachedStats.at)
  /\ Fresh(cachedStats) => FiguresFit(clock)
=============================================================================
