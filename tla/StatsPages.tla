------------------------------- MODULE StatsPages -------------------------------
(***************************************************************************)
(* The pages that show what the server counts, and samples when it cannot  *)
(* be asked: the overview, the analytics of a time range, the contracts    *)
(* with the last invocations of the deployed one, and the notifications.   *)
(* What a page shows is modelled by where it comes from: Sample, or the    *)
(* question that was answered.                                             *)
(*                                                                         *)
(* The code as it is: choosing another range aborts the load that choosing *)
(* the last one started, but not the one of the retry button, whose answer *)
(* may replace that of the range chosen since (outrun names this); the     *)
(* analytics ask for 500 events, of which the route refuses more than 100, *)
(* so that every load of theirs fails and the page only ever shows samples,*)
(* the chart a sample of the range; the contracts of a failed or           *)
(* unfinished load are samples that nothing marks as such; and without     *)
(* events the notifications are samples marked live (noEvents), in the     *)
(* place of what the user has read or dismissed meanwhile.                 *)
(***************************************************************************)
EXTENDS Integers, FiniteSets

CONSTANTS
  Ranges,    \* the time ranges
  Sample,    \* the built-in figures
  MaxLoads,  \* bound: loads a page starts
  Notes      \* the notifications shown at once

ASSUME StatsAssumption == Ranges # {} /\ Sample \notin Ranges /\ MaxLoads \in Nat

VARIABLES
  statsPage,     \* "overview", "analytics", "contracts", "notifications"
  range,         \* the range chosen
  figures,       \* stats, categories, topContracts, rangeTotal; contracts;
                 \* notifications
  chart,         \* buckets: the range they are of; the invocations
  dataSource,    \* "loading", "live" or "sample"
  statsLoading,  \* loading and chartLoading
  failed,        \* invocationsFailed
  inbox,         \* the notifications left: which of them is read
  loads,         \* loads under way, [range, n, abortable]
  loadsStarted,
  outrun,        \* history: a range was chosen during a retry
  noEvents       \* history: the answer had no events

statsVars == <<statsPage, range, figures, chart, dataSource, statsLoading,
               failed, inbox, loads, loadsStarted, outrun, noEvents>>
inboxVars == <<inbox, noEvents>>

Nothing == "nothing"   \* an empty chart, invocations that are null
Table == "contracts"   \* the two questions of the contracts page
History == "invocations"

Load(of, abortable) == [range |-> of, n |-> loadsStarted + 1, abortable |-> abortable]

StatsInit ==
  /\ statsPage \in {"overview", "analytics", "contracts", "notifications"}
  /\ inbox = [n \in Notes |-> FALSE] /\ noEvents = FALSE
  /\ range \in Ranges /\ figures = Sample /\ chart = Nothing
  /\ dataSource = "loading" /\ statsLoading = TRUE /\ failed = FALSE /\ outrun = FALSE
  /\ loadsStarted = 1
  /\ loads = IF statsPage = "contracts"
             THEN {[range |-> of, n |-> 1, abortable |-> TRUE] : of \in {Table, History}}
             ELSE {[range |-> range, n |-> 1, abortable |-> TRUE]}

Start(kept, of, abortable) ==
  /\ loadsStarted < MaxLoads /\ loadsStarted' = loadsStarted + 1
  /\ loads' = kept \cup {Load(of, abortable)}

-----------------------------------------------------------------------------
(* What the four pages show: the overview and the analytics say where the *)
(* figures come from, and offer a retry with samples; the contracts say    *)
(* nothing of it, and a failure only of the invocations; notifications.    *)
OverviewHeader ==
  CASE dataSource = "sample" -> {"sample", "retry"}
    [] dataSource = "live" -> {"live"}
    [] dataSource = "loading" -> {}
OverviewCards == IF dataSource = "loading" THEN "skeleton" ELSE figures
AnalyticsHeader ==
  IF dataSource = "sample" /\ ~statsLoading THEN {"sample", "retry"} ELSE {}
AnalyticsChart ==
  IF statsLoading THEN "skeleton" ELSE IF chart = Nothing THEN "empty" ELSE chart
ContractsTable == [label |-> IF statsLoading THEN "skeleton" ELSE "count", rows |-> figures]
InvocationHistory ==
  IF failed THEN "error" ELSE IF chart = Nothing THEN "skeleton" ELSE chart
UnreadCount == Cardinality({n \in DOMAIN inbox : ~inbox[n]})
NotificationsHeader ==
  (IF dataSource = "loading" THEN {} ELSE {dataSource})
  \cup (IF UnreadCount > 0 THEN {"mark all read"} ELSE {})

Retryable ==
  \/ statsPage = "overview" /\ "retry" \in OverviewHeader
  \/ statsPage = "analytics" /\ "retry" \in AnalyticsHeader

-----------------------------------------------------------------------------
(* loadStats, which only the retry calls.                                  *)
LoadStats ==
  /\ statsPage = "overview" /\ Retryable
  /\ dataSource' = "loading" /\ Start(loads, range, FALSE)
  /\ UNCHANGED <<statsPage, range, figures, chart, statsLoading, failed, outrun, inboxVars>>

(* loadAnalytics from the retry, without a signal.                         *)
RetryAnalytics ==
  /\ statsPage = "analytics" /\ Retryable
  /\ statsLoading' = TRUE /\ Start(loads, range, FALSE)
  /\ UNCHANGED <<statsPage, range, figures, chart, dataSource, failed, outrun, inboxVars>>

(* Seeded bug: the effect has no cleanup that aborts its load.             *)
SelectRangeKeeps(r) ==
  /\ statsPage = "analytics" /\ r # range /\ range' = r
  /\ statsLoading' = TRUE
  /\ Start(loads, r, TRUE)
  /\ outrun' = \E l \in loads : ~l.abortable
  /\ UNCHANGED <<statsPage, figures, chart, dataSource, failed, inboxVars>>

(* A range is chosen: the effect's cleanup aborts its load, another starts.*)
SelectRange(r) ==
  /\ statsPage = "analytics" /\ r # range /\ range' = r
  /\ statsLoading' = TRUE
  /\ Start({l \in loads : ~l.abortable}, r, TRUE)
  /\ outrun' = \E l \in loads : ~l.abortable
  /\ UNCHANGED <<statsPage, figures, chart, dataSource, failed, inboxVars>>

-----------------------------------------------------------------------------
(* The answers: all of a load, or none if any of its requests fails.       *)
OverviewAnswer(l) ==
  /\ statsPage = "overview"
  /\ \/ figures' = l.range /\ dataSource' = "live"
     \/ dataSource' = "sample" /\ UNCHANGED figures
  /\ UNCHANGED <<chart, statsLoading, failed, inboxVars>>

(* The request for the events is refused, and with it the load.            *)
AnalyticsAnswer(l) ==
  /\ statsPage = "analytics" /\ statsLoading' = FALSE /\ UNCHANGED <<failed, inboxVars>>
  /\ chart' = l.range /\ dataSource' = "sample" /\ UNCHANGED figures

ContractsAnswer(l) ==
  /\ statsPage = "contracts" /\ l.range = Table
  /\ statsLoading' = FALSE /\ figures' \in {Table, figures}
  /\ UNCHANGED <<chart, dataSource, failed, inboxVars>>

InvocationsAnswer(l) ==
  /\ statsPage = "contracts" /\ l.range = History
  /\ \/ chart' = History /\ UNCHANGED failed
     \/ failed' = TRUE /\ UNCHANGED chart
  /\ UNCHANGED <<figures, dataSource, statsLoading, inboxVars>>

NotificationsAnswer(l) ==
  /\ statsPage = "notifications"
  /\ \/ /\ figures' = l.range /\ dataSource' = "live" /\ UNCHANGED noEvents
        /\ inbox' \in [Notes -> BOOLEAN]
     \/ dataSource' = "live" /\ noEvents' = TRUE /\ UNCHANGED <<figures, inbox>>
     \/ dataSource' = "sample" /\ UNCHANGED <<figures, inboxVars>>
  /\ UNCHANGED <<chart, statsLoading, failed>>

StatsAnswer(l) ==
  /\ l \in loads /\ loads' = loads \ {l}
  /\ \/ OverviewAnswer(l) \/ AnalyticsAnswer(l)
     \/ ContractsAnswer(l) \/ InvocationsAnswer(l) \/ NotificationsAnswer(l)
  /\ UNCHANGED <<statsPage, range, loadsStarted, outrun>>

-----------------------------------------------------------------------------
(* The buttons of the notifications.                                       *)
MarkAllRead == "mark all read" \in NotificationsHeader /\ inbox' = [n \in DOMAIN inbox |-> TRUE]
ToggleRead(n) == inbox' = [inbox EXCEPT ![n] = ~@]
Dismissed(n) == inbox' = [m \in DOMAIN inbox \ {n} |-> inbox[m]]

Inbox ==
  /\ statsPage = "notifications"
  /\ MarkAllRead \/ \E n \in DOMAIN inbox : ToggleRead(n) \/ Dismissed(n)
  /\ UNCHANGED <<statsPage, range, figures, chart, dataSource, statsLoading,
                 failed, loads, loadsStarted, outrun, noEvents>>

StatsNext ==
  \/ LoadStats \/ RetryAnalytics \/ Inbox
  \/ \E r \in Ranges : SelectRange(r)
  \/ \E l \in loads : StatsAnswer(l)

-----------------------------------------------------------------------------
(* Once the answer is in, unless it was outrun: the analytics chart is of  *)
(* the range chosen, and the page says that it and the figures are samples;*)
(* the overview shows samples exactly when it says so, the notifications   *)
(* also without events; and the invocations end in a list or an error.     *)
StatsFit ==
  /\ (statsPage = "analytics" /\ ~statsLoading /\ ~outrun) =>
       chart = range /\ figures = Sample /\ "sample" \in AnalyticsHeader
  /\ (statsPage = "overview" /\ dataSource # "loading") =>
       (figures = Sample) = (dataSource = "sample")
  /\ (statsPage = "contracts" /\ loads = {}) =>
       InvocationHistory # "skeleton" /\ ~statsLoading
  /\ (statsPage = "notifications" /\ dataSource # "loading") =>
       (figures = Sample) = (dataSource = "sample" \/ noEvents)

StatsSpins ==
  IF statsPage \in {"overview", "notifications"}
  THEN dataSource = "loading" ELSE statsLoading
=============================================================================
