----------------------------- MODULE HorizonStream -----------------------------
(***************************************************************************)
(* The Horizon stream of the ingester (startHorizonStream in               *)
(* apps/ingester/src/index.ts) and its flag in the health record           *)
(* (health-check.ts).                                                      *)
(*                                                                         *)
(* closeStream only marks the closure of one stream as closed: the SDK's   *)
(* own close function is never kept, so a stream that was given up may go  *)
(* on delivering and may still fail, which schedules one more restart.     *)
(* Transactions are numbered in ledger order.  The length of the backoff   *)
(* and of the watchdog's silence is left out: a timer fires at any time.   *)
(***************************************************************************)
EXTENDS Integers, FiniteSets

CONSTANTS
  MaxTx,           \* bound: transactions on the chain
  MaxLapses        \* bound: errors, silences and lost adds

Streams == 1..(MaxLapses + 1)    \* each but the first replaces one that lapsed
Txs     == 1..MaxTx

ASSUME HorizonAssumption ==
  MaxTx \in Nat /\ MaxLapses \in Nat

VARIABLES
  head,                \* transactions on the chain so far
  horizonStreamActive, \* the guard
  stream,              \* stream[k]: none, fetching (the latest ledger) or open
  closed,              \* streams whose closure is closed
  next,                \* next[k]: last transaction stream k has passed
  restarts,            \* pending setTimeout(startHorizonStream)
  horizonConnected,    \* the health record
  captured, lost,      \* transactions added to the raw queue; whose add failed
  lapses

horizonVars == <<head, horizonStreamActive, stream, closed, next, restarts, horizonConnected,
                 captured, lost, lapses>>

HorizonInit ==
  /\ head = 0 /\ captured = {} /\ lost = {} /\ lapses = 0
  /\ stream = [k \in Streams |-> "none"] /\ next = [k \in Streams |-> 0]
  /\ closed = {}
  /\ horizonStreamActive = FALSE /\ horizonConnected = FALSE
  /\ restarts = 1      \* main() calls startHorizonStream

Current == {k \in Streams : stream[k] # "none" /\ k \notin closed}

(* External: a ledger closes with one more transaction.                    *)
Transaction ==
  /\ head < MaxTx /\ head' = head + 1
  /\ UNCHANGED <<horizonStreamActive, stream, closed, next, restarts, horizonConnected,
                 captured, lost, lapses>>

(* A timer fires: nothing happens while a stream is active.                *)
StartHorizonStream ==
  /\ restarts > 0 /\ restarts' = restarts - 1
  /\ horizonStreamActive' = TRUE
  /\ IF horizonStreamActive THEN UNCHANGED stream
     ELSE \E k \in Streams :
            /\ stream[k] = "none" /\ \A j \in Streams : j < k => stream[j] # "none"
            /\ stream' = [stream EXCEPT ![k] = "fetching"]
  /\ UNCHANGED <<head, closed, next, horizonConnected, captured, lost, lapses>>

(* The latest ledger or, when that fails, "now": either way the stream     *)
(* starts behind what is on the chain, not at what was captured last.      *)
Fetched(k) ==
  /\ stream[k] = "fetching"
  /\ stream' = [stream EXCEPT ![k] = "open"]
  /\ next' = [next EXCEPT ![k] = head]
  /\ horizonConnected' = TRUE
  /\ UNCHANGED <<head, horizonStreamActive, closed, restarts, captured, lost, lapses>>

OnMessage(k) ==
  /\ stream[k] = "open" /\ next[k] < head
  /\ next' = [next EXCEPT ![k] = @ + 1]
  /\ captured' = captured \cup {next[k] + 1}
  /\ UNCHANGED <<head, horizonStreamActive, stream, closed, restarts, horizonConnected, lost, lapses>>

(* The add to the raw queue fails: the stream has passed the transaction.  *)
OnMessageLost(k) ==
  /\ stream[k] = "open" /\ next[k] < head /\ lapses < MaxLapses
  /\ next' = [next EXCEPT ![k] = @ + 1]
  /\ lapses' = lapses + 1 /\ lost' = lost \cup {next[k] + 1}
  /\ UNCHANGED <<head, horizonStreamActive, stream, closed, restarts, horizonConnected, captured>>

(* Seeded bug: the check of the closed flag is dropped. *)
CloseStreamAgain(k) ==
  /\ closed' = closed \cup {k}
  /\ horizonStreamActive' = FALSE

(* Seeded bug: the guard stays set. *)
CloseStreamKeepsGuard(k) ==
  /\ closed' = closed \cup {k}
  /\ UNCHANGED horizonStreamActive

CloseStream(k) ==
  /\ closed' = closed \cup {k}
  /\ horizonStreamActive' = IF k \in closed THEN horizonStreamActive ELSE FALSE

(* 90 s without a transaction, for whatever reason.                        *)
Watchdog(k) ==
  /\ stream[k] = "open" /\ k \notin closed
  /\ lapses < MaxLapses /\ lapses' = lapses + 1
  /\ CloseStream(k)
  /\ horizonConnected' = FALSE /\ restarts' = restarts + 1
  /\ UNCHANGED <<head, stream, next, captured, lost>>

(* onerror, of a stream given up before as well.                           *)
OnError(k) ==
  /\ stream[k] = "open"
  /\ lapses < MaxLapses /\ lapses' = lapses + 1
  /\ CloseStream(k)
  /\ horizonConnected' = FALSE /\ restarts' = restarts + 1
  /\ UNCHANGED <<head, stream, next, captured, lost>>

HorizonNext ==
  \/ Transaction
  \/ StartHorizonStream
  \/ \E k \in Streams : Fetched(k)
  \/ \E k \in Streams : OnMessage(k)
  \/ \E k \in Streams : OnMessageLost(k)
  \/ \E k \in Streams : Watchdog(k)
  \/ \E k \in Streams : OnError(k)

HorizonFairness ==
  /\ WF_horizonVars(StartHorizonStream)
  /\ \A k \in Streams :
       WF_horizonVars(Fetched(k)) /\ WF_horizonVars(k \in Current /\ OnMessage(k))

HorizonSpec == HorizonInit /\ [][HorizonNext]_horizonVars /\ HorizonFairness

-----------------------------------------------------------------------------
(* Properties *)

HorizonTypeOK ==
  /\ head \in 0..MaxTx /\ captured \subseteq Txs /\ lost \subseteq Txs
  /\ horizonStreamActive \in BOOLEAN /\ horizonConnected \in BOOLEAN
  /\ stream \in [Streams -> {"none", "fetching", "open"}]
  /\ closed \subseteq Streams /\ \A k \in closed : stream[k] = "open"
  /\ next \in [Streams -> 0..MaxTx]
  /\ restarts \in Nat /\ lapses \in Nat

(* The flag that "guards against duplicate streams" is set exactly while   *)
(* one stream is current, and never more than one is, whatever the ones    *)
(* given up before still report; and while there is none the health record *)
(* does not call Horizon connected.                                        *)
OneCurrentStream ==
  /\ HorizonTypeOK
  /\ \A j, k \in Current : j = k
  /\ horizonStreamActive <=> Current # {}
  /\ horizonConnected => horizonStreamActive

(* Capture recovers: whenever no stream is current one will be, and what   *)
(* happens on the chain from its start on is queued while it is, but for   *)
(* what the queue refuses.  What happened in between may never be.         *)
HorizonComesBack ==
  /\ (Current = {}) ~> (\E k \in Current : stream[k] = "open")
  /\ \A k \in Streams, t \in Txs :
       (k \in Current /\ stream[k] = "open" /\ next[k] < t /\ t <= head)
         ~> (t \in captured \cup lost \/ k \notin Current)
=============================================================================
