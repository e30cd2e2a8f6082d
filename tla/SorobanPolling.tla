----------------------------- MODULE SorobanPolling ----------------------------
(***************************************************************************)
(* The polling of contract events over Soroban RPC (startSorobanPolling in *)
(* apps/ingester/src/index.ts).                                            *)
(*                                                                         *)
(* A poll starts every 5 s whether or not the one before has ended, so     *)
(* several share lastLedger: each reads it when it starts and writes it    *)
(* after its last add.  Contract events are numbered in ledger order.  The *)
(* RPC server answers with the first Limit events from startLedger on and  *)
(* refuses a request without a startLedger or for a ledger that has left   *)
(* its window.                                                             *)
(***************************************************************************)
EXTENDS Integers, Sequences, FiniteSets, FiniteSetsExt

CONSTANTS
  LedgerOf,        \* sequence of the ledgers of the contract events
  MaxLedger,       \* bound: last ledger
  Window,          \* ledgers the RPC server keeps
  Limit,           \* getEvents limit: 100
  Polls,           \* polls that can be in progress together
  MaxFaults        \* bound: requests and adds that fail

ContractEvents == DOMAIN LedgerOf

ASSUME SorobanAssumption ==
  /\ MaxLedger \in Nat \ {0} /\ Window \in Nat /\ MaxFaults \in Nat
  /\ Limit \in Nat \ {0}
  /\ LedgerOf \in Seq(1..MaxLedger)
  /\ \A i, j \in ContractEvents : i < j => LedgerOf[i] <= LedgerOf[j]

VARIABLES
  ledger,          \* the chain's latest ledger
  lastLedger,      \* of the polling closure; 0 until it is known
  polling,         \* starting, running
  sorobanPolling,  \* the health record's flag
  getEvents,       \* getEvents[p]: idle, asked (from), or adding the rest of a page
  queued,          \* contract events added to the raw queue
  firstLedger,     \* lastLedger at the start (for the properties)
  faults

sorobanVars == <<ledger, lastLedger, polling, sorobanPolling, getEvents, queued, firstLedger, faults>>

NoPoll == [at |-> "idle", from |-> 0, rest |-> {}, top |-> 0]

SorobanInit ==
  /\ ledger = 1 /\ lastLedger = 0 /\ firstLedger = 0
  /\ polling = "starting" /\ sorobanPolling = FALSE
  /\ getEvents = [p \in Polls |-> NoPoll]
  /\ queued = {} /\ faults = 0

(* External: the chain closes a ledger.                                    *)
CloseLedger ==
  /\ ledger < MaxLedger /\ ledger' = ledger + 1
  /\ UNCHANGED <<lastLedger, polling, sorobanPolling, getEvents, queued, firstLedger, faults>>

(* getLatestLedger; when it fails lastLedger stays 0.                      *)
StartSorobanPolling(known) ==
  /\ polling = "starting" /\ polling' = "running"
  /\ known \/ faults < MaxFaults
  /\ faults' = IF known THEN faults ELSE faults + 1
  /\ lastLedger' = IF known THEN ledger ELSE 0
  /\ firstLedger' = lastLedger'
  /\ UNCHANGED <<ledger, sorobanPolling, getEvents, queued>>

(* main() sets the flag at once, whatever the start comes to.              *)
ReportPolling ==
  /\ ~sorobanPolling /\ sorobanPolling' = TRUE
  /\ UNCHANGED <<ledger, lastLedger, polling, getEvents, queued, firstLedger, faults>>

SetPolling(p, r) == getEvents' = [getEvents EXCEPT ![p] = r]

Ask(p) ==
  /\ polling = "running" /\ getEvents[p].at = "idle"
  /\ SetPolling(p, [at |-> "asked", from |-> IF lastLedger > 0 THEN lastLedger - 1 ELSE -1,
                    rest |-> {}, top |-> 0])
  /\ UNCHANGED <<ledger, lastLedger, polling, sorobanPolling, queued, firstLedger, faults>>

(* External: the events of the ledgers from..ledger, the first Limit of    *)
(* them.                                                                   *)
From(from) == {i \in ContractEvents : LedgerOf[i] >= from /\ LedgerOf[i] <= ledger}
Answer(from) ==
  {i \in From(from) : Cardinality({j \in From(from) : j < i}) < Limit}

(* External: a request without a ledger, or for one outside the window.    *)
Refused(from) == from < 0 \/ from + Window < ledger

(* Seeded bug: lastLedger grows before the page is added. *)
RespondEarly(p) ==
  /\ getEvents[p].at = "asked"
  /\ LET from == getEvents[p].from
         page == IF Refused(from) THEN {} ELSE Answer(from) IN
     /\ SetPolling(p, IF page = {} THEN NoPoll
                      ELSE [at |-> "adding", from |-> from, rest |-> page,
                            top |-> LedgerOf[Max(page)]])
     /\ lastLedger' = IF page = {} THEN lastLedger ELSE LedgerOf[Max(page)]
  /\ UNCHANGED <<ledger, polling, sorobanPolling, queued, firstLedger, faults>>

Respond(p) ==
  /\ getEvents[p].at = "asked"
  /\ LET from == getEvents[p].from
         page == IF Refused(from) THEN {} ELSE Answer(from) IN
     SetPolling(p, IF page = {} THEN NoPoll
                   ELSE [at |-> "adding", from |-> from, rest |-> page, top |-> LedgerOf[Max(page)]])
  /\ UNCHANGED <<ledger, lastLedger, polling, sorobanPolling, queued, firstLedger, faults>>

(* One awaited add after the other; after the last one lastLedger grows.   *)
Add(p) ==
  LET poll == getEvents[p] IN
  /\ poll.at = "adding"
  /\ queued' = queued \cup {Min(poll.rest)}
  /\ IF Cardinality(poll.rest) = 1
       THEN /\ SetPolling(p, NoPoll)
            /\ lastLedger' = IF poll.top > lastLedger THEN poll.top ELSE lastLedger
       ELSE /\ SetPolling(p, [poll EXCEPT !.rest = @ \ {Min(@)}])
            /\ UNCHANGED lastLedger
  /\ UNCHANGED <<ledger, polling, sorobanPolling, firstLedger, faults>>

(* The request or an add fails: the catch leaves lastLedger as it is.      *)
PollFails(p) ==
  /\ getEvents[p].at # "idle" /\ faults < MaxFaults
  /\ faults' = faults + 1
  /\ SetPolling(p, NoPoll)
  /\ UNCHANGED <<ledger, lastLedger, polling, sorobanPolling, queued, firstLedger>>

SorobanNext ==
  \/ CloseLedger
  \/ \E known \in BOOLEAN : StartSorobanPolling(known)
  \/ ReportPolling
  \/ \E p \in Polls : Ask(p)
  \/ \E p \in Polls : Respond(p)
  \/ \E p \in Polls : Add(p)
  \/ \E p \in Polls : PollFails(p)

SorobanFairness ==
  /\ WF_sorobanVars(\E known \in BOOLEAN : StartSorobanPolling(known))
  /\ WF_sorobanVars(ReportPolling)
  /\ \A p \in Polls :
       WF_sorobanVars(Ask(p)) /\ WF_sorobanVars(Respond(p)) /\ WF_sorobanVars(Add(p))

SorobanSpec == SorobanInit /\ [][SorobanNext]_sorobanVars /\ SorobanFairness

-----------------------------------------------------------------------------
(* Properties *)

SorobanTypeOK ==
  /\ ledger \in 1..MaxLedger /\ lastLedger \in 0..ledger
  /\ firstLedger \in 0..ledger /\ faults \in 0..MaxFaults
  /\ polling \in {"starting", "running"} /\ sorobanPolling \in BOOLEAN
  /\ queued \subseteq ContractEvents
  /\ getEvents \in [Polls -> [at : {"idle", "asked", "adding"}, from : -1..MaxLedger,
                              rest : SUBSET ContractEvents, top : 0..MaxLedger]]

(* However polls overlap, fail halfway or are cut by the limit, lastLedger *)
(* never moves past an event that was not queued: everything since the     *)
(* first ledger and before lastLedger is in the raw queue.                 *)
SorobanNothingSkipped ==
  /\ SorobanTypeOK
  /\ \A i \in ContractEvents :
       (firstLedger <= LedgerOf[i] /\ LedgerOf[i] < lastLedger /\ firstLedger > 0) => i \in queued

(* What stops the polling for good: no first ledger, a window that has     *)
(* moved on, or more events in the last two ledgers than an answer holds.  *)
Stalled ==
  \/ lastLedger = 0
  \/ lastLedger - 1 + Window < ledger
  \/ Cardinality({i \in ContractEvents : LedgerOf[i] \in lastLedger - 1..lastLedger}) >= Limit

(* But for those, the polling reaches every event.                         *)
SorobanCatchesUp ==
  \A i \in ContractEvents :
    (polling = "running" /\ LedgerOf[i] <= ledger /\ firstLedger <= LedgerOf[i])
      ~> (i \in queued \/ Stalled)
=============================================================================
