-------------------------- MODULE IngesterSourcesProofs --------------------------
(***************************************************************************)
(* Theorems about IngesterSources and its parts: HorizonStream and         *)
(* SorobanPolling, for any number of transactions, events, ledgers, lapses *)
(* and polls, and WalletSync, for any number of wallets, accounts and      *)
(* calls in progress and any two intervals.                                *)
(***************************************************************************)
EXTENDS IngesterSources, FiniteSetTheorems, WellFoundedInduction, TLAPS

-----------------------------------------------------------------------------
(* Horizon: the invariant is inductive as it stands.                       *)

LEMMA HorizonStarts == HorizonInit => OneCurrentStream
<1> SUFFICES ASSUME HorizonInit
             PROVE  OneCurrentStream
  OBVIOUS
<1>1. Current = {}
  BY DEF HorizonInit, Current
<1>2. HorizonTypeOK
  <2> USE HorizonAssumption DEF HorizonInit
  <2>1. head \in 0..MaxTx /\ captured \subseteq Txs /\ lost \subseteq Txs
    OBVIOUS
  <2>2. stream \in [Streams -> {"none", "fetching", "open"}]
    OBVIOUS
  <2>3. next \in [Streams -> 0..MaxTx]
    OBVIOUS
  <2> QED
    BY <2>1, <2>2, <2>3 DEF HorizonTypeOK
<1> QED
  BY <1>1, <1>2 DEF HorizonInit, OneCurrentStream

LEMMA HorizonStepKeeps == OneCurrentStream /\ [HorizonNext]_horizonVars => OneCurrentStream'
<1> SUFFICES ASSUME OneCurrentStream, [HorizonNext]_horizonVars
             PROVE  OneCurrentStream'
  OBVIOUS
<1> USE HorizonAssumption DEF OneCurrentStream, HorizonTypeOK, Current
<1>1. CASE Transaction
  BY <1>1 DEF Transaction
<1>2. CASE StartHorizonStream
  <2>1. CASE horizonStreamActive
    BY <1>2, <2>1 DEF StartHorizonStream
  <2>2. CASE ~horizonStreamActive
    <3>1. PICK k \in Streams : /\ stream[k] = "none"
                               /\ stream' = [stream EXCEPT ![k] = "fetching"]
      BY <1>2, <2>2 DEF StartHorizonStream
    <3>2. Current' = {k}
      BY <1>2, <2>2, <3>1 DEF StartHorizonStream
    <3>3. HorizonTypeOK'
      BY <1>2, <3>1 DEF StartHorizonStream
    <3> QED
      BY <1>2, <2>2, <3>2, <3>3 DEF StartHorizonStream
  <2> QED
    BY <2>1, <2>2
<1>3. ASSUME NEW k \in Streams, Fetched(k)
      PROVE  OneCurrentStream'
  BY <1>3 DEF Fetched
<1>4. ASSUME NEW k \in Streams, OnMessage(k)
      PROVE  OneCurrentStream'
  <2>1. head \in 0..MaxTx /\ next \in [Streams -> 0..MaxTx]
    OBVIOUS
  <2>2. next[k] + 1 \in 0..MaxTx /\ next[k] + 1 \in Txs
    BY <1>4, <2>1 DEF OnMessage, Txs
  <2>3. next' \in [Streams -> 0..MaxTx]
    BY <1>4, <2>1, <2>2 DEF OnMessage
  <2>4. captured' \subseteq Txs /\ lost' \subseteq Txs
    BY <1>4, <2>2 DEF OnMessage
  <2>5. lapses' \in Nat /\ head' \in 0..MaxTx
    BY <1>4, <2>1 DEF OnMessage
  <2> QED
    BY <1>4, <2>3, <2>4, <2>5 DEF OnMessage
<1>5. ASSUME NEW k \in Streams, OnMessageLost(k)
      PROVE  OneCurrentStream'
  <2>1. head \in 0..MaxTx /\ next \in [Streams -> 0..MaxTx]
    OBVIOUS
  <2>2. next[k] + 1 \in 0..MaxTx /\ next[k] + 1 \in Txs
    BY <1>5, <2>1 DEF OnMessageLost, Txs
  <2>3. next' \in [Streams -> 0..MaxTx]
    BY <1>5, <2>1, <2>2 DEF OnMessageLost
  <2>4. captured' \subseteq Txs /\ lost' \subseteq Txs
    BY <1>5, <2>2 DEF OnMessageLost
  <2>5. lapses' \in Nat /\ head' \in 0..MaxTx
    BY <1>5, <2>1 DEF OnMessageLost
  <2> QED
    BY <1>5, <2>3, <2>4, <2>5 DEF OnMessageLost
<1>6. ASSUME NEW k \in Streams, Watchdog(k)
      PROVE  OneCurrentStream'
  <2>1. restarts' \in Nat /\ lapses' \in Nat
    BY <1>6 DEF Watchdog
  <2>2. horizonStreamActive' \in BOOLEAN /\ horizonConnected' = FALSE
    BY <1>6 DEF Watchdog, CloseStream
  <2>3. closed' = closed \cup {k} /\ stream[k] = "open"
    BY <1>6 DEF Watchdog, CloseStream
  <2>4. UNCHANGED <<head, stream, next, captured, lost>>
    BY <1>6 DEF Watchdog
  <2>5. HorizonTypeOK'
    BY <2>1, <2>2, <2>3, <2>4
  <2>6. horizonStreamActive' = IF k \in closed THEN horizonStreamActive ELSE FALSE
    BY <1>6 DEF Watchdog, CloseStream
  <2>7. Current' = Current \ {k}
    BY <2>3, <2>4
  <2> QED
    BY <2>2, <2>3, <2>5, <2>6, <2>7
<1>7. ASSUME NEW k \in Streams, OnError(k)
      PROVE  OneCurrentStream'
  <2>1. restarts' \in Nat /\ lapses' \in Nat
    BY <1>7 DEF OnError
  <2>2. horizonStreamActive' \in BOOLEAN /\ horizonConnected' = FALSE
    BY <1>7 DEF OnError, CloseStream
  <2>3. closed' = closed \cup {k} /\ stream[k] = "open"
    BY <1>7 DEF OnError, CloseStream
  <2>4. UNCHANGED <<head, stream, next, captured, lost>>
    BY <1>7 DEF OnError
  <2>5. HorizonTypeOK'
    BY <2>1, <2>2, <2>3, <2>4
  <2>6. horizonStreamActive' = IF k \in closed THEN horizonStreamActive ELSE FALSE
    BY <1>7 DEF OnError, CloseStream
  <2>7. Current' = Current \ {k}
    BY <2>3, <2>4
  <2> QED
    BY <2>2, <2>3, <2>5, <2>6, <2>7
<1>8. CASE UNCHANGED horizonVars
  BY <1>8 DEF horizonVars
<1> QED
  BY <1>1, <1>2, <1>3, <1>4, <1>5, <1>6, <1>7, <1>8 DEF HorizonNext

(* The guard of startHorizonStream does what its comment says, for any     *)
(* number of errors of streams that were given up but never closed.        *)
THEOREM OneStreamAtATime == HorizonSpec => []OneCurrentStream
BY HorizonStarts, HorizonStepKeeps, PTL DEF HorizonSpec

-----------------------------------------------------------------------------
(* Soroban: least and greatest elements, and the sets of contract events.  *)

LEMMA MinOfNats ==
  ASSUME NEW S \in SUBSET Nat, S # {}
  PROVE  Min(S) \in S /\ \A y \in S : Min(S) <= y
<1> DEFINE Less == {ss \in Nat \X Nat : ss[1] < ss[2]}
<1>1. IsWellFoundedOn(Less, Nat)
  BY NatLessThanWellFounded, Zenon DEF OpToRel
<1>2. \A a, b \in Nat : a < b => <<a, b>> \in Less
  OBVIOUS
<1> HIDE DEF Less
<1>3. PICK x \in S : \A y \in S : ~ (<<y, x>> \in Less)
  BY <1>1, WFMin
<1>4. ASSUME NEW y \in S
      PROVE  x <= y
  <2>1. y < x => <<y, x>> \in Less
    BY <1>2
  <2>2. <<y, x>> \notin Less
    BY <1>3
  <2> QED
    BY <2>1, <2>2
<1> QED
  BY <1>4 DEF Min

LEMMA MaxOfNats ==
  ASSUME NEW S \in SUBSET Nat, S # {}, NEW n \in Nat, \A y \in S : y <= n
  PROVE  Max(S) \in S /\ \A y \in S : y <= Max(S)
<1> DEFINE B == {b \in Nat : \A y \in S : y <= b}
<1>1. B \in SUBSET Nat /\ B # {}
  OBVIOUS
<1>2. Min(B) \in B /\ \A b \in B : Min(B) <= b
  BY <1>1, MinOfNats
<1> HIDE DEF B
<1>3. Min(B) \in Nat /\ \A y \in S : y <= Min(B)
  BY <1>2 DEF B
<1>4. Min(B) \in S
  <2>1. SUFFICES ASSUME Min(B) \notin S
                 PROVE  FALSE
    OBVIOUS
  <2>2. PICK y \in S : TRUE
    OBVIOUS
  <2>3. Min(B) > 0
    BY <1>3, <2>1, <2>2
  <2>4. Min(B) - 1 \in B
    BY <1>3, <2>1, <2>3 DEF B
  <2> QED
    BY <1>2, <1>3, <2>4
<1> QED
  BY <1>3, <1>4 DEF Max

LEMMA EventsFinite ==
  /\ ContractEvents \subseteq Nat
  /\ \A S \in SUBSET ContractEvents : IsFiniteSet(S) /\ Cardinality(S) \in Nat
  /\ \A i \in ContractEvents : LedgerOf[i] \in 1..MaxLedger
<1>1. ContractEvents = 1..Len(LedgerOf) /\ Len(LedgerOf) \in Nat
  BY SorobanAssumption DEF ContractEvents
<1>2. IsFiniteSet(ContractEvents)
  BY <1>1, FS_Interval
<1>3. \A S \in SUBSET ContractEvents : IsFiniteSet(S) /\ Cardinality(S) \in Nat
  BY <1>2, FS_Subset, FS_CardinalityType
<1> QED
  BY <1>1, <1>3, SorobanAssumption DEF ContractEvents

LEMMA EventsOrdered ==
  /\ \A i \in ContractEvents : i \in Nat /\ LedgerOf[i] \in Nat
  /\ \A i, j \in ContractEvents : i < j => LedgerOf[i] <= LedgerOf[j]
<1>1. \A i \in ContractEvents : i \in Nat /\ LedgerOf[i] \in Nat
  BY EventsFinite, SorobanAssumption
<1> QED
  BY <1>1, SorobanAssumption

LEMMA GreatestEvent ==
  ASSUME NEW S \in SUBSET ContractEvents, S # {}
  PROVE  Max(S) \in S /\ \A i \in S : i <= Max(S)
<1>1. ContractEvents = 1..Len(LedgerOf) /\ Len(LedgerOf) \in Nat
  BY SorobanAssumption DEF ContractEvents
<1>2. S \in SUBSET Nat /\ \A y \in S : y <= Len(LedgerOf)
  BY <1>1
<1> QED
  BY <1>1, <1>2, MaxOfNats

(* An answer is cut after Limit events, never before one it holds: up to   *)
(* the ledger of its last event nothing is missing but in that ledger.     *)
LEMMA AnswerHasNoGap ==
  ASSUME NEW from \in Int, Answer(from) # {},
         NEW i \in From(from), LedgerOf[i] < LedgerOf[Max(Answer(from))]
  PROVE  i \in Answer(from)
<1> DEFINE m == Max(Answer(from))
<1>1. From(from) \subseteq ContractEvents /\ Answer(from) \subseteq From(from)
  BY DEF From, Answer
<1>2. m \in Answer(from)
  BY <1>1, GreatestEvent
<1> HIDE DEF m
<1>3. i < m
  BY <1>1, <1>2, EventsOrdered DEF m
<1> DEFINE B(x) == {j \in From(from) : j < x}
<1>4. B(i) \subseteq B(m) /\ B(m) \in SUBSET ContractEvents
  BY <1>1, <1>2, <1>3, EventsOrdered
<1>5. IsFiniteSet(B(m)) /\ Cardinality(B(i)) <= Cardinality(B(m))
  BY <1>4, EventsFinite, FS_Subset
<1>6. Cardinality(B(m)) < Limit
  BY <1>2 DEF Answer
<1>7. Cardinality(B(i)) < Limit
  <2>1. Cardinality(B(i)) \in Nat /\ Cardinality(B(m)) \in Nat
    BY <1>4, EventsFinite
  <2> QED
    BY <1>5, <1>6, <2>1, SorobanAssumption
<1> QED
  BY <1>7 DEF Answer

-----------------------------------------------------------------------------
(* Soroban: the polls in progress.                                         *)

Adding(p) == getEvents[p].at = "adding"

(* Every event from the first ledger on and before ledger l is queued, or  *)
(* among those of S.                                                       *)
QueuedBefore(l, S) ==
  \A i \in ContractEvents :
    (firstLedger <= LedgerOf[i] /\ LedgerOf[i] < l) => i \in queued \cup S

PollsTyped ==
  /\ polling = "starting" =>
       lastLedger = 0 /\ firstLedger = 0 /\ \A p \in Polls : getEvents[p].at = "idle"
  /\ \A p \in Polls : Adding(p) => getEvents[p].rest # {} /\ getEvents[p].top <= ledger

(* A poll in progress asked from a ledger before which nothing is missing, *)
(* and what is missing up to the top of its page it still has to add.      *)
PollsBehind ==
  firstLedger > 0 =>
    /\ firstLedger <= lastLedger
    /\ QueuedBefore(lastLedger, {})
    /\ \A p \in Polls :
         /\ getEvents[p].at = "asked" => QueuedBefore(getEvents[p].from + 1, {})
         /\ Adding(p) => QueuedBefore(getEvents[p].top, getEvents[p].rest)

SInv == SorobanTypeOK /\ PollsTyped /\ PollsBehind

LEMMA SorobanStarts == SorobanInit => SInv
<1> SUFFICES ASSUME SorobanInit
             PROVE  SInv
  OBVIOUS
<1> USE SorobanAssumption DEF SorobanInit, NoPoll
<1>1. ledger \in 1..MaxLedger
  OBVIOUS
<1>2. getEvents \in [Polls -> [at : {"idle", "asked", "adding"}, from : -1..MaxLedger,
                               rest : SUBSET ContractEvents, top : 0..MaxLedger]]
  OBVIOUS
<1>3. SorobanTypeOK
  <2>1. lastLedger \in 0..ledger /\ firstLedger \in 0..ledger /\ faults \in 0..MaxFaults
    OBVIOUS
  <2> QED
    BY <1>1, <1>2, <2>1 DEF SorobanTypeOK
<1>4. PollsTyped
  BY DEF PollsTyped, Adding
<1> QED
  BY <1>3, <1>4 DEF SInv, PollsBehind

LEMMA SorobanStepKeeps == SInv /\ [SorobanNext]_sorobanVars => SInv'
<1> SUFFICES ASSUME SInv, [SorobanNext]_sorobanVars
             PROVE  SInv'
  OBVIOUS
<1> USE SorobanAssumption, EventsOrdered
        DEF SInv, SorobanTypeOK, PollsTyped, PollsBehind, Adding, QueuedBefore, SetPolling, NoPoll
<1>1. CASE CloseLedger
  BY <1>1 DEF CloseLedger
<1>2. ASSUME NEW known \in BOOLEAN, StartSorobanPolling(known)
      PROVE  SInv'
  BY <1>2 DEF StartSorobanPolling
<1>3. CASE ReportPolling
  BY <1>3 DEF ReportPolling
<1>4. ASSUME NEW p \in Polls, Ask(p)
      PROVE  SInv'
  <2> DEFINE from == IF lastLedger > 0 THEN lastLedger - 1 ELSE -1
  <2>1. from \in -1..MaxLedger /\ (lastLedger > 0 => from + 1 = lastLedger)
    OBVIOUS
  <2> HIDE DEF from
  <2>2. /\ getEvents' = [getEvents EXCEPT ![p] =
                           [at |-> "asked", from |-> from, rest |-> {}, top |-> 0]]
        /\ UNCHANGED <<ledger, lastLedger, polling, sorobanPolling, queued, firstLedger, faults>>
        /\ polling = "running"
    BY <1>4 DEF Ask, from
  <2>3. SorobanTypeOK'
    <3>1. [at |-> "asked", from |-> from, rest |-> {}, top |-> 0]
            \in [at : {"idle", "asked", "adding"}, from : -1..MaxLedger,
                 rest : SUBSET ContractEvents, top : 0..MaxLedger]
      BY <2>1
    <3>2. getEvents' \in [Polls -> [at : {"idle", "asked", "adding"}, from : -1..MaxLedger,
                                    rest : SUBSET ContractEvents, top : 0..MaxLedger]]
      BY <2>2, <3>1
    <3> QED
      BY <2>2, <3>2
  <2>4. PollsTyped'
    BY <2>2
  <2>5. PollsBehind'
    BY <2>1, <2>2
  <2> QED
    BY <2>3, <2>4, <2>5
<1>5. ASSUME NEW p \in Polls, Respond(p)
      PROVE  SInv'
  <2> DEFINE from == getEvents[p].from
             page == IF Refused(from) THEN {} ELSE Answer(from)
  <2>1. CASE page = {}
    BY <1>5, <2>1 DEF Respond
  <2>2. CASE page # {}
    <3> DEFINE top == LedgerOf[Max(page)]
    <3>1. from \in Int /\ from + 1 \in Int
      OBVIOUS
    <3>2. page = Answer(from)
      BY <2>2
    <3>3. page \subseteq ContractEvents /\ \A i \in page : LedgerOf[i] <= ledger
      BY <3>2 DEF Answer, From
    <3>4. Max(page) \in page
      BY <2>2, <3>3, GreatestEvent
    <3>5. top \in 0..MaxLedger /\ top <= ledger
      BY <3>3, <3>4
    <3>6. \A i \in ContractEvents : (from + 1 <= LedgerOf[i] /\ LedgerOf[i] < top) => i \in page
      <4> SUFFICES ASSUME NEW i \in ContractEvents, from + 1 <= LedgerOf[i], LedgerOf[i] < top
                   PROVE  i \in page
        OBVIOUS
      <4>1. i \in From(from)
        BY <3>1, <3>5 DEF From
      <4> QED
        BY <2>2, <3>1, <3>2, <4>1, AnswerHasNoGap
    <3> HIDE DEF top, page
    <3>7. /\ getEvents' = [getEvents EXCEPT ![p] =
                             [at |-> "adding", from |-> from, rest |-> page, top |-> top]]
          /\ getEvents[p].at = "asked"
          /\ UNCHANGED <<ledger, lastLedger, polling, sorobanPolling, queued, firstLedger, faults>>
      BY <1>5, <2>2 DEF Respond, page, top
    <3>8. SorobanTypeOK'
      BY <3>3, <3>5, <3>7
    <3>9. PollsTyped'
      BY <2>2, <3>5, <3>7
    <3>10. PollsBehind'
      <4>1. firstLedger > 0 => QueuedBefore(top, page)
        BY <3>1, <3>5, <3>6, <3>7
      <4> QED
        BY <3>7, <4>1
    <3> QED
      BY <3>8, <3>9, <3>10
  <2> QED
    BY <2>1, <2>2
<1>6. ASSUME NEW p \in Polls, Add(p)
      PROVE  SInv'
  <2> DEFINE rest == getEvents[p].rest
  <2>1. rest \in SUBSET ContractEvents /\ rest # {} /\ rest \in SUBSET Nat
    BY <1>6 DEF Add
  <2>2. Min(rest) \in rest
    BY <2>1, MinOfNats
  <2>3. IsFiniteSet(rest)
    BY <2>1, EventsFinite
  <2>4. queued' = queued \cup {Min(rest)} /\ queued' \subseteq ContractEvents
    BY <1>6, <2>1, <2>2 DEF Add
  <2>5. CASE Cardinality(rest) = 1
    <3>1. rest = {Min(rest)}
      BY <2>2, <2>3, <2>5, FS_Singleton
    <3>2. lastLedger' = IF getEvents[p].top > lastLedger THEN getEvents[p].top ELSE lastLedger
      BY <1>6, <2>5 DEF Add
    <3>3. /\ getEvents' = [getEvents EXCEPT ![p] = NoPoll] /\ getEvents[p].at = "adding"
          /\ UNCHANGED <<ledger, polling, sorobanPolling, firstLedger, faults>>
      BY <1>6, <2>5 DEF Add
    <3>4. queued' = queued \cup rest
      BY <2>4, <3>1
    <3> HIDE DEF rest
    <3>5. lastLedger' \in 0..ledger /\ lastLedger <= lastLedger'
      BY <3>2, <3>3
    <3>6. SorobanTypeOK'
      BY <2>4, <3>3, <3>5
    <3>7. PollsTyped'
      BY <3>3
    <3>8. firstLedger > 0 => QueuedBefore(lastLedger, {})'
      BY <3>2, <3>3, <3>4 DEF rest
    <3>9. PollsBehind'
      BY <2>4, <3>3, <3>5, <3>8
    <3> QED
      BY <3>6, <3>7, <3>9
  <2>6. CASE Cardinality(rest) # 1
    <3>1. rest \ {Min(rest)} # {} /\ rest \ {Min(rest)} \subseteq ContractEvents
      <4>1. rest # {Min(rest)}
        BY <2>6, FS_Singleton
      <4> QED
        BY <2>1, <2>2, <4>1
    <3>2. /\ getEvents' = [getEvents EXCEPT ![p] = [getEvents[p] EXCEPT !.rest = rest \ {Min(rest)}]]
          /\ getEvents[p].at = "adding"
          /\ UNCHANGED <<ledger, lastLedger, polling, sorobanPolling, firstLedger, faults>>
      BY <1>6, <2>6 DEF Add
    <3> HIDE DEF rest
    <3>3. SorobanTypeOK'
      BY <2>4, <3>1, <3>2
    <3>4. PollsTyped'
      BY <3>1, <3>2
    <3>5. PollsBehind'
      BY <2>4, <3>2 DEF rest
    <3> QED
      BY <3>3, <3>4, <3>5
  <2> QED
    BY <2>5, <2>6
<1>7. ASSUME NEW p \in Polls, PollFails(p)
      PROVE  SInv'
  BY <1>7 DEF PollFails
<1>8. CASE UNCHANGED sorobanVars
  BY <1>8 DEF sorobanVars
<1> QED
  BY <1>1, <1>2, <1>3, <1>4, <1>5, <1>6, <1>7, <1>8 DEF SorobanNext

(* However many polls overlap, wherever they fail and however few events   *)
(* an answer holds, lastLedger never moves past an event not queued.       *)
THEOREM PollingHasNoGap == SorobanSpec => []SorobanNothingSkipped
<1>1. SInv => SorobanNothingSkipped
  BY DEF SInv, PollsBehind, QueuedBefore, SorobanNothingSkipped
<1> QED
  BY <1>1, SorobanStarts, SorobanStepKeeps, PTL DEF SorobanSpec

-----------------------------------------------------------------------------
(* The wallet tracker                                                      *)

(* A call stands for an event that was stored, and has before it only      *)
(* wallets of that event's account.                                        *)
CallsGrounded ==
  \A h \in Calls : call[h].at # "idle" =>
    /\ <<call[h].account, call[h].current>> \in active
    /\ \A w \in call[h].rest : AccountOf[w] = call[h].account
    /\ call[h].at = "writing" => call[h].wallet \in call[h].rest

(* The stamp is not behind any update that was issued.                     *)
StampsLead ==
  \A x \in written : lastWriteAt[x[1]] # Never /\ x[2] <= lastWriteAt[x[1]]

WInv == WalletWritesSpaced /\ CallsGrounded /\ StampsLead

LEMMA WalletStarts == WalletInit => WInv
<1> SUFFICES ASSUME WalletInit
             PROVE  WInv
  OBVIOUS
<1> USE WalletAssumption DEF WalletInit, NoCall, Never
<1>1. /\ clock \in 0..MaxClock /\ mishaps \in 0..MaxMishaps
      /\ monitored \subseteq Wallets /\ publicKeys \subseteq Accounts
      /\ keysLoadedAt \in {Never} \cup 0..MaxClock
  OBVIOUS
<1>2. lastSyncedAt \in [Wallets -> {Never} \cup 0..MaxClock]
  OBVIOUS
<1>3. lastWriteAt \in [Wallets -> {Never} \cup 0..MaxClock]
  OBVIOUS
<1>4. call \in [Calls -> CallTypes]
  BY DEF CallTypes
<1>5. WalletTypeOK
  BY <1>1, <1>2, <1>3, <1>4 DEF WalletTypeOK
<1> QED
  BY <1>5 DEF WInv, WalletWritesSpaced, CallsGrounded, StampsLead

LEMMA WalletStepKeeps == WInv /\ [WalletNext]_walletVars => WInv'
<1> SUFFICES ASSUME WInv, [WalletNext]_walletVars
             PROVE  WInv'
  OBVIOUS
<1> USE WalletAssumption
        DEF WInv, WalletTypeOK, CallTypes, WalletWritesSpaced, CallsGrounded, StampsLead,
            SetCall, NoCall, Never
<1>1. CASE WalletTick
  BY <1>1 DEF WalletTick
<1>2. ASSUME NEW w \in Wallets, Register(w)
      PROVE  WInv'
  BY <1>2 DEF Register
<1>3. ASSUME NEW h \in Calls, NEW a \in Accounts, HandleAccountActivity(h, a)
      PROVE  WInv'
  <2> DEFINE went(at) == [at |-> at, current |-> clock, account |-> a,
                          rest |-> {}, wallet |-> "none"]
  <2>1. PICK c \in {NoCall, went("loading"), went("looking")} : call' = [call EXCEPT ![h] = c]
    BY <1>3 DEF HandleAccountActivity
  <2>2. /\ active' = active \cup {<<a, clock>>}
        /\ UNCHANGED <<clock, monitored, lastSyncedAt, publicKeys, keysLoadedAt, lastWriteAt,
                       written, mishaps>>
    BY <1>3 DEF HandleAccountActivity
  <2>3. c \in CallTypes
    BY <2>1
  <2>4. WalletTypeOK'
    BY <2>1, <2>2, <2>3
  <2>5. CallsGrounded'
    BY <2>1, <2>2
  <2> QED
    BY <2>2, <2>4, <2>5
<1>4. ASSUME NEW h \in Calls, KeysLoaded(h)
      PROVE  WInv'
  BY <1>4 DEF KeysLoaded
<1>5. ASSUME NEW h \in Calls, WalletsFound(h)
      PROVE  WInv'
  <2> DEFINE ws == Watching(call[h].account)
             found == [call[h] EXCEPT !.at = "choosing", !.rest = ws]
  <2>1. ws \subseteq Wallets /\ \A w \in ws : AccountOf[w] = call[h].account
    BY DEF Watching
  <2>2. PICK c \in {NoCall, found} : call' = [call EXCEPT ![h] = c]
    BY <1>5 DEF WalletsFound
  <2>3. /\ UNCHANGED <<clock, monitored, lastSyncedAt, publicKeys, keysLoadedAt, lastWriteAt,
                       active, written, mishaps>>
        /\ call[h].at = "looking"
    BY <1>5 DEF WalletsFound
  <2> HIDE DEF ws
  <2>4. c \in CallTypes /\ (c = NoCall \/ (c.at = "choosing" /\ c.rest = ws
            /\ c.account = call[h].account /\ c.current = call[h].current))
    <3>1. CASE c = NoCall
      BY <3>1
    <3>2. CASE c = found
      <4>1. call[h] \in CallTypes /\ ws \in SUBSET Wallets
        BY <2>1
      <4> QED
        BY ONLY <3>2, <4>1 DEF CallTypes
    <3> QED
      BY <2>2, <3>1, <3>2
  <2>5. WalletTypeOK'
    BY <2>2, <2>3, <2>4
  <2>6. CallsGrounded'
    BY <2>1, <2>2, <2>3, <2>4
  <2> QED
    BY <2>3, <2>5, <2>6
<1>6. ASSUME NEW h \in Calls, NEW w \in Wallets, Skip(h, w)
      PROVE  WInv'
  <2> DEFINE left == [call[h] EXCEPT !.at = "choosing", !.rest = call[h].rest \ {w},
                           !.wallet = "none"]
  <2>1. PICK c \in {NoCall, left} : call' = [call EXCEPT ![h] = c]
    BY <1>6 DEF Skip, Left
  <2>2. c \in CallTypes /\ (c = NoCall \/ (c.at = "choosing" /\ c.rest \subseteq call[h].rest
            /\ c.account = call[h].account /\ c.current = call[h].current))
    <3>1. CASE c = NoCall
      BY <3>1
    <3>2. CASE c = left
      <4>1. call[h] \in CallTypes /\ \A S : call[h].rest \ S \in SUBSET Wallets
        OBVIOUS
      <4> QED
        BY ONLY <3>2, <4>1 DEF CallTypes
    <3> QED
      BY <2>1, <3>1, <3>2
  <2>3. /\ UNCHANGED <<clock, monitored, lastSyncedAt, publicKeys, keysLoadedAt, lastWriteAt,
                       active, written, mishaps>>
        /\ call[h].at = "choosing"
    BY <1>6 DEF Skip
  <2>4. WalletTypeOK'
    BY <2>1, <2>2, <2>3
  <2>5. CallsGrounded'
    BY <2>1, <2>2, <2>3
  <2> QED
    BY <2>3, <2>4, <2>5
<1>7. ASSUME NEW h \in Calls, NEW w \in Wallets, Issue(h, w)
      PROVE  WInv'
  <2> DEFINE current == call[h].current
             issued == [call[h] EXCEPT !.at = "writing", !.wallet = w]
  <2>1. /\ lastWriteAt' = [lastWriteAt EXCEPT ![w] = current]
        /\ call' = [call EXCEPT ![h] = issued]
        /\ written' = written \cup {<<w, current, h>>}
        /\ UNCHANGED <<clock, monitored, lastSyncedAt, publicKeys, keysLoadedAt, active, mishaps>>
        /\ call[h].at = "choosing" /\ w \in call[h].rest
    BY <1>7 DEF Issue
  <2>2. current \in 0..MaxClock
    OBVIOUS
  <2>3. lastWriteAt[w] = Never \/ current >= lastWriteAt[w] + WriteInterval
    BY <1>7 DEF Issue, Throttled
  <2>4. issued \in CallTypes
    BY <2>1
  <2>5. WalletTypeOK'
    <3>1. lastWriteAt' \in [Wallets -> {Never} \cup 0..MaxClock]
      BY <2>1, <2>2
    <3>2. written' \subseteq Wallets \X (0..MaxClock) \X Calls
      BY <2>1, <2>2
    <3> QED
      BY <2>1, <2>4, <3>1, <3>2
  <2>6. CallsGrounded'
    BY <2>1
  <2>7. \A x \in written : x[1] = w => current >= x[2] + WriteInterval
    BY <2>2, <2>3
  <2>8. StampsLead'
    BY <2>1, <2>2, <2>7
  <2>9. \A x, y \in written' :
          (x # y /\ x[1] = y[1]) => x[2] >= y[2] + WriteInterval \/ y[2] >= x[2] + WriteInterval
    BY <2>1, <2>7
  <2> QED
    BY <2>1, <2>5, <2>6, <2>8, <2>9
<1>8. ASSUME NEW h \in Calls, Updated(h)
      PROVE  WInv'
  <2> DEFINE left == [call[h] EXCEPT !.at = "choosing", !.rest = call[h].rest \ {call[h].wallet},
                           !.wallet = "none"]
  <2>1. PICK c \in {NoCall, left} : call' = [call EXCEPT ![h] = c]
    BY <1>8 DEF Updated, Left
  <2>2. c \in CallTypes /\ (c = NoCall \/ (c.at = "choosing" /\ c.rest \subseteq call[h].rest
            /\ c.account = call[h].account /\ c.current = call[h].current))
    <3>1. CASE c = NoCall
      BY <3>1
    <3>2. CASE c = left
      <4>1. call[h] \in CallTypes /\ \A S : call[h].rest \ S \in SUBSET Wallets
        OBVIOUS
      <4> QED
        BY ONLY <3>2, <4>1 DEF CallTypes
    <3> QED
      BY <2>1, <3>1, <3>2
  <2>3. /\ lastSyncedAt' = [lastSyncedAt EXCEPT ![call[h].wallet] = call[h].current]
        /\ UNCHANGED <<clock, monitored, publicKeys, keysLoadedAt, lastWriteAt, active,
                       written, mishaps>>
        /\ call[h].at = "writing"
    BY <1>8 DEF Updated
  <2>4. call[h].wallet \in call[h].rest /\ call[h].wallet \in Wallets
    BY <2>3
  <2>5. lastSyncedAt' \in [Wallets -> {Never} \cup 0..MaxClock]
    BY <2>3
  <2>6. WalletTypeOK'
    BY <2>1, <2>2, <2>3, <2>5
  <2>7. \A w \in Wallets : lastSyncedAt'[w] # Never => <<AccountOf[w], lastSyncedAt'[w]>> \in active
    BY <2>3, <2>4
  <2>8. CallsGrounded'
    BY <2>1, <2>2, <2>3
  <2> QED
    BY <2>3, <2>6, <2>7, <2>8
<1>9. ASSUME NEW h \in Calls, CallThrows(h)
      PROVE  WInv'
  BY <1>9 DEF CallThrows
<1>10. CASE WalletRestart
  BY <1>10 DEF WalletRestart
<1>11. CASE UNCHANGED walletVars
  BY <1>11 DEF walletVars
<1> QED
  BY <1>1, <1>2, <1>3, <1>4, <1>5, <1>6, <1>7, <1>8, <1>9, <1>10, <1>11 DEF WalletNext

(* However many calls run together on the caches, a wallet is written at   *)
(* most once per interval, and only with times of its account's events.    *)
THEOREM WritesSpaced == WalletSpec => []WalletWritesSpaced
<1>1. WInv => WalletWritesSpaced
  BY DEF WInv
<1> QED
  BY <1>1, WalletStarts, WalletStepKeeps, PTL DEF WalletSpec
-----------------------------------------------------------------------------
(* The ingester as a whole: each part keeps its invariant while it runs    *)
(* and while another does.                                                 *)
SourcesInv == OneCurrentStream /\ SInv /\ WInv

LEMMA SourcesStart == Init => SourcesInv
BY HorizonStarts, SorobanStarts, WalletStarts DEF Init, SourcesInv

LEMMA SourcesStep == SourcesInv /\ [Next]_vars => SourcesInv'
<1> SUFFICES ASSUME SourcesInv, [Next]_vars
             PROVE  SourcesInv'
  OBVIOUS
<1>1. [HorizonNext]_horizonVars /\ [SorobanNext]_sorobanVars /\ [WalletNext]_walletVars
  BY DEF Next, HorizonStep, SorobanStep, WalletStep, vars
<1>2. OneCurrentStream'
  BY <1>1, HorizonStepKeeps DEF SourcesInv
<1>3. SInv'
  BY <1>1, SorobanStepKeeps DEF SourcesInv
<1>4. WInv'
  BY <1>1, WalletStepKeeps DEF SourcesInv
<1> QED
  BY <1>2, <1>3, <1>4 DEF SourcesInv

(* Whichever part runs: one current Horizon stream, no gap in the Soroban  *)
(* events queued, and writes of one wallet spaced.                         *)
THEOREM SourcesSafe ==
  Spec => [](OneCurrentStream /\ SorobanNothingSkipped /\ WalletWritesSpaced)
<1>1. SourcesInv => OneCurrentStream /\ SorobanNothingSkipped /\ WalletWritesSpaced
  BY DEF SourcesInv, WInv, SInv, PollsBehind, QueuedBefore, SorobanNothingSkipped
<1> QED
  BY <1>1, SourcesStart, SourcesStep, PTL DEF Spec
=============================================================================
