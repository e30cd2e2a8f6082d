----------------------------- MODULE EventFeedProofs -----------------------------
(***************************************************************************)
(* Theorems about EventFeed, for any number of events, connections and     *)
(* polls in progress, any page size and any retention.                     *)
(***************************************************************************)
EXTENDS EventFeed, FiniteSetTheorems, TLAPS

-----------------------------------------------------------------------------
(* The invariant of the stream *)

(* The event is with the client or is one of the two exceptions.           *)
Covered(e) == e \in received \cup late \/ Tied(e)

CoveredBelow(t) == \A e \in table : (Wanted(e) /\ ts[e] < t) => Covered(e)

(* A poll looks for rows after a time up to which all are covered, and a   *)
(* page in hand leaves out nothing that is older than one of its rows.     *)
PollCovers(p) ==
  /\ poll[p].page \subseteq arrived
  /\ poll[p].at = "looked" =>
       \/ poll[p].since = NoTime
       \/ /\ \E f \in received : ts[f] = poll[p].since
          /\ CoveredBelow(poll[p].since)
  /\ \A q \in poll[p].page, e \in table :
       (Wanted(e) /\ ts[e] < ts[q]) => Covered(e) \/ e \in poll[p].page

PollsCover == \A p \in Slots : PollCovers(p)

FInv ==
  /\ StreamsAccountedFor
  /\ lastEventId \in {NoEvent, lastReceived}
  /\ NothingSkipped
  /\ PollsCover

LEMMA SettingsTyped ==
  \A s \in Settings : s.conns \in Nat /\ s.time \in Nat /\ s.retention \in Nat /\ s.stats \in BOOLEAN
BY FeedAssumption

LEMMA FeedStarts == Init => FInv
<1> SUFFICES ASSUME Init
             PROVE  FInv
  OBVIOUS
<1> USE FeedAssumption, SettingsTyped DEF Init, IdlePoll
<1>1. now \in Times /\ ts \in [Events -> Times]
  BY DEF Times
<1>2. conn \in [Conns -> {"none", "open", "gone", "closed"}] /\ registry \subseteq Conns
  OBVIOUS
<1>3. poll \in [Slots -> Polls]
  BY DEF Polls
<1>4. errors \in 0..MaxErrors /\ stops \in 0..MaxStops
  OBVIOUS
<1>5. TypeOK
  BY <1>1, <1>2, <1>3, <1>4 DEF TypeOK
<1>6. RegistryExact
  BY DEF RegistryExact, Live
<1>7. PollsCover
  BY DEF PollsCover, PollCovers
<1> QED
  BY <1>5, <1>6, <1>7 DEF FInv, StreamsAccountedFor, NothingSkipped

-----------------------------------------------------------------------------
(* What a step may do to the rows covered *)

LEMMA CoveredKept ==
  ASSUME TypeOK, received \subseteq received', late \subseteq late',
         \A x \in arrived : ts'[x] = ts[x],
         NEW e \in arrived, Covered(e)
  PROVE  Covered(e)'
BY DEF TypeOK, Covered, Tied

(* Steps that touch neither the client nor the times of the rows.          *)
LEMMA QuietStep ==
  ASSUME FInv, UNCHANGED <<received, lastReceived, late, ts, arrived>>,
         table' \subseteq table,
         \A p \in Slots : poll'[p] \in {poll[p], IdlePoll}
  PROVE  NothingSkipped' /\ PollsCover'
<1>1. \A e : Covered(e)' <=> Covered(e)
  BY DEF Covered, Tied
<1>2. NothingSkipped'
  BY <1>1 DEF FInv, NothingSkipped, Covered, Wanted
<1>3. ASSUME NEW p \in Slots
      PROVE  PollCovers(p)'
  <2>1. CASE poll'[p] = IdlePoll
    BY <2>1 DEF PollCovers, IdlePoll
  <2>2. CASE poll'[p] = poll[p]
    BY <1>1, <2>2 DEF FInv, PollsCover, PollCovers, CoveredBelow, Wanted
  <2> QED
    BY <2>1, <2>2
<1> QED
  BY <1>2, <1>3 DEF PollsCover

-----------------------------------------------------------------------------
(* The steps that touch the client or the polls *)

(* A row that is stored behind one in hand is late.                        *)
LEMMA StoreCovers ==
  ASSUME FInv, NEW n \in Events, NEW t \in Times, Store(n, t)
  PROVE  NothingSkipped' /\ PollsCover'
<1> USE DEF FInv, StreamsAccountedFor
<1>1. /\ n \notin arrived /\ table' = table \cup {n} /\ arrived' = arrived \cup {n}
      /\ ts' = [ts EXCEPT ![n] = t]
      /\ late' = IF \E f \in InHand : t <= ts[f] THEN late \cup {n} ELSE late
      /\ UNCHANGED <<received, lastReceived, poll>>
  BY DEF Store, streamVars
<1>2. /\ received \subseteq arrived /\ table \subseteq arrived
      /\ lastReceived \in received \cup {NoEvent}
      /\ ts \in [Events -> Times] /\ arrived \subseteq Events
  BY DEF TypeOK
<1>3. \A x \in arrived : ts'[x] = ts[x]
  BY <1>1, <1>2
<1>4. ts'[n] = t
  BY <1>1, <1>2
<1>5. \A e \in arrived : Covered(e) => Covered(e)'
  BY <1>1, <1>3, CoveredKept
<1>6. \A f \in received : t <= ts[f] => Covered(n)'
  BY <1>1 DEF InHand, Covered
<1>7. \A p \in Slots : \A f \in poll[p].page : t <= ts[f] => Covered(n)'
  BY <1>1 DEF InHand, Covered
<1>8. \A x \in Events : ts[x] \in Int
  BY <1>2 DEF Times
<1>9. NothingSkipped'
  <2> SUFFICES ASSUME lastReceived # NoEvent, NEW e \in table', Wanted(e),
                      ts'[e] < ts'[lastReceived]
               PROVE  Covered(e)'
    BY <1>1 DEF NothingSkipped, Covered, Wanted
  <2>1. lastReceived \in received /\ ts'[lastReceived] = ts[lastReceived]
    BY <1>2, <1>3
  <2>2. CASE e = n
    BY <1>2, <1>4, <1>6, <1>8, <2>1, <2>2 DEF Times
  <2>3. CASE e \in table
    <3>1. ts[e] < ts[lastReceived]
      BY <1>2, <1>3, <2>1, <2>3
    <3>2. Covered(e)
      BY <2>3, <3>1 DEF NothingSkipped, Covered
    <3> QED
      BY <1>2, <1>5, <2>3, <3>2
  <2> QED
    BY <1>1, <2>2, <2>3
<1>10. ASSUME NEW p \in Slots
       PROVE  PollCovers(p)'
  <2>1. PollCovers(p) /\ poll'[p] = poll[p]
    BY <1>1 DEF PollsCover
  <2>2. poll[p].page \subseteq arrived'
    BY <1>1, <2>1 DEF PollCovers
  <2>3. ASSUME poll[p].at = "looked", poll[p].since # NoTime
        PROVE  /\ \E f \in received' : ts'[f] = poll[p].since
               /\ CoveredBelow(poll[p].since)'
    <3>1. PICK f \in received : ts[f] = poll[p].since
      BY <2>1, <2>3 DEF PollCovers
    <3>2. ts'[f] = poll[p].since /\ f \in received'
      BY <1>1, <1>2, <1>3, <3>1
    <3>3. ASSUME NEW e \in table', Wanted(e), ts'[e] < poll[p].since
          PROVE  Covered(e)'
      <4>1. CASE e = n
        BY <1>2, <1>4, <1>6, <1>8, <3>1, <3>3, <4>1 DEF Times
      <4>2. CASE e \in table
        <5>1. Covered(e)
          BY <1>2, <1>3, <2>1, <2>3, <3>3, <4>2 DEF PollCovers, CoveredBelow
        <5> QED
          BY <1>2, <1>5, <4>2, <5>1
      <4> QED
        BY <1>1, <3>3, <4>1, <4>2
    <3> QED
      BY <2>1, <3>2, <3>3 DEF CoveredBelow, Wanted
  <2>4. ASSUME NEW q \in poll[p].page, NEW e \in table', Wanted(e), ts'[e] < ts'[q]
        PROVE  Covered(e)' \/ e \in poll[p].page
    <3>1. q \in arrived /\ ts'[q] = ts[q]
      BY <1>3, <2>1 DEF PollCovers
    <3>2. CASE e = n
      BY <1>2, <1>4, <1>7, <1>8, <2>4, <3>1, <3>2 DEF Times
    <3>3. CASE e \in table
      <4>1. ts[e] < ts[q]
        BY <1>2, <1>3, <2>4, <3>1, <3>3
      <4>2. Covered(e) \/ e \in poll[p].page
        BY <2>1, <2>4, <3>3, <4>1 DEF PollCovers
      <4> QED
        BY <1>2, <1>5, <3>3, <4>2
    <3> QED
      BY <1>1, <2>4, <3>2, <3>3
  <2> QED
    BY <1>1, <2>1, <2>2, <2>3, <2>4 DEF PollCovers, Wanted
<1> QED
  BY <1>9, <1>10 DEF PollsCover

(* A poll looks from the last row received, or from the start.             *)
LEMMA LookupCovers ==
  ASSUME FInv, NEW p \in Slots, PollLookup(p)
  PROVE  NothingSkipped' /\ PollsCover'
<1> DEFINE since == IF lastEventId \in table THEN ts[lastEventId] ELSE NoTime
<1>1. /\ poll' = [poll EXCEPT ![p] = [at |-> "looked", page |-> {}, since |-> since]]
      /\ UNCHANGED <<received, lastReceived, late, ts, arrived, table>>
  BY DEF PollLookup, SetPoll, tableVars, clientVars
<1>2. poll \in [Slots -> Polls] /\ lastReceived \in received \cup {NoEvent} /\ table \subseteq arrived
      /\ arrived \subseteq Events
  BY DEF FInv, StreamsAccountedFor, TypeOK
<1>3. \A e : Covered(e)' <=> Covered(e)
  BY <1>1 DEF Covered, Tied
<1>4. NothingSkipped'
  BY <1>1, <1>3 DEF FInv, NothingSkipped, Covered, Wanted
<1>5. since = NoTime \/ ((\E f \in received : ts[f] = since) /\ CoveredBelow(since))
  <2>1. CASE lastEventId \notin table
    BY <2>1
  <2>2. CASE lastEventId \in table
    <3>1. lastEventId = lastReceived /\ lastReceived # NoEvent
      BY <1>2, <2>2, FeedAssumption DEF FInv
    <3>2. lastReceived \in received /\ since = ts[lastReceived]
      BY <1>2, <2>2, <3>1
    <3>3. CoveredBelow(ts[lastReceived])
      BY <3>1 DEF FInv, NothingSkipped, CoveredBelow, Covered
    <3> QED
      BY <3>2, <3>3
  <2> QED
    BY <2>1, <2>2
<1> HIDE DEF since
<1>6. ASSUME NEW s \in Slots
      PROVE  PollCovers(s)'
  <2>1. CASE s = p
    <3>1. poll'[p] = [at |-> "looked", page |-> {}, since |-> since]
      BY <1>1, <1>2
    <3> QED
      BY <1>1, <1>3, <1>5, <2>1, <3>1 DEF PollCovers, CoveredBelow, Wanted
  <2>2. CASE s # p
    <3>1. poll'[s] = poll[s]
      BY <1>1, <1>2, <2>2
    <3> QED
      BY <1>1, <1>3, <3>1 DEF FInv, PollsCover, PollCovers, CoveredBelow, Wanted
  <2> QED
    BY <2>1, <2>2
<1> QED
  BY <1>4, <1>6 DEF PollsCover

(* The page holds the oldest of the rows the query finds.                  *)
LEMMA QueryCovers ==
  ASSUME FInv, NEW p \in Slots, PollQuery(p)
  PROVE  NothingSkipped' /\ PollsCover'
<1>1. PICK P \in SUBSET Newer(poll[p].since) :
        /\ IsPage(P, Newer(poll[p].since))
        /\ poll' = [poll EXCEPT ![p] = IF P = {} THEN IdlePoll
                                       ELSE [poll[p] EXCEPT !.at = "sending", !.page = P]]
  BY DEF PollQuery, SetPoll
<1>2. /\ UNCHANGED <<received, lastReceived, late, ts, arrived, table>>
      /\ poll[p].at = "looked"
  BY DEF PollQuery, tableVars, clientVars
<1>3. /\ poll \in [Slots -> Polls] /\ table \subseteq arrived /\ received \subseteq arrived
      /\ arrived \subseteq Events /\ ts \in [Events -> Times]
  BY DEF FInv, StreamsAccountedFor, TypeOK
<1>4. \A x \in Events : ts[x] \in Int
  BY <1>3 DEF Times
<1>5. CASE P = {}
  <2>1. \A s \in Slots : poll'[s] \in {poll[s], IdlePoll}
    BY <1>1, <1>3, <1>5
  <2> QED
    BY <1>2, <2>1, QuietStep
<1>6. CASE P # {}
  <2>1. poll'[p].page = P /\ poll'[p].at = "sending"
    BY <1>1, <1>3, <1>6 DEF Polls
  <2>2. \A e : Covered(e)' <=> Covered(e)
    BY <1>2 DEF Covered, Tied
  <2>3. NothingSkipped'
    BY <1>2, <2>2 DEF FInv, NothingSkipped, Covered, Wanted
  <2>4. ASSUME NEW q \in P, NEW e \in table, Wanted(e), ts[e] < ts[q]
        PROVE  Covered(e) \/ e \in P
    <3>1. CASE ts[e] > poll[p].since
      <4>1. e \in Newer(poll[p].since)
        BY <2>4, <3>1 DEF Newer
      <4>2. e \notin P => ts[q] <= ts[e]
        BY <1>1, <2>4, <4>1 DEF IsPage
      <4>3. ts[e] \in Int /\ ts[q] \in Int
        BY <1>3, <1>4 DEF Newer
      <4> QED
        BY <2>4, <4>2, <4>3
    <3>2. CASE ~(ts[e] > poll[p].since)
      <4>1. ts[e] \in Nat /\ poll[p].since \in Int
        <5>1. poll[p].since \in Times \cup {NoTime}
          BY <1>3 DEF Polls
        <5> QED
          BY <1>3, <5>1 DEF Times, NoTime
      <4>2. poll[p].since # NoTime
        BY <3>2, <4>1 DEF NoTime
      <4>3. PICK f \in received : ts[f] = poll[p].since
        BY <1>2, <4>2 DEF FInv, PollsCover, PollCovers
      <4>4. CASE ts[e] = poll[p].since
        BY <4>3, <4>4 DEF Covered, Tied
      <4>5. CASE ts[e] < poll[p].since
        BY <1>2, <2>4, <4>2, <4>5 DEF FInv, PollsCover, PollCovers, CoveredBelow
      <4> QED
        BY <3>2, <4>1, <4>4, <4>5
    <3> QED
      BY <3>1, <3>2
  <2>5. P \subseteq arrived
    BY <1>3 DEF Newer
  <2>6. ASSUME NEW s \in Slots
        PROVE  PollCovers(s)'
    <3>1. CASE s = p
      BY <1>2, <2>1, <2>2, <2>4, <2>5, <3>1 DEF PollCovers, Wanted
    <3>2. CASE s # p
      <4>1. poll'[s] = poll[s]
        BY <1>1, <1>3, <3>2
      <4> QED
        BY <1>2, <2>2, <4>1 DEF FInv, PollsCover, PollCovers, CoveredBelow, Wanted
    <3> QED
      BY <3>1, <3>2
  <2> QED
    BY <2>3, <2>6 DEF PollsCover
<1> QED
  BY <1>5, <1>6

LEMMA SendCovers ==
  ASSUME FInv, NEW p \in Slots, PollSend(p)
  PROVE  NothingSkipped' /\ PollsCover'
<1>1. PICK id \in poll[p].page : /\ IsLast(poll[p].page, id)
                                 /\ lastEventId' = id /\ lastReceived' = id
  BY DEF PollSend
<1>2. /\ poll' = [poll EXCEPT ![p] = IdlePoll]
      /\ received' = received \cup poll[p].page
      /\ UNCHANGED <<late, ts, arrived, table>>
  BY DEF PollSend, SetPoll, tableVars
<1>3. /\ TypeOK /\ poll \in [Slots -> Polls] /\ table \subseteq arrived
  BY DEF FInv, StreamsAccountedFor, TypeOK
<1>4. \A e \in arrived : Covered(e) => Covered(e)'
  BY <1>2, <1>3, CoveredKept
<1>5. NothingSkipped'
  <2> SUFFICES ASSUME NEW e \in table, Wanted(e), ts[e] < ts[id]
               PROVE  Covered(e)'
    BY <1>1, <1>2 DEF NothingSkipped, Covered, Wanted
  <2>1. Covered(e) \/ e \in poll[p].page
    BY DEF FInv, PollsCover, PollCovers
  <2> QED
    BY <1>2, <1>3, <1>4, <2>1 DEF Covered
<1>6. ASSUME NEW s \in Slots
      PROVE  PollCovers(s)'
  <2>1. CASE s = p
    <3>1. poll'[p] = IdlePoll
      BY <1>2, <1>3
    <3> QED
      BY <2>1, <3>1 DEF PollCovers, IdlePoll
  <2>2. CASE s # p
    <3>1. poll'[s] = poll[s]
      BY <1>2, <1>3, <2>2
    <3> QED
      BY <1>2, <1>3, <1>4, <3>1 DEF FInv, PollsCover, PollCovers, CoveredBelow, Wanted
  <2> QED
    BY <2>1, <2>2
<1> QED
  BY <1>5, <1>6 DEF PollsCover

-----------------------------------------------------------------------------
(* The registry and the types *)

LEMMA StreamsStep == FInv /\ [Next]_vars => StreamsAccountedFor'
<1> SUFFICES ASSUME FInv, [Next]_vars
             PROVE  StreamsAccountedFor'
  OBVIOUS
<1> USE FeedAssumption, SettingsTyped
        DEF FInv, StreamsAccountedFor, RegistryExact, TypeOK, tableVars, clientVars, streamVars,
            jobVars, Times, Conns, SetPoll, NoPolls, IdlePoll, Polls, Live, Open
<1>1. ASSUME NEW e \in Events, NEW t \in Times, Store(e, t)
      PROVE  StreamsAccountedFor'
  BY <1>1 DEF Store
<1>2. CASE Tick
  BY <1>2 DEF Tick
<1>3. ASSUME NEW c \in Conns, NEW resume \in BOOLEAN, Connect(c, resume)
      PROVE  StreamsAccountedFor'
  BY <1>3 DEF Connect
<1>4. ASSUME NEW p \in Slots, PollLookup(p)
      PROVE  StreamsAccountedFor'
  BY <1>4 DEF PollLookup
<1>5. ASSUME NEW p \in Slots, PollQuery(p)
      PROVE  StreamsAccountedFor'
  <2>1. PICK P \in SUBSET Newer(poll[p].since) :
          poll' = [poll EXCEPT ![p] = IF P = {} THEN IdlePoll
                                      ELSE [poll[p] EXCEPT !.at = "sending", !.page = P]]
    BY <1>5 DEF PollQuery
  <2>2. P \subseteq Events
    BY DEF Newer
  <2>3. [poll[p] EXCEPT !.at = "sending", !.page = P] \in Polls
    BY <2>2
  <2>4. poll' \in [Slots -> Polls]
    BY <2>1, <2>3
  <2> QED
    BY <1>5, <2>4 DEF PollQuery
<1>6. ASSUME NEW p \in Slots, PollSend(p)
      PROVE  StreamsAccountedFor'
  BY <1>6 DEF PollSend, PollsCover, PollCovers
<1>7. ASSUME NEW p \in Slots, PollThrows(p)
      PROVE  StreamsAccountedFor'
  BY <1>7 DEF PollThrows
<1>8. ASSUME NEW c \in Conns, Drop(c)
      PROVE  StreamsAccountedFor'
  BY <1>8 DEF Drop
<1>9. ASSUME NEW c \in Conns, Abort(c)
      PROVE  StreamsAccountedFor'
  BY <1>9 DEF Abort
<1>10. CASE Sigterm
  BY <1>10 DEF Sigterm
<1>11. CASE Exit
  BY <1>11 DEF Exit
<1>12. CASE Restart
  BY <1>12 DEF Restart
<1>13. CASE PruneStart \/ PruneFind
  BY <1>13 DEF PruneStart, PruneFind
<1>14. CASE PruneDelete
  BY <1>14 DEF PruneDelete
<1>15. CASE PruneThrows
  BY <1>15 DEF PruneThrows
<1>16. CASE RollupRead \/ (\E c \in Categories : RollupUpsert(c))
  BY <1>16 DEF RollupRead, RollupUpsert
<1>17. CASE RollupThrows
  BY <1>17 DEF RollupThrows
<1>18. CASE UNCHANGED vars
  BY <1>18 DEF vars
<1> QED
  BY <1>1, <1>2, <1>3, <1>4, <1>5, <1>6, <1>7, <1>8, <1>9, <1>10, <1>11, <1>12, <1>13, <1>14,
     <1>15, <1>16, <1>17, <1>18 DEF Next

LEMMA FeedStep == FInv /\ [Next]_vars => FInv'
<1> SUFFICES ASSUME FInv, [Next]_vars
             PROVE  FInv'
  OBVIOUS
<1>1. StreamsAccountedFor'
  BY StreamsStep
<1>2. lastEventId' \in {NoEvent, lastReceived'}
  BY DEF FInv, Next, vars, clientVars, streamVars, Store, Tick, Connect, PollLookup, PollQuery,
         PollSend, PollThrows, Drop, Abort, Sigterm, Exit, Restart, PruneStart, PruneFind,
         PruneDelete, PruneThrows, RollupRead, RollupUpsert, RollupThrows
<1>3. NothingSkipped' /\ PollsCover'
  <2>1. ASSUME NEW e \in Events, NEW t \in Times, Store(e, t)
        PROVE  NothingSkipped' /\ PollsCover'
    BY <2>1, StoreCovers
  <2>2. ASSUME NEW p \in Slots, PollLookup(p)
        PROVE  NothingSkipped' /\ PollsCover'
    BY <2>2, LookupCovers
  <2>3. ASSUME NEW p \in Slots, PollQuery(p)
        PROVE  NothingSkipped' /\ PollsCover'
    BY <2>3, QueryCovers
  <2>4. ASSUME NEW p \in Slots, PollSend(p)
        PROVE  NothingSkipped' /\ PollsCover'
    BY <2>4, SendCovers
  <2>5. ASSUME \/ \E p \in Slots : PollThrows(p)
               \/ \E c \in Conns : Drop(c) \/ Abort(c) \/ \E resume \in BOOLEAN : Connect(c, resume)
               \/ Sigterm \/ Exit \/ Restart \/ Tick
               \/ PruneStart \/ PruneFind \/ PruneDelete \/ PruneThrows
               \/ RollupRead \/ RollupThrows \/ \E c \in Categories : RollupUpsert(c)
               \/ UNCHANGED vars
        PROVE  NothingSkipped' /\ PollsCover'
    <3>1. poll \in [Slots -> Polls]
      BY DEF FInv, StreamsAccountedFor, TypeOK
    <3>2. UNCHANGED <<received, lastReceived, late, ts, arrived>> /\ table' \subseteq table
      BY <2>5 DEF vars, tableVars, clientVars, streamVars, Tick, Connect, PollThrows, Drop, Abort,
                  Sigterm, Exit, Restart, PruneStart, PruneFind, PruneDelete, PruneThrows,
                  RollupRead, RollupUpsert, RollupThrows
    <3>3. \A p \in Slots : poll'[p] \in {poll[p], IdlePoll}
      BY <2>5, <3>1 DEF vars, streamVars, Tick, Connect, PollThrows, Drop, Abort, Sigterm, Exit,
                  Restart, PruneStart, PruneFind, PruneDelete, PruneThrows, RollupRead,
                  RollupUpsert, RollupThrows, SetPoll, NoPolls
    <3> QED
      BY <3>2, <3>3, QuietStep
  <2> QED
    BY <2>1, <2>2, <2>3, <2>4, <2>5 DEF Next
<1> QED
  BY <1>1, <1>2, <1>3 DEF FInv

(* A SIGTERM finds every live stream in the registry, and the registry     *)
(* keeps none that has ended, for any number of connections.               *)
THEOREM StreamsAccounted == Spec => []StreamsAccountedFor
<1>1. FInv => StreamsAccountedFor
  BY DEF FInv
<1> QED
  BY <1>1, FeedStarts, FeedStep, PTL DEF Spec

(* However polls overlap, fail or are cut by the page, and whatever        *)
(* retention removes, nothing but late and tied rows is passed over.       *)
THEOREM FeedSkipsNothing == Spec => []NothingSkipped
<1>1. FInv => NothingSkipped
  BY DEF FInv
<1> QED
  BY <1>1, FeedStarts, FeedStep, PTL DEF Spec

-----------------------------------------------------------------------------
(* Statistics and retention: days, and the rows counted for a day          *)

LEMMA DayBounds ==
  ASSUME NEW t \in Nat
  PROVE  /\ DayOf(t) \in Nat
         /\ DayLength * DayOf(t) <= t /\ t < DayLength * DayOf(t) + DayLength
BY FeedAssumption DEF DayOf

LEMMA DaysGrow ==
  ASSUME NEW t \in Nat, NEW u \in Nat, t <= u
  PROVE  DayOf(t) <= DayOf(u)
BY FeedAssumption DEF DayOf

LEMMA TwoDaysBefore ==
  ASSUME NEW t \in Nat, NEW u \in Nat, t < u - 2 * DayLength
  PROVE  DayOf(t) < DayOf(u) - 1
BY FeedAssumption DEF DayOf

CountedRows(d, c) == {e \in table : DayOf(ts[e]) = d /\ Category[e] = c}

LEMMA CountsTyped ==
  ASSUME FInv, NEW d, NEW c
  PROVE  /\ CountOf(d, c) = Cardinality(CountedRows(d, c)) /\ CountOf(d, c) \in Nat
         /\ IsFiniteSet(CountedRows(d, c))
<1>1. table \subseteq Events
  BY DEF FInv, StreamsAccountedFor, TypeOK
<1>2. IsFiniteSet(CountedRows(d, c))
  BY <1>1, FeedAssumption, FS_Subset DEF CountedRows
<1> QED
  BY <1>2, FS_CardinalityType DEF CountOf, CountedRows

LEMMA CountGrows ==
  ASSUME FInv, FInv', NEW d, NEW c, CountedRows(d, c) \subseteq CountedRows(d, c)'
  PROVE  CountOf(d, c) <= CountOf(d, c)'
<1>1. IsFiniteSet(CountedRows(d, c)') /\ CountOf(d, c)' = Cardinality(CountedRows(d, c)')
  <2>1. table' \subseteq Events
    BY DEF FInv, StreamsAccountedFor, TypeOK
  <2>2. IsFiniteSet(CountedRows(d, c)')
    BY <2>1, FeedAssumption, FS_Subset DEF CountedRows
  <2> QED
    BY <2>2 DEF CountOf, CountedRows
<1> QED
  BY <1>1, CountsTyped, FS_Subset

(* With two or more whole days kept, the figures written and those still   *)
(* to be written are no more than the rows of a day that may be counted    *)
(* again, and retention leaves those rows alone.                           *)
Recent(d) == d >= DayOf(now) - 1

FiguresTyped ==
  /\ stat \in [Days -> [Categories -> Nat]]
  /\ rollup \in [day : Days, counts : [Categories -> Nat]]

FiguresBehind ==
  /\ \A d \in Days, c \in Categories : Recent(d) => stat[d][c] <= CountOf(d, c)
  /\ \A c \in Categories : rollup.counts[c] > 0 =>
       /\ stat[rollup.day][c] <= rollup.counts[c]
       /\ Recent(rollup.day) => rollup.counts[c] <= CountOf(rollup.day, c)

PruningBehind ==
  pruning.at # "idle" =>
    /\ pruning.cutoff \in Int /\ pruning.cutoff <= now - 2 * DayLength
    /\ \A e \in pruning.batch : e \in arrived /\ ts[e] < pruning.cutoff

RInv == FInv /\ FiguresTyped /\ (RetentionDays >= 2 => FiguresBehind /\ PruningBehind)

LEMMA DaysTyped ==
  ASSUME FInv
  PROVE  /\ now \in Nat /\ setting.time \in Nat /\ now <= setting.time
         /\ DayOf(now) \in Days /\ (DayOf(now) > 0 => DayOf(now) - 1 \in Days)
         /\ 0 \in Days
<1>1. now \in Nat /\ setting.time \in Nat /\ now <= setting.time
  BY SettingsTyped DEF FInv, StreamsAccountedFor, TypeOK, Times
<1>2. DayOf(now) \in Nat /\ DayOf(setting.time) \in Nat /\ DayOf(now) <= DayOf(setting.time)
  BY <1>1, DayBounds, DaysGrow
<1> QED
  BY <1>1, <1>2 DEF Days, DayOf

LEMMA FiguresStart == Init => RInv
<1> SUFFICES ASSUME Init
             PROVE  RInv
  OBVIOUS
<1>1. FInv
  BY FeedStarts
<1>2. 0 \in Days
  BY <1>1, DaysTyped
<1>3. FiguresTyped
  BY <1>2 DEF Init, FiguresTyped, NoRollup
<1>4. FiguresBehind
  <2>1. \A d \in Days, c \in Categories : stat[d][c] = 0 /\ CountOf(d, c) >= 0
    BY <1>1, CountsTyped DEF Init
  <2> QED
    BY <1>2, <2>1 DEF Init, FiguresBehind, NoRollup
<1>5. PruningBehind
  BY DEF Init, PruningBehind, NoRun
<1> QED
  BY <1>1, <1>3, <1>4, <1>5 DEF RInv

LEMMA FiguresKept ==
  ASSUME RInv, FInv', UNCHANGED <<setting, stat, rollup>>, now <= now',
         RetentionDays >= 2 =>
           \A d \in Days, c \in Categories :
             Recent(d) => CountedRows(d, c) \subseteq CountedRows(d, c)'
  PROVE  FiguresTyped' /\ (RetentionDays >= 2 => FiguresBehind')
<1>1. FiguresTyped'
  BY DEF RInv, FiguresTyped, Days
<1>2. \A d \in Days : Recent(d)' => Recent(d)
  <2>1. now \in Nat /\ now' \in Nat
    BY DaysTyped, SettingsTyped DEF RInv, FInv, StreamsAccountedFor, TypeOK, Times
  <2>2. DayOf(now) <= DayOf(now') /\ DayOf(now) \in Nat /\ DayOf(now') \in Nat
    BY <2>1, DaysGrow, DayBounds
  <2>3. \A d \in Days : d \in Int
    BY DEF Days
  <2> QED
    BY <2>2, <2>3 DEF Recent, DayOf
<1>3. ASSUME RetentionDays >= 2
      PROVE  FiguresBehind'
  <2>1. \A d \in Days, c \in Categories : Recent(d) =>
          CountOf(d, c) <= CountOf(d, c)' /\ CountOf(d, c) \in Nat /\ CountOf(d, c)' \in Nat
    <3> SUFFICES ASSUME NEW d \in Days, NEW c \in Categories, Recent(d)
                 PROVE  CountOf(d, c) <= CountOf(d, c)' /\ CountOf(d, c) \in Nat
                        /\ CountOf(d, c)' \in Nat
      OBVIOUS
    <3>1. CountedRows(d, c) \subseteq CountedRows(d, c)'
      BY <1>3
    <3>2. CountOf(d, c) <= CountOf(d, c)'
      BY <3>1, CountGrows DEF RInv
    <3>3. CountOf(d, c) \in Nat
      BY CountsTyped DEF RInv
    <3>4. CountOf(d, c)' \in Nat
      <4>1. table' \subseteq Events
        BY DEF FInv, StreamsAccountedFor, TypeOK
      <4>2. IsFiniteSet(CountedRows(d, c)')
        BY <4>1, FeedAssumption, FS_Subset DEF CountedRows
      <4> QED
        BY <4>2, FS_CardinalityType DEF CountOf, CountedRows
    <3> QED
      BY <3>2, <3>3, <3>4
  <2>2. FiguresBehind
    BY <1>3 DEF RInv
  <2>3. \A d \in Days, c \in Categories : Recent(d)' => stat[d][c] <= CountOf(d, c)'
    BY <1>2, <2>1, <2>2 DEF FiguresBehind, RInv, FiguresTyped
  <2>4. ASSUME NEW c \in Categories, rollup.counts[c] > 0
        PROVE  /\ stat[rollup.day][c] <= rollup.counts[c]
               /\ Recent(rollup.day)' => rollup.counts[c] <= CountOf(rollup.day, c)'
    <3>1. rollup.day \in Days /\ rollup.counts[c] \in Nat
      BY DEF RInv, FiguresTyped
    <3> QED
      BY <1>2, <2>1, <2>2, <2>4, <3>1 DEF FiguresBehind
  <2> QED
    BY <2>3, <2>4 DEF FiguresBehind, Days, Recent, CountOf, DayOf
<1> QED
  BY <1>1, <1>3

LEMMA PruningKept ==
  ASSUME RInv, FInv', UNCHANGED <<setting, pruning>>, now <= now', arrived \subseteq arrived',
         \A e \in arrived : ts'[e] = ts[e]
  PROVE  RetentionDays >= 2 => PruningBehind'
<1>1. now \in Nat /\ now' \in Nat
  BY DaysTyped, SettingsTyped DEF RInv, FInv, StreamsAccountedFor, TypeOK, Times
<1> QED
  BY <1>1, FeedAssumption DEF RInv, PruningBehind

(* Steps that leave the figures alone and remove no row.                   *)
LEMMA FiguresUnmoved ==
  ASSUME RInv, FInv', UNCHANGED <<setting, stat, rollup>>, now <= now',
         table \subseteq table', \A e \in table : ts'[e] = ts[e]
  PROVE  FiguresTyped' /\ (RetentionDays >= 2 => FiguresBehind')
<1>1. \A d \in Days, c \in Categories : CountedRows(d, c) \subseteq CountedRows(d, c)'
  BY DEF CountedRows, DayOf
<1> QED
  BY <1>1, FiguresKept

LEMMA PruneDeleteSpares ==
  ASSUME RInv, FInv', PruneDelete
  PROVE  RInv'
<1>1. /\ table' = table \ pruning.batch
      /\ pruning' = NoRun \/ (pruning'.at = "find" /\ pruning'.cutoff = pruning.cutoff
                                /\ pruning'.batch = {})
      /\ pruning.at = "delete"
      /\ UNCHANGED <<setting, now, ts, arrived, stat, rollup>>
  <2>1. CASE Cardinality(pruning.batch) < BatchSize
    BY <2>1 DEF PruneDelete, streamVars
  <2> QED
    BY <2>1 DEF PruneDelete, streamVars
<1>2. now \in Nat
  BY DaysTyped DEF RInv
<1>3. ASSUME RetentionDays >= 2, NEW d \in Days, NEW c \in Categories, Recent(d)
      PROVE  CountedRows(d, c) \subseteq CountedRows(d, c)'
  <2> SUFFICES ASSUME NEW e \in CountedRows(d, c), e \in pruning.batch
               PROVE  FALSE
    BY <1>1 DEF CountedRows, DayOf
  <2>1. pruning.cutoff \in Int /\ pruning.cutoff <= now - 2 * DayLength /\ ts[e] < pruning.cutoff
    BY <1>1, <1>3 DEF RInv, PruningBehind
  <2>2. e \in Events /\ ts[e] \in Nat
    BY DEF CountedRows, RInv, FInv, StreamsAccountedFor, TypeOK, Times
  <2>3. DayOf(ts[e]) < DayOf(now) - 1
    <3>1. ts[e] < now - 2 * DayLength
      BY <1>2, <2>1, <2>2, FeedAssumption
    <3> QED
      BY <1>2, <2>2, <3>1, TwoDaysBefore
  <2>4. DayOf(ts[e]) = d /\ d \in Nat /\ DayOf(now) \in Nat
    BY <1>2, <2>2, DayBounds DEF CountedRows, Days
  <2> QED
    BY <1>3, <2>3, <2>4 DEF Recent
<1>4. FiguresTyped' /\ (RetentionDays >= 2 => FiguresBehind')
  <2>1. now <= now'
    BY <1>1, <1>2
  <2> QED
    BY <1>1, <1>3, <2>1, FiguresKept
<1>5. RetentionDays >= 2 => PruningBehind'
  BY <1>1 DEF RInv, PruningBehind, NoRun
<1> QED
  BY <1>1, <1>4, <1>5 DEF RInv, RetentionDays

LEMMA RollupReadBehind ==
  ASSUME RInv, FInv', RollupRead
  PROVE  FiguresTyped' /\ (RetentionDays >= 2 => FiguresBehind')
<1>1. PICK y \in Days :
        /\ rollup' = [day |-> y, counts |-> [c \in Categories |-> CountOf(y, c)]]
        /\ Recent(y)
        /\ UNCHANGED <<setting, now, table, ts, stat>>
  <2>1. DayOf(now) - 1 \in Days /\ Recent(DayOf(now) - 1)
    BY DaysTyped DEF RollupRead, RInv, Recent, Days
  <2> QED
    BY <2>1 DEF RollupRead, tableVars
<1>2. \A d, c : CountOf(d, c) \in Nat /\ CountOf(d, c)' = CountOf(d, c)
  <2>1. \A d, c : CountOf(d, c)' = CountOf(d, c)
    BY <1>1 DEF CountOf, DayOf
  <2> QED
    BY <2>1, CountsTyped DEF RInv
<1>3. FiguresTyped'
  BY <1>1, <1>2 DEF RInv, FiguresTyped, Days
<1>4. ASSUME RetentionDays >= 2
      PROVE  FiguresBehind'
  <2>1. \A c \in Categories : rollup'.counts[c] = CountOf(y, c) /\ rollup'.day = y
    BY <1>1
  <2>2. \A d \in Days, c \in Categories : Recent(d) => stat[d][c] <= CountOf(d, c)
    BY <1>4 DEF RInv, FiguresBehind
  <2>3. (\A d : Recent(d)' <=> Recent(d)) /\ Days' = Days
    BY <1>1 DEF Recent, DayOf, Days
  <2> QED
    BY <1>1, <1>2, <2>1, <2>2, <2>3 DEF FiguresBehind
<1> QED
  BY <1>3, <1>4

LEMMA RollupUpsertBehind ==
  ASSUME RInv, FInv', NEW k \in Categories, RollupUpsert(k)
  PROVE  FiguresTyped' /\ (RetentionDays >= 2 => FiguresBehind')
<1>1. /\ rollup.counts[k] > 0
      /\ stat' = [stat EXCEPT ![rollup.day][k] = rollup.counts[k]]
      /\ rollup' = Written(k)
      /\ UNCHANGED <<setting, now, table, ts>>
  BY DEF RollupUpsert, tableVars
<1>2. /\ rollup.day \in Days /\ rollup.counts \in [Categories -> Nat]
      /\ stat \in [Days -> [Categories -> Nat]] /\ 0 \in Days
  BY DaysTyped DEF RInv, FiguresTyped
<1>3. /\ rollup'.day \in Days /\ rollup'.counts \in [Categories -> Nat]
      /\ \A c \in Categories : rollup'.counts[c] > 0 =>
           c # k /\ rollup'.day = rollup.day /\ rollup'.counts[c] = rollup.counts[c]
      /\ rollup' \in [day : Days, counts : [Categories -> Nat]]
  <2> DEFINE left == [rollup.counts EXCEPT ![k] = 0]
  <2>1. left \in [Categories -> Nat]
    BY <1>2
  <2>2. CASE \A c \in Categories : left[c] = 0
    <3>1. rollup' = NoRollup
      BY <1>1, <2>2 DEF Written
    <3> QED
      BY <1>2, <3>1 DEF NoRollup
  <2>3. CASE ~(\A c \in Categories : left[c] = 0)
    <3>1. rollup' = [rollup EXCEPT !.counts = left]
      BY <1>1, <2>3 DEF Written
    <3>2. rollup \in [day : Days, counts : [Categories -> Nat]]
      BY DEF RInv, FiguresTyped
    <3>3. rollup'.day = rollup.day /\ rollup'.counts = left
          /\ rollup' \in [day : Days, counts : [Categories -> Nat]]
      BY <2>1, <3>1, <3>2
    <3>4. \A c \in Categories : left[c] > 0 => c # k /\ left[c] = rollup.counts[c]
      BY <1>2
    <3> QED
      BY <1>2, <2>1, <3>3, <3>4
  <2> QED
    BY <2>2, <2>3
<1>4. /\ stat' \in [Days -> [Categories -> Nat]]
      /\ stat'[rollup.day][k] = rollup.counts[k]
      /\ \A d \in Days, c \in Categories :
           (d # rollup.day \/ c # k) => stat'[d][c] = stat[d][c]
  BY <1>1, <1>2
<1>5. FiguresTyped'
  BY <1>1, <1>3, <1>4 DEF FiguresTyped, Days
<1>6. ASSUME RetentionDays >= 2
      PROVE  FiguresBehind'
  <2>1. \A d, c : CountOf(d, c)' = CountOf(d, c)
    BY <1>1 DEF CountOf, DayOf
  <2>2. \A d : Recent(d)' <=> Recent(d)
    BY <1>1 DEF Recent, DayOf
  <2>3. FiguresBehind
    BY <1>6 DEF RInv
  <2>4. ASSUME NEW d \in Days, NEW c \in Categories, Recent(d)
        PROVE  stat'[d][c] <= CountOf(d, c)
    <3>1. CASE d = rollup.day /\ c = k
      BY <1>1, <1>4, <2>3, <2>4, <3>1 DEF FiguresBehind
    <3>2. CASE d # rollup.day \/ c # k
      BY <1>4, <2>3, <2>4, <3>2 DEF FiguresBehind
    <3> QED
      BY <3>1, <3>2
  <2>5. ASSUME NEW c \in Categories, rollup'.counts[c] > 0
        PROVE  /\ stat'[rollup'.day][c] <= rollup'.counts[c]
               /\ Recent(rollup'.day) => rollup'.counts[c] <= CountOf(rollup'.day, c)
    <3>1. c # k /\ rollup'.day = rollup.day /\ rollup'.counts[c] = rollup.counts[c]
      BY <1>3, <2>5
    <3>2. stat'[rollup.day][c] = stat[rollup.day][c]
      BY <1>2, <1>4, <3>1
    <3> QED
      BY <2>3, <2>5, <3>1, <3>2 DEF FiguresBehind
  <2>6. Days' = Days
    BY <1>1 DEF Days
  <2> QED
    BY <2>1, <2>2, <2>4, <2>5, <2>6 DEF FiguresBehind
<1> QED
  BY <1>5, <1>6

LEMMA FiguresStep == RInv /\ [Next]_vars => RInv'
<1> SUFFICES ASSUME RInv, [Next]_vars
             PROVE  RInv'
  OBVIOUS
<1>1. FInv /\ FInv'
  BY FeedStep DEF RInv
<1>2. now \in Nat /\ now' \in Nat /\ setting' = setting /\ RetentionDays' = RetentionDays
  <2>1. setting' = setting
    BY DEF Next, vars, Store, Tick, Connect, PollLookup, PollQuery, PollSend, PollThrows, Drop,
           Abort, Sigterm, Exit, Restart, PruneStart, PruneFind, PruneDelete, PruneThrows,
           RollupRead, RollupUpsert, RollupThrows
  <2> QED
    BY <1>1, <2>1, SettingsTyped DEF FInv, StreamsAccountedFor, TypeOK, Times, RetentionDays
<1>3. ASSUME UNCHANGED <<stat, rollup>>, now <= now', table \subseteq table',
             \A e \in arrived : ts'[e] = ts[e], arrived \subseteq arrived',
             UNCHANGED pruning
      PROVE  RInv'
  <2>1. \A e \in table : ts'[e] = ts[e]
    BY <1>1, <1>3 DEF FInv, StreamsAccountedFor, TypeOK
  <2> QED
    BY <1>1, <1>2, <1>3, <2>1, FiguresUnmoved, PruningKept DEF RInv
<1>4. ASSUME NEW e \in Events, NEW t \in Times, Store(e, t)
      PROVE  RInv'
  <2>1. \A f \in arrived : ts'[f] = ts[f]
    BY <1>1, <1>4 DEF Store, FInv, StreamsAccountedFor, TypeOK
  <2> QED
    BY <1>2, <1>3, <1>4, <2>1 DEF Store, jobVars
<1>5. CASE Tick
  BY <1>2, <1>3, <1>5 DEF Tick, tableVars, jobVars
<1>6. ASSUME \/ \E p \in Slots : PollLookup(p) \/ PollQuery(p) \/ PollSend(p) \/ PollThrows(p)
             \/ \E c \in Conns : Drop(c) \/ Abort(c) \/ \E resume \in BOOLEAN : Connect(c, resume)
             \/ Sigterm \/ Exit \/ Restart \/ UNCHANGED vars
      PROVE  RInv'
  <2>1. UNCHANGED <<now, table, ts, arrived, pruning, stat, rollup>>
    BY <1>6 DEF vars, tableVars, jobVars, PollLookup, PollQuery, PollSend, PollThrows, Drop, Abort,
                Connect, Sigterm, Exit, Restart
  <2> QED
    BY <1>2, <1>3, <2>1
<1>7. CASE PruneStart \/ PruneFind \/ PruneThrows
  <2>1. UNCHANGED <<now, table, ts, arrived, stat, rollup>>
    BY <1>7 DEF PruneStart, PruneFind, PruneThrows, tableVars
  <2>2. FiguresTyped' /\ (RetentionDays >= 2 => FiguresBehind')
    BY <1>1, <1>2, <2>1, FiguresUnmoved
  <2>3. ASSUME RetentionDays >= 2
        PROVE  PruningBehind'
    <3>1. CASE PruneStart
      <4>1. RetentionDays \in Int /\ DayLength \in Nat
        BY <1>1, FeedAssumption, SettingsTyped DEF FInv, StreamsAccountedFor, TypeOK, RetentionDays
      <4>2. RetentionDays * DayLength \in Int /\ RetentionDays * DayLength >= 2 * DayLength
        BY <2>3, <4>1
      <4>3. pruning' = [at |-> "find", cutoff |-> now - RetentionDays * DayLength, batch |-> {}]
        BY <3>1 DEF PruneStart
      <4> HIDE DEF RetentionDays
      <4>4. pruning'.cutoff \in Int /\ pruning'.cutoff <= now - 2 * DayLength /\ pruning'.batch = {}
        BY <1>2, <4>1, <4>2, <4>3
      <4> QED
        BY <2>1, <4>4 DEF PruningBehind
    <3>2. CASE PruneFind
      <4>1. PICK B \in SUBSET Stale(pruning.cutoff) :
              pruning' = IF RetentionDb = "client" \/ B = {} THEN NoRun
                         ELSE [pruning EXCEPT !.at = "delete", !.batch = B]
        BY <3>2 DEF PruneFind
      <4>2. CASE pruning' = NoRun
        BY <4>2 DEF PruningBehind, NoRun
      <4>3. ASSUME pruning' = [pruning EXCEPT !.at = "delete", !.batch = B]
            PROVE  PruningBehind'
        <5>1. pruning'.cutoff = pruning.cutoff /\ pruning'.batch \subseteq B
          BY <4>3
        <5>2. B \subseteq arrived /\ \A e \in B : ts[e] < pruning.cutoff
          BY <1>1 DEF Stale, FInv, StreamsAccountedFor, TypeOK
        <5>3. pruning.at # "idle" /\ PruningBehind
          BY <2>3, <3>2 DEF PruneFind, RInv
        <5> QED
          BY <2>1, <5>1, <5>2, <5>3 DEF PruningBehind
      <4> QED
        BY <4>1, <4>2, <4>3
    <3>3. CASE PruneThrows
      BY <3>3 DEF PruneThrows, PruningBehind, NoRun
    <3> QED
      BY <1>7, <3>1, <3>2, <3>3
  <2> QED
    BY <1>1, <1>2, <2>2, <2>3 DEF RInv
<1>8. CASE PruneDelete
  BY <1>1, <1>8, PruneDeleteSpares
<1>9. ASSUME RollupRead \/ \E c \in Categories : RollupUpsert(c)
      PROVE  RInv'
  <2>1. UNCHANGED <<now, ts, arrived, pruning>>
    BY <1>9 DEF RollupRead, RollupUpsert, tableVars
  <2>2. RetentionDays >= 2 => PruningBehind'
    BY <1>1, <1>2, <2>1, PruningKept
  <2>3. FiguresTyped' /\ (RetentionDays >= 2 => FiguresBehind')
    BY <1>1, <1>9, RollupReadBehind, RollupUpsertBehind
  <2> QED
    BY <1>1, <1>2, <2>2, <2>3 DEF RInv
<1>10. CASE RollupThrows
  <2>1. /\ rollup' = NoRollup
        /\ UNCHANGED <<now, table, ts, arrived, pruning, stat>>
    BY <1>10 DEF RollupThrows, tableVars
  <2>2. 0 \in Days /\ Days' = Days
    BY <1>1, <1>2, DaysTyped DEF Days
  <2>3. FiguresTyped'
    BY <2>1, <2>2 DEF RInv, FiguresTyped, NoRollup
  <2>4. RetentionDays >= 2 => FiguresBehind'
    BY <2>1, <2>2 DEF RInv, FiguresBehind, NoRollup, Recent, CountOf, DayOf
  <2>5. RetentionDays >= 2 => PruningBehind'
    BY <1>1, <1>2, <2>1, PruningKept
  <2> QED
    BY <1>1, <1>2, <2>3, <2>4, <2>5 DEF RInv
<1> QED
  BY <1>4, <1>5, <1>6, <1>7, <1>8, <1>9, <1>10 DEF Next

(* A step that writes a figure writes no less than the one it replaces.    *)
LEMMA FiguresGrow ==
  RInv /\ [Next]_vars =>
    (RetentionDays >= 2 => \A d \in Days, c \in Categories : stat'[d][c] >= stat[d][c])
<1> SUFFICES ASSUME RInv, [Next]_vars, RetentionDays >= 2, NEW d \in Days, NEW c \in Categories
             PROVE  stat'[d][c] >= stat[d][c]
  OBVIOUS
<1>1. stat \in [Days -> [Categories -> Nat]] /\ rollup.counts \in [Categories -> Nat]
      /\ rollup.day \in Days
  BY DEF RInv, FiguresTyped
<1>2. ASSUME NEW k \in Categories, RollupUpsert(k)
      PROVE  stat'[d][c] >= stat[d][c]
  <2>1. /\ stat' = [stat EXCEPT ![rollup.day][k] = rollup.counts[k]]
        /\ stat[rollup.day][k] <= rollup.counts[k]
    BY <1>2 DEF RInv, FiguresBehind, RollupUpsert
  <2> QED
    BY <1>1, <2>1
<1>3. ASSUME UNCHANGED stat
      PROVE  stat'[d][c] >= stat[d][c]
  <2>1. stat[d][c] \in Nat
    BY <1>1
  <2> QED
    BY <1>3, <2>1
<1>4. (\E k \in Categories : RollupUpsert(k)) \/ UNCHANGED stat
  BY DEF Next, vars, jobVars, Store, Tick, Connect, PollLookup, PollQuery, PollSend, PollThrows,
         Drop, Abort, Sigterm, Exit, Restart, PruneStart, PruneFind, PruneDelete, PruneThrows,
         RollupRead, RollupThrows
<1> QED
  BY <1>2, <1>3, <1>4

(* With two or more whole days kept, a day's figure is never replaced by a *)
(* smaller one, however retention runs interleave with rollups.            *)
THEOREM FiguresNeverShrink == Spec => StatsNeverShrink
<1>1. RInv /\ [Next]_vars =>
        [RetentionDays >= 2 =>
           \A d \in Days, c \in Categories : stat'[d][c] >= stat[d][c]]_vars
  BY FiguresGrow
<1> QED
  BY <1>1, FiguresStart, FiguresStep, PTL DEF Spec, StatsNeverShrink
=============================================================================
