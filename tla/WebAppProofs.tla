------------------------------ MODULE WebAppProofs ------------------------------
(***************************************************************************)
(* Theorems about the web application, for any queries, ranges, options,   *)
(* webhooks, requests and bounds.  Each part has an inductive invariant of *)
(* its own, kept by its steps and by those of the other parts, which leave *)
(* it alone; the invariants of the rate limiter and of the figures are     *)
(* those of WebRoutesProofs.                                               *)
(***************************************************************************)
EXTENDS WebApp, WebRoutesProofs, SequenceTheorems, FiniteSetTheorems,
        WellFoundedInduction


-----------------------------------------------------------------------------
(* The wallet: a transaction is of a click; what is signed or submitted is *)
(* of the last one, and whatever else the network has of it is unsure.     *)
Transactions == [n : Nat, seq : Nat]
Sent == pool \cup applied

PaymentsSound ==
  /\ txState \in {"idle", "building", "signing", "submitting", "success", "error"}
  /\ clicks \in Nat /\ seqNo \in Nat /\ Sent \subseteq Transactions
  /\ \A t \in Sent : t.n <= clicks
  /\ \A t \in applied : t.seq <= seqNo
  /\ txState \in {"signing", "submitting", "success"} => tx \in Transactions /\ tx.n = clicks

WalletInv ==
  /\ PaymentsSound
  /\ txState \in {"building", "signing"} => \A t \in Sent : t.n # clicks
  /\ txState = "submitting" => \A t \in Sent : t.n = clicks => t = tx
  /\ txState = "error" => \A t \in Sent : t.n = clicks => t \in unsure
  /\ txState = "success" => tx \in applied
  /\ \A t, u \in applied : t.seq = u.seq => t = u

LEMMA WalletStarts == WalletInit => WalletInv
BY DEF WalletInit, WalletInv, PaymentsSound, Sent

LEMMA WalletStep == WalletInv /\ [WalletNext]_walletVars => WalletInv'
<1> USE DEF Sent
<1> SUFFICES ASSUME WalletInv, [WalletNext]_walletVars
             PROVE  WalletInv'
  OBVIOUS
<1> USE DEF WalletInv, PaymentsSound
<1>0. \A t \in Sent : t.n \in Nat /\ t.seq \in Nat
  BY DEF Transactions
<1>1. ASSUME UNCHANGED <<dialogVars, networkVars>>
      PROVE  WalletInv'
  BY <1>1 DEF dialogVars, networkVars
<1>2. CASE ToggleDialog
  BY <1>2 DEF ToggleDialog, networkVars
<1>3. CASE TryAgain
  BY <1>3 DEF TryAgain, networkVars
<1>4. CASE Click
  <2>1. /\ clicks' = clicks + 1 /\ txState' \in {"error", "building"}
        /\ UNCHANGED <<tx, unsure, seqNo, pool, applied>>
    BY <1>4 DEF Click, networkVars
  <2>2. \A t \in Sent : t.n <= clicks' /\ t.n # clicks'
    BY <1>0, <2>1
  <2> QED
    BY <2>1, <2>2
<1>5. CASE Build
  <2>1. CASE txState' = "error" /\ UNCHANGED tx
    BY <1>5, <2>1 DEF Build, networkVars
  <2>2. CASE txState' = "signing" /\ tx' = [n |-> clicks, seq |-> seqNo + 1]
    <3>1. tx' \in Transactions /\ tx'.n = clicks
      BY <2>2 DEF Transactions
    <3> QED
      BY <1>5, <2>2, <3>1 DEF Build, networkVars
  <2> QED
    BY <1>5, <2>1, <2>2 DEF Build
<1>6. CASE Sign
  <2>1. CASE txState' = "submitting" /\ pool' = pool \cup {tx}
    BY <1>6, <2>1 DEF Sign
  <2>2. CASE txState' = "error" /\ UNCHANGED pool
    BY <1>6, <2>2 DEF Sign
  <2> QED
    BY <1>6, <2>1, <2>2 DEF Sign
<1>7. CASE Succeed
  BY <1>7 DEF Succeed, networkVars
<1>8. CASE Fail
  BY <1>8 DEF Fail, networkVars
<1>9. CASE PaidElsewhere
  BY <1>0, <1>9 DEF PaidElsewhere, dialogVars
<1>10. ASSUME NEW t \in pool, Decide(t)
       PROVE  WalletInv'
  <2>1. CASE UNCHANGED <<seqNo, funds, applied>>
    BY <1>10, <2>1 DEF Decide, dialogVars
  <2>2. CASE t.seq = seqNo + 1 /\ seqNo' = t.seq /\ applied' = applied \cup {t}
    <3>1. /\ UNCHANGED <<txState, tx, clicks, unsure>>
          /\ Sent' \subseteq Sent /\ t \in Transactions
      BY <1>10, <2>2 DEF Decide, dialogVars
    <3>2. t.seq \in Nat /\ seqNo' = seqNo + 1 /\ \A u \in applied : u.seq # t.seq /\ u.seq \in Nat
      BY <3>1, <2>2 DEF Transactions
    <3>3. PaymentsSound'
      BY <3>1, <3>2, <2>2 DEF Transactions
    <3>4. \A v, u \in applied' : v.seq = u.seq => v = u
      BY <3>2, <2>2
    <3> QED
      BY <3>1, <3>3, <3>4, <2>2
  <2> QED
    BY <1>10, <2>1, <2>2 DEF Decide
<1>11. ASSUME WalletConnect \/ WalletRefresh \/ WalletDisconnect \/ WalletAnswers
       PROVE  UNCHANGED <<dialogVars, networkVars>>
  BY <1>11 DEF WalletConnect, WalletRefresh, WalletDisconnect, WalletAnswers, FreighterAnswer
<1>12. CASE UNCHANGED walletVars
  BY <1>12, <1>1 DEF walletVars
<1> QED
  BY <1>1, <1>2, <1>3, <1>4, <1>5, <1>6, <1>7, <1>8, <1>9, <1>10, <1>11, <1>12
     DEF WalletNext, DialogAnswers

LEMMA WalletHolds == WalletInv => PaidAsShown
BY DEF WalletInv, PaymentsSound, PaidAsShown, Sent

-----------------------------------------------------------------------------
(* The delivery log: what is expanded is kept, or its load has failed, or  *)
(* is under way.                                                           *)
LogInv ==
  /\ \A l \in logLoads : l.id \in Webhooks
  /\ expandedId # Collapsed =>
       \/ deliveryError # Collapsed \/ expandedId \in deliveriesByWebhook
       \/ \E l \in logLoads : l.id = expandedId

LEMMA LogStarts == LogInit => LogInv
BY DEF LogInit, LogInv

LEMMA LogStep == LogInv /\ [LogNext]_logVars => LogInv'
<1> SUFFICES ASSUME LogInv, [LogNext]_logVars
             PROVE  LogInv'
  OBVIOUS
<1> USE DEF LogInv
<1>1. ASSUME NEW id \in Webhooks, ToggleExpanded(id)
      PROVE  LogInv'
  <2>1. CASE expandedId = id
    BY <1>1, <2>1 DEF ToggleExpanded
  <2>2. CASE expandedId # id /\ id \in deliveriesByWebhook
    BY <1>1, <2>2 DEF ToggleExpanded, LoadDeliveries
  <2>3. CASE expandedId # id /\ id \notin deliveriesByWebhook
    <3> DEFINE l == [id |-> id, n |-> logLoadsSent + 1]
    <3>1. l.id = id /\ logLoads' = logLoads \cup {l} /\ expandedId' = id
      BY <1>1, <2>3 DEF ToggleExpanded, LoadDeliveries
    <3> HIDE DEF l
    <3> QED
      BY <3>1
  <2> QED
    BY <2>1, <2>2, <2>3
<1>2. ASSUME NEW l \in logLoads, LogAnswer(l)
      PROVE  LogInv'
  BY <1>2, LogAssumption DEF LogAnswer
<1>3. CASE UNCHANGED logVars
  BY <1>3 DEF logVars
<1> QED
  BY <1>1, <1>2, <1>3 DEF LogNext

LEMMA LogHolds == LogInv => LogShown
BY DEF LogInv, LogShown, LogView

-----------------------------------------------------------------------------
(* The balances: without a doubt there is one load at most, of what the    *)
(* account has.                                                            *)
BalanceInv ==
  /\ accountFunds \in Nat /\ balanceSent \in Nat
  /\ balanceLoads \subseteq [n : Nat, value : Nat \cup {Unknown}]
  /\ display \in {"connected", "monitored"} /\ (display = "monitored" => present)
  /\ balanceLoads = {} => ~balanceLoading
  /\ ~present => balanceLoads = {}
  /\ ~balanceDoubt =>
       /\ \A l, k \in balanceLoads : l = k
       /\ \A l \in balanceLoads : l.value \in {accountFunds, Unknown}
       /\ (balanceLoads = {} /\ present /\ ~balanceError) => balance = accountFunds

LEMMA BalanceStarts == BalanceInit => BalanceInv
<1> SUFFICES ASSUME BalanceInit
             PROVE  BalanceInv
  OBVIOUS
<1>1. CASE present
  <2> DEFINE l == [n |-> 1, value |-> Unknown]
  <2>1. /\ l \in [n : Nat, value : Nat \cup {Unknown}] /\ balanceLoads = {l}
    BY <1>1 DEF BalanceInit
  <2>2. l.value = Unknown
    OBVIOUS
  <2> HIDE DEF l
  <2> QED
    BY <1>1, <2>1, <2>2, BalanceAssumption DEF BalanceInit, BalanceInv
<1>2. CASE ~present
  <2>1. balanceLoads = {} /\ ~balanceLoading /\ balanceSent = 0 /\ balanceDoubt
    BY <1>2 DEF BalanceInit
  <2>2. display \in {"connected", "monitored"} /\ (display = "monitored" => present)
    BY DEF BalanceInit
  <2>3. accountFunds \in Nat
    BY BalanceAssumption DEF BalanceInit
  <2> QED
    BY <1>2, <2>1, <2>2, <2>3 DEF BalanceInv
<1> QED
  BY <1>1, <1>2

LEMMA FetchKeeps ==
  ASSUME BalanceInv, Fetch, UNCHANGED <<display, accountFunds>>, present'
  PROVE  BalanceInv'
<1> DEFINE l == [n |-> balanceSent + 1, value |-> Unknown]
<1>1. /\ l \in [n : Nat, value : Nat \cup {Unknown}] /\ l.value = Unknown
  BY DEF BalanceInv
<1>2. balanceLoads' = balanceLoads \cup {l}
  BY DEF Fetch
<1> HIDE DEF l
<1>3. /\ balanceSent' = balanceSent + 1 /\ balanceLoading'
      /\ ~balanceDoubt' => balanceLoads = {}
  BY DEF Fetch
<1> QED
  BY <1>1, <1>2, <1>3 DEF BalanceInv

LEMMA BalanceStep == BalanceInv /\ [BalanceNext]_balanceVars => BalanceInv'
<1> SUFFICES ASSUME BalanceInv, [BalanceNext]_balanceVars
             PROVE  BalanceInv'
  OBVIOUS
<1>1. CASE FetchBalance \/ RefreshBalance
  BY <1>1, FetchKeeps DEF FetchBalance, RefreshBalance, BalanceInv
<1>2. CASE WalletAppears
  BY <1>2, FetchKeeps DEF WalletAppears
<1>3. CASE WalletLeaves
  BY <1>3 DEF WalletLeaves, BalanceInv
<1>4. CASE FundsChange
  BY <1>4, BalanceAssumption DEF FundsChange, BalanceInv, shownVars
<1>5. ASSUME NEW l \in balanceLoads, ReadBalance(l)
      PROVE  BalanceInv'
  <2>1. PICK k : /\ balanceLoads' = (balanceLoads \ {l}) \cup {k}
                 /\ k \in [n : Nat, value : Nat \cup {Unknown}] /\ k.value = accountFunds
    <3> DEFINE k == [l EXCEPT !.value = accountFunds]
    <3>1. l \in [n : Nat, value : Nat \cup {Unknown}] /\ accountFunds \in Nat
      BY DEF BalanceInv
    <3>2. k \in [n : Nat, value : Nat \cup {Unknown}] /\ k.value = accountFunds
      BY <3>1
    <3>3. balanceLoads' = (balanceLoads \ {l}) \cup {k}
      BY <1>5 DEF ReadBalance
    <3> HIDE DEF k
    <3> QED
      BY <3>2, <3>3
  <2>2. UNCHANGED <<display, accountFunds, present, balance, balanceError, balanceLoading, balanceSent, balanceDoubt>>
    BY <1>5 DEF ReadBalance, shownVars
  <2> QED
    BY <2>1, <2>2 DEF BalanceInv
<1>6. ASSUME NEW l \in balanceLoads, OnBalance(l)
      PROVE  BalanceInv'
  <2>1. /\ UNCHANGED <<display, accountFunds, present, balanceSent, balanceDoubt>>
        /\ balanceLoads' = balanceLoads \ {l} /\ ~balanceLoading'
        /\ \/ l.value # Unknown /\ balance' = l.value
           \/ balanceError'
    BY <1>6 DEF OnBalance
  <2> QED
    BY <2>1 DEF BalanceInv
<1>7. CASE UNCHANGED balanceVars
  BY <1>7 DEF balanceVars, BalanceInv
<1> QED
  BY <1>1, <1>2, <1>3, <1>4, <1>5, <1>6, <1>7 DEF BalanceNext

LEMMA BalanceHolds == BalanceInv => BalanceFits
BY BalanceAssumption DEF BalanceInv, BalanceFits, BalanceView, Shown

-----------------------------------------------------------------------------
(* The settings: one call at most, a load before anything was loaded or a  *)
(* save of the form.                                                       *)
CallRecords == [kind : {"load", "save"}, body : SUBSET Options, n : Nat, served : BOOLEAN]

CallsSound ==
  /\ calls \subseteq CallRecords /\ callsSent \in Nat
  /\ form \in SUBSET Options /\ stored \in SUBSET Options
  /\ \A r, q \in calls : r = q
  /\ \A r \in calls : r.kind = "load" => settingsLoading /\ ~loaded
  /\ \A r \in calls : r.kind = "save" => saving /\ loaded
  /\ (~saving /\ ~settingsLoading) => calls = {}

SettingsInv ==
  /\ CallsSound
  /\ abandoned \subseteq SUBSET Options
  /\ settingsLoading => ~loadError /\ ~saving
  /\ loaded <=> (~settingsLoading /\ ~loadError)
  /\ ~loaded => ~saving /\ saveState # "saved"
  /\ \A r \in calls : r.kind = "save" =>
       /\ edited \/ r.body = form
       /\ r.served => overtaken \/ stored = r.body
  /\ saveState = "saved" => ~saving
  /\ (saveState = "saved" /\ ~edited /\ ~overtaken) => stored = form

LEMMA SettingsStarts == SettingsInit => SettingsInv
<1> SUFFICES ASSUME SettingsInit
             PROVE  SettingsInv
  OBVIOUS
<1> DEFINE r == [kind |-> "load", body |-> {}, n |-> 1, served |-> FALSE]
<1>1. r \in CallRecords /\ r.kind = "load" /\ calls = {r}
  BY DEF SettingsInit, CallRecords
<1>2. form \in SUBSET Options /\ stored \in SUBSET Options
  BY SettingsAssumption DEF SettingsInit
<1> HIDE DEF r
<1> QED
  BY <1>1, <1>2 DEF SettingsInit, SettingsInv, CallsSound

(* A call that is sent when none is under way.                             *)
LEMMA CallSent ==
  ASSUME NEW kind \in {"load", "save"}, NEW body \in SUBSET Options,
         SettingsInv, SendCall(kind, body)
  PROVE  \E r \in CallRecords :
           /\ r.kind = kind /\ r.body = body /\ ~r.served
           /\ calls' = calls \cup {r} /\ callsSent' \in Nat
<1> DEFINE r == Call(kind, body)
<1>1. r \in CallRecords /\ r.kind = kind /\ r.body = body /\ ~r.served
  BY DEF Call, CallRecords, SettingsInv, CallsSound
<1>2. calls' = calls \cup {r} /\ callsSent' \in Nat
  BY DEF SendCall, SettingsInv, CallsSound
<1> QED
  BY <1>1, <1>2

LEMMA SettingsStep == SettingsInv /\ [SettingsNext]_settingsVars => SettingsInv'
<1> SUFFICES ASSUME SettingsInv, [SettingsNext]_settingsVars
             PROVE  SettingsInv'
  OBVIOUS
<1> USE DEF SettingsInv
<1>1. ASSUME NEW r \in calls, ServeCall(r)
      PROVE  SettingsInv'
  <2>1. UNCHANGED <<pageOnly, abandoned>> /\ r \in CallRecords /\ calls = {r}
    BY <1>1 DEF ServeCall, CallsSound
  <2>2. CASE GetPreferences(r)
    <3>1. PICK q \in CallRecords : q.kind = "load" /\ calls' = (calls \ {r}) \cup {q}
      <4> DEFINE body == IF stored = {} THEN DefaultPrefs ELSE stored
                 q == [r EXCEPT !.served = TRUE, !.body = body]
      <4>1. body \in SUBSET Options /\ r.kind = "load" /\ r \in CallRecords
        BY <2>1, <2>2, SettingsAssumption DEF GetPreferences, CallsSound
      <4> HIDE DEF body
      <4>2. q \in CallRecords /\ q.kind = "load"
        BY <4>1 DEF CallRecords
      <4>3. calls' = (calls \ {r}) \cup {q}
        BY <2>2 DEF GetPreferences, body
      <4> QED
        BY <4>2, <4>3
    <3>2. calls' = {q} /\ UNCHANGED <<stored, overtaken>> /\ r.kind = "load"
      BY <3>1, <2>1, <2>2 DEF GetPreferences
    <3> QED
      BY <3>1, <3>2, <2>1 DEF CallsSound, pageOnly
  <2>3. CASE PatchPreferences(r)
    <3>1. PICK q \in CallRecords : /\ q.kind = "save" /\ q.body = r.body
                                   /\ calls' = (calls \ {r}) \cup {q}
      <4> DEFINE q == [r EXCEPT !.served = TRUE]
      <4>1. q \in CallRecords /\ q.kind = "save" /\ q.body = r.body
        BY <2>1, <2>3 DEF PatchPreferences, CallRecords
      <4>2. calls' = (calls \ {r}) \cup {q}
        BY <2>3 DEF PatchPreferences
      <4> HIDE DEF q
      <4> QED
        BY <4>1, <4>2
    <3>2. calls' = {q} /\ stored' = r.body /\ ~overtaken' /\ r.kind = "save"
      BY <3>1, <2>1, <2>3 DEF PatchPreferences
    <3>3. r.body \in SUBSET Options
      BY <2>1 DEF CallRecords
    <3> QED
      BY <3>1, <3>2, <3>3, <2>1 DEF CallsSound, pageOnly
  <2> QED
    BY <1>1, <2>2, <2>3 DEF ServeCall
<1>2. CASE ServeLate
  BY <1>2 DEF ServeLate, pageOnly, CallsSound
<1>3. CASE OtherSaves
  <2>1. stored' \in SUBSET Options /\ overtaken' /\ UNCHANGED <<pageOnly, calls, abandoned>>
    BY <1>3 DEF OtherSaves
  <2> QED
    BY <2>1 DEF pageOnly, CallsSound
<1>4. CASE LoadPreferences
  <2>1. loadError /\ ~settingsLoading /\ SendCall("load", {})
    BY <1>4 DEF LoadPreferences, SettingsView
  <2>2. PICK r \in CallRecords :
           r.kind = "load" /\ calls' = calls \cup {r} /\ callsSent' \in Nat
    BY <2>1, CallSent
  <2>3. calls = {} /\ ~loaded /\ ~saving
    BY <2>1 DEF CallsSound
  <2> QED
    BY <1>4, <2>2, <2>3 DEF LoadPreferences, CallsSound
<1>5. CASE HandleSave
  <2>1. ~settingsLoading /\ ~loadError /\ ~saving /\ loaded /\ calls = {}
    BY <1>5 DEF HandleSave, SettingsView, CallsSound
  <2>2. CASE form \cap Channels = {}
    BY <1>5, <2>2 DEF HandleSave, CallsSound
  <2>3. CASE form \cap Channels # {}
    <3>1. PICK r \in CallRecords :
             /\ r.kind = "save" /\ r.body = form /\ ~r.served
             /\ calls' = calls \cup {r} /\ callsSent' \in Nat
      BY <1>5, <2>3, CallSent DEF HandleSave, CallsSound
    <3> QED
      BY <1>5, <2>1, <2>3, <3>1 DEF HandleSave, CallsSound
  <2> QED
    BY <2>2, <2>3
<1>6. ASSUME NEW option \in Options, Toggle(option)
      PROVE  SettingsInv'
  <2>1. ~settingsLoading /\ ~loadError /\ form' \in SUBSET Options
    BY <1>6 DEF Toggle, SettingsView, CallsSound
  <2> QED
    BY <1>6, <2>1 DEF Toggle, CallsSound
<1>7. ASSUME NEW r \in calls, SettingsAnswer(r)
      PROVE  SettingsInv'
  <2>1. /\ calls' = {} /\ calls = {r} /\ r \in CallRecords
        /\ UNCHANGED <<stored, callsSent, overtaken>>
    BY <1>7 DEF SettingsAnswer, CallsSound
  <2>2. CASE OnPreferences(r)
    <3>1. settingsLoading /\ ~loaded /\ ~saving /\ saveState # "saved" /\ ~loadError
      BY <2>2 DEF OnPreferences, CallsSound
    <3>2. r.body \in SUBSET Options
      BY <2>1 DEF CallRecords
    <3> QED
      BY <2>1, <2>2, <3>1, <3>2 DEF OnPreferences, CallsSound
  <2>3. CASE OnSaved(r)
    <3>1. saving /\ loaded /\ ~settingsLoading
      BY <2>3 DEF OnSaved, CallsSound
    <3>2. r.body \in SUBSET Options
      BY <2>1 DEF CallRecords
    <3>3. abandoned' \subseteq SUBSET Options
      BY <2>3, <3>2 DEF OnSaved
    <3> QED
      BY <2>1, <2>3, <3>1, <3>3 DEF OnSaved, CallsSound
  <2> QED
    BY <1>7, <2>2, <2>3 DEF SettingsAnswer
<1>8. CASE UNCHANGED settingsVars
  BY <1>8 DEF settingsVars, CallsSound
<1> QED
  BY <1>1, <1>2, <1>3, <1>4, <1>5, <1>6, <1>7, <1>8 DEF SettingsNext

LEMMA SettingsHolds == SettingsInv => SettingsFit
BY DEF SettingsInv, SettingsFit, SettingsView

-----------------------------------------------------------------------------
(* The pages with figures, each with the loads it may have under way.      *)
OverviewSound ==
  /\ \A l, k \in loads : l = k
  /\ \A l \in loads : l.range \in Ranges
  /\ dataSource = "live" => figures \in Ranges
  /\ dataSource # "live" => figures = Sample
  /\ dataSource # "loading" => loads = {}
AnalyticsSound ==
  /\ ~outrun => \A l \in loads : l.range = range
  /\ figures = Sample /\ dataSource # "live"
  /\ ~statsLoading => dataSource = "sample"
  /\ (~statsLoading /\ ~outrun) => chart = range
ContractsSound ==
  /\ \A l \in loads : l.range \in {Table, History}
  /\ (\A l \in loads : l.range # Table) => ~statsLoading
  /\ (\A l \in loads : l.range # History) => failed \/ chart # Nothing
  /\ chart \in {Nothing, History}
NotificationsSound ==
  /\ \A l, k \in loads : l = k
  /\ \A l \in loads : l.range \in Ranges
  /\ dataSource = "loading" => figures = Sample /\ ~noEvents
  /\ dataSource # "loading" => loads = {}
  /\ dataSource = "live" => ((figures = Sample) <=> noEvents)
  /\ dataSource = "sample" => figures = Sample

StatsInv ==
  /\ range \in Ranges
  /\ statsPage \in {"overview", "analytics", "contracts", "notifications"}
  /\ dataSource \in {"loading", "live", "sample"}
  /\ statsPage = "overview" => OverviewSound
  /\ statsPage = "analytics" => AnalyticsSound
  /\ statsPage = "contracts" => ContractsSound
  /\ statsPage = "notifications" => NotificationsSound

LEMMA StatsStarts == StatsInit => StatsInv
<1> SUFFICES ASSUME StatsInit
             PROVE  StatsInv
  OBVIOUS
<1>1. ASSUME statsPage # "contracts"
      PROVE  /\ \A l, k \in loads : l = k
             /\ \A l \in loads : l.range = range
  <2> DEFINE l == [range |-> range, n |-> 1, abortable |-> TRUE]
  <2>1. loads = {l} /\ l.range = range
    BY <1>1 DEF StatsInit
  <2> HIDE DEF l
  <2> QED
    BY <2>1
<1>2. ASSUME statsPage = "contracts"
      PROVE  /\ \A l \in loads : l.range \in {Table, History}
             /\ \E l \in loads : l.range = Table
             /\ \E l \in loads : l.range = History
  <2>1. loads = {[range |-> of, n |-> 1, abortable |-> TRUE] : of \in {Table, History}}
    BY <1>2 DEF StatsInit
  <2>2. ASSUME NEW of \in {Table, History}
        PROVE  \E l \in loads : l.range = of
    <3> DEFINE l == [range |-> of, n |-> 1, abortable |-> TRUE]
    <3>1. l \in loads /\ l.range = of
      BY <2>1
    <3> QED
      BY <3>1
  <2>3. \A l \in loads : l.range \in {Table, History}
    BY <2>1
  <2> QED
    BY <2>2, <2>3
<1> QED
  BY <1>1, <1>2 DEF StatsInit, StatsInv, OverviewSound, AnalyticsSound, ContractsSound,
                    NotificationsSound

(* The load a page starts.                                                 *)
LEMMA LoadStarted ==
  ASSUME NEW kept, NEW of, NEW abortable, Start(kept, of, abortable)
  PROVE  \E l : l.range = of /\ loads' = kept \cup {l}
<1> DEFINE l == Load(of, abortable)
<1>1. l.range = of /\ loads' = kept \cup {l}
  BY DEF Load, Start
<1> QED
  BY <1>1

LEMMA StatsStep == StatsInv /\ [StatsNext]_statsVars => StatsInv'
<1> SUFFICES ASSUME StatsInv, [StatsNext]_statsVars
             PROVE  StatsInv'
  OBVIOUS
<1>1. CASE LoadStats
  <2>1. /\ statsPage = "overview" /\ dataSource = "sample" /\ dataSource' = "loading"
        /\ UNCHANGED <<statsPage, range, figures>>
    BY <1>1 DEF LoadStats, Retryable, OverviewHeader, StatsInv
  <2>2. PICK l : l.range = range /\ loads' = loads \cup {l}
    BY <1>1, LoadStarted DEF LoadStats
  <2>3. loads' = {l}
    BY <2>1, <2>2 DEF StatsInv, OverviewSound
  <2> QED
    BY <2>1, <2>2, <2>3 DEF StatsInv, OverviewSound
<1>2. CASE RetryAnalytics
  <2>1. /\ statsPage = "analytics" /\ statsLoading'
        /\ UNCHANGED <<statsPage, range, dataSource, figures, outrun>>
    BY <1>2 DEF RetryAnalytics
  <2>2. PICK l : l.range = range /\ loads' = loads \cup {l}
    BY <1>2, LoadStarted DEF RetryAnalytics
  <2> QED
    BY <2>1, <2>2 DEF StatsInv, AnalyticsSound
<1>3. CASE Inbox
  BY <1>3 DEF Inbox, StatsInv, NotificationsSound
<1>4. ASSUME NEW r \in Ranges, SelectRange(r)
      PROVE  StatsInv'
  <2>1. /\ statsPage = "analytics" /\ statsLoading' /\ range' = r
        /\ UNCHANGED <<statsPage, dataSource, figures>>
        /\ outrun' <=> \E l \in loads : ~l.abortable
    BY <1>4 DEF SelectRange
  <2> DEFINE kept == {l \in loads : ~l.abortable}
  <2>2. PICK l : l.range = r /\ loads' = kept \cup {l}
    BY <1>4, LoadStarted DEF SelectRange
  <2>3. ~outrun' => loads' = {l}
    BY <2>1, <2>2
  <2> QED
    BY <2>1, <2>2, <2>3 DEF StatsInv, AnalyticsSound
<1>5. ASSUME NEW l \in loads, StatsAnswer(l)
      PROVE  StatsInv'
  <2>1. loads' = loads \ {l} /\ UNCHANGED <<statsPage, range, outrun>>
    BY <1>5 DEF StatsAnswer
  <2>2. CASE OverviewAnswer(l)
    BY <2>1, <2>2, StatsAssumption DEF OverviewAnswer, StatsInv, OverviewSound
  <2>3. CASE AnalyticsAnswer(l)
    BY <2>1, <2>3, StatsAssumption DEF AnalyticsAnswer, StatsInv, AnalyticsSound
  <2>4. CASE ContractsAnswer(l)
    BY <2>1, <2>4 DEF ContractsAnswer, StatsInv, ContractsSound, Table, History
  <2>5. CASE InvocationsAnswer(l)
    BY <2>1, <2>5 DEF InvocationsAnswer, StatsInv, ContractsSound, Table, History, Nothing
  <2>6. CASE NotificationsAnswer(l)
    <3>1. statsPage = "notifications" /\ loads' = {} /\ NotificationsSound
          /\ dataSource = "loading" /\ figures = Sample /\ ~noEvents /\ l.range # Sample
      BY <2>1, <2>6, StatsAssumption DEF NotificationsAnswer, StatsInv, NotificationsSound
    <3> QED
      BY <2>1, <2>6, <3>1 DEF NotificationsAnswer, StatsInv, NotificationsSound, inboxVars
  <2> QED
    BY <1>5, <2>2, <2>3, <2>4, <2>5, <2>6 DEF StatsAnswer
<1>6. CASE UNCHANGED statsVars
  BY <1>6 DEF statsVars, StatsInv, OverviewSound, AnalyticsSound, ContractsSound,
              NotificationsSound
<1> QED
  BY <1>1, <1>2, <1>3, <1>4, <1>5, <1>6 DEF StatsNext

LEMMA StatsHolds == StatsInv => StatsFit
<1> SUFFICES ASSUME StatsInv
             PROVE  StatsFit
  OBVIOUS
<1>1. statsPage = "analytics" /\ ~statsLoading /\ ~outrun =>
        chart = range /\ figures = Sample /\ "sample" \in AnalyticsHeader
  BY DEF StatsInv, AnalyticsSound, AnalyticsHeader
<1>2. statsPage = "overview" /\ dataSource # "loading" =>
        (figures = Sample) = (dataSource = "sample")
  BY StatsAssumption DEF StatsInv, OverviewSound
<1>3. statsPage = "contracts" /\ loads = {} => InvocationHistory # "skeleton" /\ ~statsLoading
  BY DEF StatsInv, ContractsSound, InvocationHistory, Nothing, History
<1>4. statsPage = "notifications" /\ dataSource # "loading" =>
        (figures = Sample) = (dataSource = "sample" \/ noEvents)
  BY StatsAssumption DEF StatsInv, NotificationsSound
<1> QED
  BY <1>1, <1>2, <1>3, <1>4 DEF StatsFit

-----------------------------------------------------------------------------
(* The search page: at most one search or page of the last number is under *)
(* way, and without an error the results are as far as the pages go.       *)
(* A page or more of the rows of a query, however many match.              *)
Hits == Seq(Queries \X Int)
Current(r) == r.seq = searchSeq
SearchTypeOK ==
  /\ matching \in [Queries -> 0..MaxMatches]
  /\ query \in Queries \cup {Short} /\ debouncedQuery \in Queries \cup {Short}
  /\ searchSeq \in Nat /\ activeIndex \in Int
  /\ results \in Hits \cup {Absent}
  /\ pagination \in [hasMore : BOOLEAN, nextOffset : Nat] \cup {Absent}
  /\ searches \subseteq [q : Queries, offset : Nat, seq : Nat]

SearchesSound ==
  /\ \A r \in searches : r.seq <= searchSeq
  /\ \A r \in searches : Current(r) =>
       /\ debouncedQuery # Short => r.q = debouncedQuery
       /\ r.offset = 0 => searching
       /\ r.offset > 0 => loadingMore /\ ~searching
  /\ \A r, s \in searches : (Current(r) /\ Current(s)) => r = s

FirstMatches(s, q) ==
  /\ Len(s) <= matching[q]
  /\ \A i \in 1..Len(s) : Ranked(q, s[i][2], i)
SearchAnswered == debouncedQuery # Short /\ ~searching /\ ~searchError
ResultsSound ==
  SearchAnswered =>
    /\ results # Absent /\ pagination # Absent
    /\ \A i \in 1..Len(results) : results[i][1] = debouncedQuery
    /\ ~grew =>
         /\ FirstMatches(results, debouncedQuery)
         /\ pagination.nextOffset = Len(results)
         /\ pagination.hasMore \/ Len(results) = matching[debouncedQuery]
         /\ \A r \in searches : Current(r) => r.offset = Len(results)

ChoiceSound ==
  activeIndex >= -1 /\ (activeIndex = -1 \/ activeIndex < Len(SearchItems))

SearchInv ==
  /\ SearchTypeOK /\ SearchesSound /\ ResultsSound /\ ChoiceSound
  /\ pagination # Absent => (pagination.hasMore => pagination.nextOffset > 0)

-----------------------------------------------------------------------------
(* What the route answers.                                                 *)
LEMMA MatchesAreMany ==
  ASSUME NEW q \in Queries, matching \in [Queries -> 0..MaxMatches]
  PROVE  /\ matching[q] \in Nat /\ Rows(q) = 1..matching[q] /\ Rows(q) \subseteq 1..MaxMatches
         /\ IsFiniteSet(Rows(q)) /\ \A n \in Rows(q) : Stamp[n] \in Int
<1>1. matching[q] \in Nat /\ matching[q] <= MaxMatches /\ MaxMatches \in Nat
  BY SearchAssumption
<1>2. IsFiniteSet(1..matching[q])
  BY <1>1, FS_Interval
<1> QED
  BY <1>1, <1>2, SearchAssumption DEF Rows

(* An order of the route puts every event where its timestamp does.        *)
LEMMA OrdersRank ==
  ASSUME NEW q \in Queries, matching \in [Queries -> 0..MaxMatches],
         NEW o \in Orders(q), NEW i \in Rows(q)
  PROVE  Ranked(q, o[i], i)
<1> DEFINE m == matching[q]
           n == o[i]
<1>1. /\ m \in Nat /\ Rows(q) = 1..m /\ IsFiniteSet(1..m) /\ i \in 1..m
      /\ \A x \in 1..m : Stamp[x] \in Int
  BY MatchesAreMany
<1>2. /\ o \in [1..m -> 1..m] /\ n \in 1..m
      /\ \A j, k \in 1..m : j < k => o[j] # o[k] /\ Stamp[o[j]] >= Stamp[o[k]]
  BY <1>1 DEF Orders
<1> HIDE DEF m, n
<1>3. \A j, k \in 1..m : o[j] = o[k] => j = k
  BY <1>1, <1>2
<1>4. \A x \in 1..m : \E j \in 1..m : o[j] = x
  <2>1. o \in Injection(1..m, 1..m)
    BY <1>2, <1>3 DEF Injection, IsInjective
  <2>2. o \in Surjection(1..m, 1..m)
    BY <1>1, <2>1, FS_Injection
  <2> QED
    BY <2>2 DEF Surjection
<1>5. /\ Newer(q, n) = {x \in 1..m : Stamp[x] > Stamp[n]}
      /\ NotOlder(q, n) = {x \in 1..m : Stamp[x] >= Stamp[n]}
  BY <1>1 DEF Newer, NotOlder
<1>6. Cardinality(Newer(q, n)) < i
  <2> DEFINE S == {j \in 1..(i - 1) : o[j] \in Newer(q, n)}
             f == [j \in S |-> o[j]]
  <2>1. IsFiniteSet(1..(i - 1)) /\ Cardinality(1..(i - 1)) = i - 1
    <3>1. 1 \in Int /\ i \in Int /\ i - 1 \in Int /\ i >= 1
      BY <1>1
    <3>2. i - 1 - 1 + 1 = i - 1 /\ (1 > i - 1 => i - 1 = 0)
      BY <3>1
    <3> QED
      BY <3>1, <3>2, FS_Interval
  <2>2. IsFiniteSet(S) /\ Cardinality(S) <= i - 1 /\ Cardinality(S) \in Nat
    BY <2>1, FS_Subset, FS_CardinalityType
  <2>3. \A x \in Newer(q, n) : \E j \in S : o[j] = x
    <3> SUFFICES ASSUME NEW x \in Newer(q, n)
                 PROVE  \E j \in S : o[j] = x
      OBVIOUS
    <3>1. x \in 1..m /\ Stamp[x] > Stamp[n] /\ Stamp[x] \in Int /\ Stamp[n] \in Int
      BY <1>1, <1>2, <1>5
    <3>2. PICK j \in 1..m : o[j] = x
      BY <1>4, <3>1
    <3>3. ~(i < j) /\ i # j
      <4>1. i < j => Stamp[o[i]] >= Stamp[o[j]]
        BY <1>1, <1>2, <3>2
      <4>2. Stamp[o[j]] > Stamp[o[i]] /\ Stamp[o[j]] \in Int /\ Stamp[o[i]] \in Int
        BY <3>1, <3>2 DEF n
      <4>3. ~(i < j)
        BY <4>1, <4>2
      <4>4. i # j
        BY <4>2
      <4> QED
        BY <4>3, <4>4
    <3>4. j \in 1..(i - 1)
      BY <1>1, <3>3
    <3> QED
      BY <3>2, <3>4
  <2>4. f \in Surjection(S, Newer(q, n))
    BY <2>3 DEF Surjection
  <2>5. Cardinality(Newer(q, n)) <= Cardinality(S) /\ Cardinality(Newer(q, n)) \in Nat
    BY <2>2, <2>4, FS_Surjection, FS_CardinalityType
  <2> QED
    BY <1>1, <2>2, <2>5
<1>7. i <= Cardinality(NotOlder(q, n))
  <2> DEFINE f == [j \in 1..i |-> o[j]]
  <2>1. IsFiniteSet(1..i) /\ Cardinality(1..i) = i
    BY <1>1, FS_Interval
  <2>2. \A j \in 1..i : j \in 1..m /\ o[j] \in NotOlder(q, n)
    <3> SUFFICES ASSUME NEW j \in 1..i
                 PROVE  j \in 1..m /\ o[j] \in NotOlder(q, n)
      OBVIOUS
    <3>1. j \in 1..m /\ (j < i \/ j = i)
      BY <1>1
    <3>2. o[j] \in 1..m /\ Stamp[o[j]] \in Int /\ Stamp[n] \in Int
      BY <1>1, <1>2, <3>1
    <3>3. Stamp[o[j]] >= Stamp[n]
      BY <1>1, <1>2, <3>1, <3>2 DEF n
    <3> QED
      BY <1>5, <3>1, <3>2, <3>3
  <2>3. f \in Injection(1..i, NotOlder(q, n))
    BY <1>3, <2>2 DEF Injection, IsInjective
  <2>4. IsFiniteSet(NotOlder(q, n))
    BY <1>1, <1>5, FS_Subset
  <2> QED
    BY <2>1, <2>3, <2>4, FS_Injection
<1> QED
  BY <1>1, <1>2, <1>6, <1>7 DEF Ranked, n

LEMMA PageCut ==
  ASSUME NEW r \in [q : Queries, offset : Nat, seq : Nat],
         matching \in [Queries -> 0..MaxMatches], NEW o \in Orders(r.q)
  PROVE  /\ PageOf(r, o) \in Hits
         /\ \A i \in 1..Len(PageOf(r, o)) :
              /\ PageOf(r, o)[i][1] = r.q
              /\ Ranked(r.q, PageOf(r, o)[i][2], r.offset + i)
         /\ r.offset + Len(PageOf(r, o)) <= matching[r.q] \/ Len(PageOf(r, o)) = 0
         /\ HasMore(r) => Len(PageOf(r, o)) > 0
         /\ ~HasMore(r) => r.offset + Len(PageOf(r, o)) >= matching[r.q]
<1> DEFINE page == PageOf(r, o)
           all == Matches(r, o)
           m == matching[r.q]
           off == r.offset
           n == IF m - off > 0 THEN m - off ELSE 0
<1>1. /\ off \in Nat /\ m \in Nat /\ PageSize \in Nat \ {0} /\ n \in Nat
      /\ r.q \in Queries /\ Rows(r.q) = 1..m
  BY SearchAssumption, MatchesAreMany
<1>2. all = [i \in 1..n |-> <<r.q, o[off + i]>>]
  <2>1. 1..(m - off) = 1..n
    BY <1>1
  <2> QED
    BY <2>1 DEF Matches
<1>3. HasMore(r) <=> m - off > PageSize
  BY DEF HasMore
<1> HIDE DEF m, off, n, all
<1>4. \A i \in 1..n : off + i \in Rows(r.q)
  BY <1>1 DEF n
<1>5. \A i \in 1..n : o[off + i] \in Int /\ Ranked(r.q, o[off + i], off + i)
  <2> SUFFICES ASSUME NEW i \in 1..n
               PROVE  o[off + i] \in Int /\ Ranked(r.q, o[off + i], off + i)
    OBVIOUS
  <2>1. PICK k \in Rows(r.q) : k = off + i
    BY <1>4
  <2>2. o[k] \in Rows(r.q) /\ Ranked(r.q, o[k], k)
    BY <1>1, <2>1, OrdersRank DEF Orders
  <2> QED
    BY <1>1, <2>1, <2>2
<1>6. all \in Hits /\ Len(all) = n
  <2>1. \A i \in 1..n : <<r.q, o[off + i]>> \in Queries \X Int
    BY <1>1, <1>5
  <2>2. n \in Nat
    BY <1>1
  <2>3. all \in Seq(Queries \X Int)
    BY ONLY <1>2, <2>1, <2>2
  <2>4. Len(all) = n
    BY ONLY <1>2, <2>1, <2>2
  <2> QED
    BY <2>3, <2>4 DEF Hits
<1>7. \A i \in 1..n : all[i][1] = r.q /\ all[i][2] = o[off + i]
  BY <1>2
<1>8. /\ page \in Hits /\ Len(page) \in Nat
      /\ Len(page) <= n
      /\ \A i \in 1..Len(page) : page[i] = all[i]
      /\ HasMore(r) => Len(page) = PageSize
      /\ ~HasMore(r) => Len(page) = n
  <2>1. CASE HasMore(r)
    <3>1. page = SubSeq(all, 1, PageSize) /\ n > PageSize
      BY <1>1, <1>3, <2>1 DEF PageOf, all, n
    <3> HIDE DEF page
    <3>2. \A i \in 1..PageSize : all[i] \in Queries \X Int
      BY <3>1, <1>1, <1>6 DEF Hits
    <3>3. /\ page \in Hits /\ Len(page) = PageSize
          /\ \A i \in 1..PageSize : page[i] = all[i]
      BY <3>1, <3>2, <1>1, SubSeqProperties DEF Hits
    <3> QED
      BY <3>1, <3>3, <1>1, <2>1
  <2>2. CASE ~HasMore(r)
    <3>1. page = all
      BY <2>2 DEF PageOf, all
    <3> HIDE DEF page
    <3> QED
      BY <2>2, <3>1, <1>1, <1>6
  <2> QED
    BY <2>1, <2>2
<1> HIDE DEF page
<1>9. ASSUME NEW i \in 1..Len(page)
      PROVE  page[i][1] = r.q /\ Ranked(r.q, page[i][2], off + i)
  <2>1. i \in 1..n /\ page[i] = all[i]
    BY <1>1, <1>8
  <2> QED
    BY <1>5, <1>7, <2>1
<1>10. /\ off + Len(page) <= m \/ Len(page) = 0
       /\ HasMore(r) => Len(page) > 0
       /\ ~HasMore(r) => off + Len(page) >= m
  BY <1>1, <1>3, <1>8 DEF n
<1> QED
  BY <1>8, <1>9, <1>10 DEF page, m, off

(* The two parts of an answer.                                             *)
LEMMA AnswerParts ==
  ASSUME NEW r, NEW o
  PROVE  /\ SearchAnswer(r, o).events = PageOf(r, o)
         /\ SearchAnswer(r, o).pagination.hasMore = HasMore(r)
         /\ SearchAnswer(r, o).pagination.nextOffset = r.offset + Len(PageOf(r, o))
         /\ r.offset \in Nat /\ Len(PageOf(r, o)) \in Nat =>
              SearchAnswer(r, o).pagination \in [hasMore : BOOLEAN, nextOffset : Nat]
<1>1. HasMore(r) \in BOOLEAN
  BY DEF HasMore
<1> QED
  BY <1>1 DEF SearchAnswer

-----------------------------------------------------------------------------
LEMMA SearchStarts == SearchInit => SearchInv
<1> SUFFICES ASSUME SearchInit
             PROVE  SearchInv
  OBVIOUS
<1>1. SearchTypeOK
  BY SearchAssumption DEF SearchInit, SearchTypeOK
<1>2. SearchesSound /\ ResultsSound /\ ChoiceSound
  BY DEF SearchInit, SearchesSound, ResultsSound, SearchAnswered, ChoiceSound
<1> QED
  BY <1>1, <1>2 DEF SearchInit, SearchInv

(* What the results are is not changed by steps that leave it alone.       *)
LEMMA ShownUnchanged ==
  ASSUME UNCHANGED <<results>>
  PROVE  SearchItems' = SearchItems
BY DEF SearchItems

(* Ranks change only when rows are stored.                                 *)
LEMMA RanksRest ==
  ASSUME UNCHANGED matching, NEW q, NEW n, NEW i
  PROVE  Ranked(q, n, i)' <=> Ranked(q, n, i)
BY DEF Ranked, Newer, NotOlder, Rows

LEMMA SearchStep == SearchInv /\ [SearchNext]_searchVars => SearchInv'
<1> SUFFICES ASSUME SearchInv, [SearchNext]_searchVars
             PROVE  SearchInv'
  OBVIOUS
<1> USE DEF SearchInv
<1>0. /\ Absent \notin Hits /\ Absent \notin [hasMore : BOOLEAN, nextOffset : Nat]
      /\ Short \notin Queries
  BY SearchAssumption DEF Hits
<1>00. matching \in [Queries -> 0..MaxMatches]
  BY DEF SearchTypeOK
<1>1. ASSUME NEW q \in Queries \cup {Short}, TypeQuery(q)
      PROVE  SearchInv'
  BY <1>1 DEF TypeQuery, SearchTypeOK, SearchesSound, Current, ResultsSound, SearchAnswered,
              FirstMatches, Ranked, Newer, NotOlder, Rows, ChoiceSound, SearchItems
<1>2. ASSUME NEW q \in Queries, StoreRow(q)
      PROVE  SearchInv'
  <2>1. matching' \in [Queries -> 0..MaxMatches] /\ grew' /\ UNCHANGED searchPageVars
    <3>1. matching[q] \in 0..MaxMatches /\ matching[q] < MaxMatches
      BY <1>2 DEF StoreRow, SearchTypeOK
    <3>2. matching[q] + 1 \in 0..MaxMatches
      BY <3>1, SearchAssumption
    <3> QED
      BY <1>2, <3>2 DEF StoreRow, SearchTypeOK
  <2> QED
    BY <2>1 DEF searchPageVars, SearchTypeOK, SearchesSound, Current, ResultsSound,
                SearchAnswered, ChoiceSound, SearchItems
<1>3. CASE RestShort
  <2>1. SearchTypeOK'
    BY <1>3 DEF RestShort, SearchTypeOK
  <2>2. SearchesSound'
    BY <1>3 DEF RestShort, SearchesSound, Current
  <2> QED
    BY <1>3, <2>1, <2>2 DEF RestShort, ResultsSound, SearchAnswered, ChoiceSound
<1>4. CASE Search
  <2> DEFINE r == [q |-> query, offset |-> 0, seq |-> searchSeq + 1]
  <2>1. /\ r \in [q : Queries, offset : Nat, seq : Nat]
        /\ r.q = query /\ r.offset = 0 /\ r.seq = searchSeq + 1
    BY <1>4 DEF Search, SearchTypeOK
  <2>2. /\ searches' = searches \cup {r} /\ searchSeq' = searchSeq + 1
        /\ debouncedQuery' = query /\ query \in Queries /\ searching'
        /\ UNCHANGED <<matching, query, results, pagination, activeIndex>>
    BY <1>4 DEF Search, SearchTypeOK
  <2> HIDE DEF r
  <2>3. \A s \in searches : s.seq <= searchSeq /\ s.seq \in Nat
    BY DEF SearchesSound, SearchTypeOK
  <2>4. SearchTypeOK'
    BY <2>1, <2>2 DEF SearchTypeOK
  <2>5. \A s \in searches' : s.seq <= searchSeq' /\ (Current(s)' => s = r)
    BY <2>1, <2>2, <2>3, <2>4 DEF Current, SearchTypeOK
  <2>6. SearchesSound'
    BY <2>1, <2>2, <2>5 DEF SearchesSound, Current
  <2> QED
    BY <2>2, <2>4, <2>6, ShownUnchanged DEF ResultsSound, SearchAnswered, ChoiceSound
<1>5. ASSUME NEW r \in searches, OnAnswer(r)
      PROVE  SearchInv'
  <2>1. /\ r \in [q : Queries, offset : Nat, seq : Nat] /\ r.offset = 0
        /\ searches' = searches \ {r}
        /\ UNCHANGED <<matching, query, debouncedQuery, searchSeq, loadingMore, grew, superseded>>
    BY <1>5 DEF OnAnswer, SearchTypeOK
  <2>2. CASE r.seq # searchSeq
    <3>1. UNCHANGED <<searching, results, pagination, activeIndex, searchError>>
      BY <1>5, <2>2 DEF OnAnswer
    <3> QED
      BY <2>1, <3>1, ShownUnchanged
         DEF SearchTypeOK, SearchesSound, Current, ResultsSound, SearchAnswered,
             FirstMatches, Ranked, Newer, NotOlder, Rows, ChoiceSound
  <2>3. CASE r.seq = searchSeq
    <3>1. searching' = FALSE /\ \A s \in searches' : ~Current(s)'
      BY <1>5, <2>1, <2>3 DEF OnAnswer, SearchesSound, Current
    <3>2. SearchesSound'
      BY <2>1, <3>1 DEF SearchesSound
    <3>3. CASE searchError' = TRUE /\ UNCHANGED <<results, pagination, activeIndex>>
      BY <2>1, <3>2, <3>3, ShownUnchanged
         DEF SearchTypeOK, ResultsSound, SearchAnswered, ChoiceSound
    <3>4. ASSUME NEW o \in Orders(r.q),
                 results' = SearchAnswer(r, o).events, pagination' = SearchAnswer(r, o).pagination,
                 activeIndex' = -1
          PROVE  SearchInv'
      <4>1. /\ results' = PageOf(r, o) /\ pagination'.hasMore = HasMore(r)
            /\ pagination'.nextOffset = Len(PageOf(r, o)) /\ Len(PageOf(r, o)) \in Nat
            /\ pagination' \in [hasMore : BOOLEAN, nextOffset : Nat]
            /\ results' \in Hits
        <5>1. PageOf(r, o) \in Hits /\ Len(PageOf(r, o)) \in Nat
          BY <1>00, <2>1, PageCut, LenProperties DEF Hits
        <5>2. r.offset \in Nat /\ r.offset + Len(PageOf(r, o)) = Len(PageOf(r, o))
          BY <2>1, <5>1
        <5> QED
          BY <3>4, <5>1, <5>2, AnswerParts
      <4>2. SearchTypeOK'
        BY <2>1, <3>4, <4>1 DEF SearchTypeOK
      <4>3. ASSUME debouncedQuery # Short
            PROVE  /\ \A i \in 1..Len(results') : results'[i][1] = debouncedQuery
                   /\ FirstMatches(results, debouncedQuery)'
                   /\ pagination'.hasMore \/ Len(results') = matching[debouncedQuery]
        <5>1. r.q = debouncedQuery /\ matching[r.q] \in Nat /\ matching' = matching
          BY <2>1, <2>3, <4>3, SearchAssumption DEF SearchesSound, SearchTypeOK, Current
        <5>2. \A i \in 1..Len(results') : results'[i][1] = r.q /\ Ranked(r.q, results'[i][2], i)
          <6>1. \A i \in 1..Len(results') : r.offset + i = i
            BY <2>1
          <6> QED
            BY <4>1, <2>1, <6>1, PageCut DEF SearchTypeOK
        <5>3. /\ Len(results') <= matching[r.q]
              /\ ~HasMore(r) => Len(results') = matching[r.q]
          BY <4>1, <5>1, <2>1, PageCut DEF SearchTypeOK
        <5> QED
          BY <2>1, <4>1, <5>1, <5>2, <5>3, RanksRest DEF FirstMatches
      <4>4. ResultsSound'
        BY <1>0, <2>1, <3>1, <4>1, <4>3 DEF ResultsSound, SearchAnswered
      <4>5. pagination'.hasMore => pagination'.nextOffset > 0
        BY <4>1, <2>1, PageCut DEF SearchTypeOK
      <4> QED
        BY <3>2, <3>4, <4>2, <4>4, <4>5 DEF ChoiceSound
    <3> QED
      BY <1>5, <2>3, <3>3, <3>4 DEF OnAnswer
  <2> QED
    BY <2>2, <2>3
<1>6. CASE LoadMore
  <2> DEFINE r == [q |-> debouncedQuery, offset |-> pagination.nextOffset, seq |-> searchSeq]
  <2>1. /\ pagination # Absent /\ ~searching /\ pagination.hasMore /\ ~loadingMore
        /\ debouncedQuery # Short
    BY <1>6 DEF LoadMore, SearchView
  <2>2. pagination.nextOffset \in Nat /\ pagination.nextOffset > 0
    BY <2>1 DEF SearchTypeOK
  <2>3. /\ r \in [q : Queries, offset : Nat, seq : Nat]
        /\ r.q = debouncedQuery /\ r.offset = pagination.nextOffset /\ r.seq = searchSeq
    BY <2>1, <2>2 DEF SearchTypeOK
  <2>4. /\ searches' = searches \cup {r} /\ loadingMore'
        /\ UNCHANGED <<matching, query, debouncedQuery, searchSeq, results, pagination, searching,
                       searchError, activeIndex, grew>>
    BY <1>6 DEF LoadMore
  <2> HIDE DEF r
  <2>5. \A s \in searches : ~Current(s)
    BY <2>1 DEF SearchesSound, SearchTypeOK
  <2>6. SearchTypeOK'
    BY <2>3, <2>4 DEF SearchTypeOK
  <2>7. SearchesSound'
    BY <2>1, <2>2, <2>3, <2>4, <2>5 DEF SearchesSound, Current, SearchTypeOK
  <2>8. ResultsSound'
    BY <2>3, <2>4, <2>5 DEF ResultsSound, SearchAnswered, FirstMatches, Current,
        Ranked, Newer, NotOlder, Rows
  <2> QED
    BY <2>4, <2>6, <2>7, <2>8, ShownUnchanged DEF ChoiceSound
<1>7. ASSUME NEW r \in searches, OnMore(r)
      PROVE  SearchInv'
  <2>1. /\ r \in [q : Queries, offset : Nat, seq : Nat] /\ r.offset > 0
        /\ searches' = searches \ {r}
        /\ UNCHANGED <<matching, query, debouncedQuery, searchSeq, searching, searchError,
                       activeIndex, grew>>
    BY <1>7 DEF OnMore, SearchTypeOK
  <2>2. CASE r.seq # searchSeq
    <3>1. UNCHANGED <<results, pagination, loadingMore>>
      BY <1>7, <2>2 DEF OnMore
    <3> QED
      BY <2>1, <3>1, ShownUnchanged
         DEF SearchTypeOK, SearchesSound, Current, ResultsSound, SearchAnswered,
             FirstMatches, Ranked, Newer, NotOlder, Rows, ChoiceSound
  <2>3. CASE r.seq = searchSeq
    <3>1. \A s \in searches' : ~Current(s)'
      BY <2>1, <2>3 DEF SearchesSound, Current
    <3>2. SearchesSound'
      BY <2>1, <3>1 DEF SearchesSound
    <3>3. CASE UNCHANGED <<results, pagination>>
      BY <2>1, <3>1, <3>2, <3>3, ShownUnchanged
         DEF SearchTypeOK, ResultsSound, SearchAnswered, FirstMatches, ChoiceSound,
             Ranked, Newer, NotOlder, Rows
    <3>4. ASSUME NEW o \in Orders(r.q),
                 results' = IF results = Absent THEN Absent ELSE results \o SearchAnswer(r, o).events,
                 pagination' = SearchAnswer(r, o).pagination
          PROVE  SearchInv'
      <4> DEFINE page == PageOf(r, o)
      <4>1. /\ pagination'.hasMore = HasMore(r)
            /\ pagination'.nextOffset = r.offset + Len(page)
            /\ pagination' \in [hasMore : BOOLEAN, nextOffset : Nat]
            /\ page \in Hits /\ Len(page) \in Nat
            /\ results' = IF results = Absent THEN Absent ELSE results \o page
        <5>1. page \in Hits /\ Len(page) \in Nat /\ r.offset \in Nat
          BY <1>00, <2>1, PageCut, LenProperties DEF Hits
        <5>2. results' = IF results = Absent THEN Absent ELSE results \o page
          BY <3>4, AnswerParts
        <5> QED
          BY <3>4, <5>1, <5>2, AnswerParts
      <4>2. /\ \A i \in 1..Len(page) : page[i][1] = r.q /\ Ranked(r.q, page[i][2], r.offset + i)
            /\ r.offset + Len(page) <= matching[r.q] \/ Len(page) = 0
            /\ HasMore(r) => Len(page) > 0
            /\ ~HasMore(r) => r.offset + Len(page) >= matching[r.q]
            /\ matching[r.q] \in Nat
        <5>1. matching[r.q] \in Nat
          BY <1>00, <2>1, SearchAssumption
        <5> QED
          BY <1>00, <2>1, <5>1, PageCut
      <4> HIDE DEF page
      <4>3. ASSUME results # Absent
            PROVE  /\ results' \in Hits /\ results \in Hits
                   /\ Len(results') = Len(results) + Len(page)
                   /\ Len(results) \in Nat
                   /\ \A i \in 1..Len(results) + Len(page) :
                        results'[i] = IF i <= Len(results) THEN results[i] ELSE page[i - Len(results)]
        <5>1. results \in Hits /\ results' = results \o page
          BY <4>1, <4>3 DEF SearchTypeOK
        <5> QED
          BY <4>1, <5>1, ConcatProperties, LenProperties DEF Hits
      <4>4. SearchTypeOK'
        BY <2>1, <4>1, <4>3 DEF SearchTypeOK
      <4>5. ChoiceSound'
        <5>1. CASE results = Absent
          BY <2>1, <4>1, <5>1, ShownUnchanged DEF ChoiceSound
        <5>2. CASE results # Absent
          <6>1. /\ SearchItems = results /\ SearchItems' = results'
                /\ Len(results') >= Len(results) /\ Len(results) \in Nat /\ Len(results') \in Nat
            <7>1. results' # Absent
              BY <1>0, <4>3, <5>2
            <7>2. SearchItems = results /\ SearchItems' = results'
              BY <5>2, <7>1 DEF SearchItems
            <7> QED
              BY <4>1, <4>3, <5>2, <7>2
          <6>2. activeIndex \in Int /\ activeIndex' = activeIndex
            BY <2>1 DEF SearchTypeOK
          <6> QED
            BY <6>1, <6>2 DEF ChoiceSound
        <5> QED
          BY <5>1, <5>2
      <4>6. pagination'.hasMore => pagination'.nextOffset > 0
        BY <2>1, <4>1
      <4>7. ASSUME SearchAnswered'
            PROVE  /\ results' # Absent /\ pagination' # Absent
                   /\ \A i \in 1..Len(results') : results'[i][1] = debouncedQuery
        <5>1. /\ results # Absent /\ r.q = debouncedQuery
              /\ \A i \in 1..Len(results) : results[i][1] = debouncedQuery
          BY <2>1, <2>3, <4>7 DEF SearchAnswered, ResultsSound, SearchesSound, Current
        <5>2. \A i \in 1..Len(page) : page[i][1] = debouncedQuery
          BY <4>2, <5>1
        <5>3. ASSUME NEW i \in 1..Len(results')
              PROVE  results'[i][1] = debouncedQuery
          BY <4>1, <4>3, <5>1, <5>2, <5>3
        <5> QED
          BY <1>0, <4>1, <4>3, <5>1, <5>3
      <4>8. ASSUME SearchAnswered', ~grew'
            PROVE  /\ FirstMatches(results, debouncedQuery)'
                   /\ pagination'.nextOffset = Len(results')
                   /\ pagination'.hasMore \/ Len(results') = matching[debouncedQuery]
        <5>1. /\ results # Absent /\ r.q = debouncedQuery /\ r.offset = Len(results)
              /\ FirstMatches(results, debouncedQuery)
          BY <2>1, <2>3, <4>8 DEF SearchAnswered, ResultsSound, SearchesSound, Current
        <5>2. Len(results') = r.offset + Len(page) /\ Len(results) <= matching[r.q]
          BY <4>3, <5>1 DEF FirstMatches
        <5>3. ASSUME NEW i \in 1..Len(results')
              PROVE  Ranked(r.q, results'[i][2], i)
          <6>1. CASE i <= Len(results)
            BY <4>1, <4>3, <5>1, <5>2, <6>1 DEF FirstMatches
          <6>2. CASE i > Len(results)
            <7>1. i - Len(results) \in 1..Len(page) /\ results'[i] = page[i - Len(results)]
              BY <4>1, <4>3, <5>1, <5>2, <6>2
            <7>2. r.offset + (i - Len(results)) = i
              BY <4>3, <5>1
            <7> QED
              BY <4>2, <7>1, <7>2
          <6> QED
            BY <4>3, <6>1, <6>2, <4>1
        <5>4. /\ Len(results') <= matching[r.q]
              /\ ~HasMore(r) => Len(results') = matching[r.q]
          BY <4>1, <4>2, <4>3, <5>1, <5>2
        <5> QED
          BY <2>1, <4>1, <5>1, <5>2, <5>3, <5>4, RanksRest DEF FirstMatches
      <4>9. ResultsSound'
        BY <2>1, <3>1, <4>7, <4>8 DEF ResultsSound
      <4> QED
        BY <3>2, <4>4, <4>5, <4>6, <4>9
    <3> QED
      BY <1>7, <2>3, <3>3, <3>4 DEF OnMore
  <2> QED
    BY <2>2, <2>3
<1>8. CASE HandleKeyDown
  <2>1. /\ SearchItems # <<>>
        /\ UNCHANGED <<matching, query, debouncedQuery, searchSeq, results, pagination, searching,
                       loadingMore, searchError, searches, grew>>
        /\ activeIndex' \in {(activeIndex + 1) % Len(SearchItems),
                             IF activeIndex <= 0 THEN Len(SearchItems) - 1 ELSE activeIndex - 1, -1}
    BY <1>8 DEF HandleKeyDown
  <2>2. Len(SearchItems) \in Nat \ {0}
    BY <2>1, EmptySeq, LenProperties DEF SearchItems, SearchTypeOK, Hits
  <2>3. activeIndex' \in Int /\ activeIndex' >= -1 /\ activeIndex' < Len(SearchItems)
    BY <2>1, <2>2 DEF ChoiceSound, SearchTypeOK
  <2>4. ChoiceSound'
    BY <2>1, <2>3, ShownUnchanged DEF ChoiceSound
  <2> QED
    BY <2>1, <2>3, <2>4 DEF SearchTypeOK, SearchesSound, Current, ResultsSound, SearchAnswered,
                            FirstMatches, Ranked, Newer, NotOlder, Rows
<1>9. CASE UNCHANGED searchVars
  BY <1>9 DEF searchVars, searchPageVars, SearchTypeOK, SearchesSound, Current, ResultsSound,
              SearchAnswered, FirstMatches, Ranked, Newer, NotOlder, Rows, ChoiceSound, SearchItems
<1> QED
  BY <1>1, <1>2, <1>3, <1>4, <1>5, <1>6, <1>7, <1>8, <1>9 DEF SearchNext, SearchAnswers

LEMMA SearchHolds == SearchInv => SearchFits
<1> SUFFICES ASSUME SearchInv
             PROVE  SearchFits
  OBVIOUS
<1>1. ASSUME SearchView # {}, query = debouncedQuery, ~searching, ~searchError
      PROVE  /\ \A i \in 1..Len(SearchItems) : SearchItems[i][1] = query
             /\ grew \/ \A i \in 1..Len(SearchItems) : Ranked(query, SearchItems[i][2], i)
             /\ grew \/ pagination.hasMore \/ Len(SearchItems) = matching[query]
  <2>1. SearchAnswered /\ query \in Queries
    BY <1>1 DEF SearchView, SearchAnswered, SearchInv, SearchTypeOK
  <2> QED
    BY <1>1, <2>1 DEF SearchInv, ResultsSound, SearchTypeOK, SearchItems, FirstMatches
<1> QED
  BY <1>1 DEF SearchInv, ChoiceSound, SearchFits

-----------------------------------------------------------------------------
(* The windowed rows                                                       *)
ViewportInv ==
  /\ itemCount \in Nat /\ scrollTop \in Nat /\ viewportHeight \in Nat
  /\ position \in Nat /\ height \in Nat

LEMMA ListStarts == ListInit => ViewportInv
BY ListAssumption DEF ListInit, ViewportInv

LEMMA HeightTyped == \A n \in Nat : TotalHeight(n) \in Nat
<1> SUFFICES ASSUME NEW n \in Nat
             PROVE  TotalHeight(n) \in Nat
  OBVIOUS
<1>1. RowHeight \in Nat /\ RowGap \in Nat
  BY ListAssumption
<1>2. CASE n = 0
  BY <1>2 DEF TotalHeight
<1>3. CASE n # 0
  <2>1. n - 1 \in Nat
    BY <1>3
  <2>2. n * RowHeight \in Nat /\ (n - 1) * RowGap \in Nat
    BY <1>1, <2>1
  <2> QED
    BY <1>3, <2>2 DEF TotalHeight
<1> QED
  BY <1>2, <1>3

LEMMA ListStep == ViewportInv /\ [ListNext]_listVars => ViewportInv'
<1> SUFFICES ASSUME ViewportInv, [ListNext]_listVars
             PROVE  ViewportInv'
  OBVIOUS
<1> USE DEF ViewportInv
<1>1. \A n \in Nat : Furthest(n) \in Nat
  BY HeightTyped DEF Furthest, MaxOf
<1>2. CASE RowsChange
  <2>1. itemCount' \in Nat /\ position' = MinOf(position, Furthest(itemCount'))
        /\ UNCHANGED <<scrollTop, viewportHeight, height>>
    BY <1>2, ListAssumption DEF RowsChange
  <2>2. Furthest(itemCount') \in Nat
    BY <1>1, <2>1
  <2> QED
    BY <2>1, <2>2 DEF MinOf
<1>3. CASE Scroll
  BY <1>1, <1>3 DEF Scroll
<1>4. CASE OnScroll \/ UpdateHeight \/ UNCHANGED listVars
  BY <1>4 DEF OnScroll, UpdateHeight, listVars
<1> QED
  BY <1>2, <1>3, <1>4 DEF ListNext

LEMMA StrideDivides ==
  ASSUME NEW a \in Nat
  PROVE  /\ Stride \in Nat \ {0} /\ a \div Stride \in Nat
         /\ (a \div Stride) * Stride <= a
         /\ a < (a \div Stride) * Stride + Stride
<1>1. Stride \in Nat \ {0}
  BY ListAssumption DEF Stride
<1> HIDE DEF Stride
<1>2. \A d \in Nat \ {0} : a \div d \in Nat /\ (a \div d) * d <= a /\ a < (a \div d) * d + d
  BY SMT
<1> QED
  BY <1>1, <1>2

LEMMA WindowBounds ==
  ASSUME ViewportInv
  PROVE  /\ FirstVisible \in Nat /\ VisibleCount \in Nat \ {0}
         /\ Viewport \in Nat /\ Viewport <= (VisibleCount - 1) * Stride
<1>1. scrollTop \in Nat /\ Viewport \in Nat /\ Viewport >= MinViewport /\ Stride \in Nat \ {0}
  BY ListAssumption DEF ViewportInv, Viewport, MaxOf, Stride
<1>2. FirstVisible \in Nat
  BY <1>1, StrideDivides DEF FirstVisible
<1> DEFINE reach == Viewport + Stride - 1
<1>3. reach \in Nat /\ VisibleCount = reach \div Stride + 1
  BY <1>1 DEF VisibleCount
<1> HIDE DEF reach
<1>4. reach \div Stride \in Nat /\ reach < (reach \div Stride) * Stride + Stride
  BY <1>3, StrideDivides
<1>5. VisibleCount - 1 = reach \div Stride
  BY <1>3, <1>4
<1>6. (VisibleCount - 1) * Stride \in Nat
  BY <1>1, <1>4, <1>5
<1>7. Viewport <= (VisibleCount - 1) * Stride
  BY <1>1, <1>4, <1>5, <1>6 DEF reach
<1> QED
  BY <1>1, <1>2, <1>3, <1>4, <1>7

(* What is rendered: rows of the list, from the first to the last.         *)
LEMMA IndexBounds ==
  ASSUME ViewportInv, itemCount > 0
  PROVE  /\ StartIndex \in Nat /\ EndIndex \in Nat /\ StartIndex <= EndIndex
         /\ EndIndex <= itemCount - 1
         /\ StartIndex <= FirstVisible
         /\ EndIndex = itemCount - 1 \/ EndIndex >= FirstVisible + VisibleCount
         /\ EndIndex - StartIndex + 1 >= MinOf(itemCount, VisibleCount)
<1>1. /\ itemCount \in Nat \ {0} /\ Overscan \in Nat
      /\ FirstVisible \in Nat /\ VisibleCount \in Nat \ {0}
  BY WindowBounds, ListAssumption DEF ViewportInv
<1>2. EndIndex = MinOf(itemCount - 1, FirstVisible + VisibleCount + Overscan)
  BY <1>1 DEF EndIndex
<1>3. /\ EndIndex \in Nat /\ EndIndex <= itemCount - 1
      /\ EndIndex = itemCount - 1 \/ EndIndex >= FirstVisible + VisibleCount
      /\ EndIndex + 1 >= MinOf(itemCount, VisibleCount)
  BY <1>1, <1>2 DEF MinOf
<1>4. StartIndex = MaxOf(0, MinOf(FirstVisible - Overscan, EndIndex - VisibleCount - Overscan))
  BY <1>1 DEF StartIndex
<1>5. /\ StartIndex \in Nat /\ StartIndex <= FirstVisible
      /\ StartIndex = 0 \/ StartIndex <= EndIndex - VisibleCount - Overscan
  BY <1>1, <1>3, <1>4 DEF MinOf, MaxOf
<1>6. EndIndex - StartIndex + 1 >= MinOf(itemCount, VisibleCount)
  BY <1>1, <1>3, <1>5 DEF MinOf
<1> QED
  BY <1>1, <1>3, <1>5, <1>6

LEMMA Spacers ==
  ASSUME NEW n \in Nat, NEW s \in Nat, NEW e \in Nat, s <= e, e <= n - 1
  PROVE  /\ TotalHeight(e - s + 1) = (e - s + 1) * RowHeight + (e - s) * RowGap
         /\ s * Stride + TotalHeight(e - s + 1) = (e + 1) * RowHeight + e * RowGap
         /\ TotalHeight(n) >= (e + 1) * RowHeight + e * RowGap
<1>1. RowHeight \in Nat /\ RowGap \in Nat
  BY ListAssumption
<1>2. e - s + 1 # 0 /\ e - s + 1 - 1 = e - s /\ n # 0
  OBVIOUS
<1>3. TotalHeight(e - s + 1) = (e - s + 1) * RowHeight + (e - s) * RowGap
  BY <1>2 DEF TotalHeight
<1>4. s * (RowHeight + RowGap) + ((e - s + 1) * RowHeight + (e - s) * RowGap)
        = (e + 1) * RowHeight + e * RowGap
  BY <1>1
<1>5. n * RowHeight >= (e + 1) * RowHeight /\ (n - 1) * RowGap >= e * RowGap
  <2>1. \A a, b, h \in Nat : a >= b => a * h >= b * h
    BY SMT
  <2> QED
    BY <1>1, <2>1
<1>6. TotalHeight(n) >= (e + 1) * RowHeight + e * RowGap
  <2>1. /\ n * RowHeight \in Nat /\ (e + 1) * RowHeight \in Nat
        /\ (n - 1) * RowGap \in Nat /\ e * RowGap \in Nat
    BY <1>1
  <2> QED
    BY <1>2, <1>5, <2>1 DEF TotalHeight
<1> QED
  BY <1>3, <1>4, <1>6 DEF Stride

(* A row that is seen lies between the first visible one and the last.     *)
LEMMA SeenBetween ==
  ASSUME ViewportInv, scrollTop = position, viewportHeight = height,
         NEW row \in Nat,
         row * Stride < position + height, row * Stride + RowHeight > position
  PROVE  FirstVisible <= row /\ row < FirstVisible + VisibleCount
<1>1. /\ FirstVisible \in Nat /\ VisibleCount \in Nat \ {0}
      /\ Viewport <= (VisibleCount - 1) * Stride /\ height <= Viewport
      /\ Stride \in Nat \ {0} /\ RowHeight \in Nat /\ RowHeight <= Stride
      /\ height \in Nat /\ Viewport \in Nat
  BY WindowBounds, ListAssumption DEF ViewportInv, Viewport, MaxOf, Stride
<1>2. /\ position \in Nat /\ FirstVisible * Stride <= position
      /\ position < FirstVisible * Stride + Stride
  BY StrideDivides DEF ViewportInv, FirstVisible
<1>3. \A a, b, h \in Nat : a <= b => a * h <= b * h
  BY SMT
<1>4. ASSUME row < FirstVisible
      PROVE  FALSE
  <2>1. (row + 1) * Stride <= FirstVisible * Stride
    BY <1>1, <1>3, <1>4
  <2>2. (row + 1) * Stride = row * Stride + Stride
    BY <1>1
  <2>3. row * Stride \in Nat /\ FirstVisible * Stride \in Nat
    BY <1>1
  <2> QED
    BY <1>1, <1>2, <2>1, <2>2, <2>3
<1>5. ASSUME row >= FirstVisible + VisibleCount
      PROVE  FALSE
  <2>1. (FirstVisible + VisibleCount) * Stride <= row * Stride
    BY <1>1, <1>3, <1>5
  <2>2. (FirstVisible + VisibleCount) * Stride
          = FirstVisible * Stride + Stride + (VisibleCount - 1) * Stride
    BY <1>1
  <2>3. row * Stride \in Nat /\ FirstVisible * Stride \in Nat
        /\ (VisibleCount - 1) * Stride \in Nat
    BY <1>1
  <2> QED
    BY <1>1, <1>2, <2>1, <2>2, <2>3
<1> QED
  BY <1>1, <1>4, <1>5

LEMMA RowsHold == ViewportInv => RowsRendered
<1> SUFFICES ASSUME ViewportInv
             PROVE  RowsRendered
  OBVIOUS
<1>1. CASE itemCount = 0
  BY <1>1 DEF RowsRendered, StartIndex, EndIndex
<1>2. CASE itemCount > 0
  <2>1. /\ StartIndex \in Nat /\ EndIndex \in Nat /\ StartIndex <= EndIndex
        /\ EndIndex <= itemCount - 1 /\ itemCount \in Nat
        /\ EndIndex - StartIndex + 1 >= MinOf(itemCount, VisibleCount)
    BY <1>2, IndexBounds DEF ViewportInv
  <2>2. /\ StartIndex * Stride + TotalHeight(EndIndex - StartIndex + 1)
             = (EndIndex + 1) * RowHeight + EndIndex * RowGap
        /\ TotalHeight(itemCount) >= (EndIndex + 1) * RowHeight + EndIndex * RowGap
    BY <2>1, Spacers
  <2>3. StartOffset + TotalHeight(EndIndex - StartIndex + 1) + EndOffset = TotalHeight(itemCount)
    <3>1. /\ (EndIndex + 1) * RowHeight + EndIndex * RowGap \in Nat
          /\ TotalHeight(itemCount) \in Nat
      BY <2>1, HeightTyped, ListAssumption
    <3>2. EndOffset = TotalHeight(itemCount) - ((EndIndex + 1) * RowHeight + EndIndex * RowGap)
      BY <1>2, <2>2, <3>1 DEF EndOffset, MaxOf
    <3> QED
      BY <2>2, <3>1, <3>2 DEF StartOffset
  <2>4. ASSUME scrollTop = position, viewportHeight = height, NEW row \in 0..(itemCount - 1),
               row * Stride < position + height, row * Stride + RowHeight > position
        PROVE  row \in StartIndex..EndIndex
    <3>1. row \in Nat /\ FirstVisible <= row /\ row < FirstVisible + VisibleCount
      BY <2>1, <2>4, SeenBetween
    <3> QED
      BY <1>2, <2>1, <3>1, IndexBounds, WindowBounds
  <2>5. (StartIndex .. EndIndex) \subseteq 0..(itemCount - 1)
    BY <2>1
  <2> QED
    BY <2>1, <2>3, <2>4, <2>5 DEF RowsRendered
<1> QED
  BY <1>1, <1>2 DEF ViewportInv

-----------------------------------------------------------------------------
(* The feed: the server counts its connections, and a socket that stopped *)
(* has given up or was refused.                                            *)
(* The server and the socket: the limiter counts the open connections, and *)
(* who stopped has given up or was refused.                                *)
Opened == {c \in Conns : conn[c] = "open"}
Refused == \E c \in Conns : conn[c] = "refused"

ServerInv ==
  /\ conn \in [Conns -> {"new", "open", "refused", "closed"}]
  /\ current = Cardinality(Opened) /\ current <= MaxConnections
  /\ published \in Nat /\ since \in Nat
  /\ socket \in Conns \cup {None} /\ attempts \in 0..MaxAttempts
  /\ socket # None => conn[socket] # "new"
  /\ Disconnect \in Range(wire) => Refused
  /\ link = "stopped" =>
       /\ ~isConnected /\ socket = None
       /\ attempts = MaxAttempts \/ Refused

LEMMA OpenedFinite ==
  /\ IsFiniteSet(Opened) /\ Cardinality(Opened) \in Nat
  /\ IsFiniteSet(Opened') /\ Cardinality(Opened') \in Nat
<1>1. IsFiniteSet(Conns) /\ Opened \subseteq Conns /\ Opened' \subseteq Conns
  BY SocketAssumption DEF Opened
<1>2. IsFiniteSet(Opened) /\ IsFiniteSet(Opened')
  BY <1>1, FS_Subset
<1> QED
  BY <1>2, FS_CardinalityType

(* What a connection that is accepted, refused or closed changes.          *)
ServerMoved ==
  /\ conn' \in [Conns -> {"new", "open", "refused", "closed"}]
  /\ current' = Cardinality(Opened)' /\ current' <= MaxConnections
  /\ Refused => Refused'
  /\ \A c \in Conns : conn[c] # "new" =>
       conn'[c] # "new" /\ (conn'[c] = "open" => conn[c] = "open")

LEMMA AcceptMoves ==
  ASSUME ServerInv, NEW c \in Conns, conn[c] = "new", Accept(c)
  PROVE  ServerMoved /\ (~CanConnect => Refused')
<1> USE DEF ServerInv
<1>1. CASE CanConnect
  <2>1. conn' = [conn EXCEPT ![c] = "open"] /\ current' = current + 1 /\ current < MaxConnections
    BY <1>1 DEF Accept, CanConnect
  <2>2. conn' \in [Conns -> {"new", "open", "refused", "closed"}]
    BY <2>1
  <2>3. Opened' = Opened \cup {c} /\ c \notin Opened
    BY <2>1 DEF Opened
  <2>4. Cardinality(Opened)' = Cardinality(Opened) + 1
    BY <2>3, OpenedFinite, FS_AddElement
  <2>5. Refused => Refused'
    BY <2>1 DEF Refused
  <2>6. current' <= MaxConnections
    BY <2>1, OpenedFinite, SocketAssumption
  <2>7. \A d \in Conns : conn[d] # "new" => conn'[d] = conn[d]
    BY <2>1
  <2> QED
    BY <1>1, <2>1, <2>2, <2>4, <2>5, <2>6, <2>7 DEF ServerMoved
<1>2. CASE ~CanConnect
  <2>1. conn' = [conn EXCEPT ![c] = "refused"] /\ current' = current
    BY <1>2 DEF Accept
  <2>2. conn' \in [Conns -> {"new", "open", "refused", "closed"}] /\ conn'[c] = "refused"
    BY <2>1
  <2>3. Opened' = Opened
    BY <2>1 DEF Opened
  <2>4. Refused'
    BY <2>2 DEF Refused
  <2>5. \A d \in Conns : conn[d] # "new" => conn'[d] = conn[d]
    BY <2>1
  <2> QED
    BY <2>1, <2>2, <2>3, <2>4, <2>5 DEF ServerMoved
<1> QED
  BY <1>1, <1>2

LEMMA ClosedMoves ==
  ASSUME ServerInv, NEW c \in Conns, Closed(c)
  PROVE  ServerMoved
<1> USE DEF ServerInv
<1>1. conn[c] = "open" /\ conn' = [conn EXCEPT ![c] = "closed"]
  BY DEF Closed
<1>2. conn' \in [Conns -> {"new", "open", "refused", "closed"}]
  BY <1>1
<1>3. Opened' = Opened \ {c} /\ c \in Opened
  BY <1>1 DEF Opened
<1>4. Cardinality(Opened)' = Cardinality(Opened) - 1
  BY <1>3, OpenedFinite, FS_RemoveElement
<1>5. current' = current - 1
  BY <1>4, OpenedFinite DEF Closed
<1>6. current' <= MaxConnections
  BY <1>5, OpenedFinite, SocketAssumption
<1>7. Refused => Refused'
  BY <1>1 DEF Refused
<1>8. \A d \in Conns : conn'[d] = IF d = c THEN "closed" ELSE conn[d]
  BY <1>1
<1> QED
  BY <1>2, <1>4, <1>5, <1>6, <1>7, <1>8 DEF ServerMoved

LEMMA ConnRests == ServerInv /\ UNCHANGED <<conn, current>> => ServerMoved
BY DEF ServerInv, ServerMoved, Opened, Refused

LEMMA NewSocketMoves ==
  ASSUME ServerInv, NewSocket
  PROVE  ServerMoved
<1>1. CASE socket # None /\ conn[socket] = "open"
  <2>1. socket \in Conns /\ Closed(socket)
    BY <1>1 DEF NewSocket, ServerInv
  <2> QED
    BY <2>1, ClosedMoves
<1>2. CASE ~(socket # None /\ conn[socket] = "open")
  BY <1>2, ConnRests DEF NewSocket
<1> QED
  BY <1>1, <1>2

(* What is left of the wire was on it.                                     *)
LEMMA TailOnWire ==
  ASSUME NEW s \in Seq(Int), s # <<>>
  PROVE  /\ Tail(s) \in Seq(Int) /\ Len(Tail(s)) = Len(s) - 1
         /\ \A i \in 1..Len(Tail(s)) : Tail(s)[i] = s[i + 1] /\ i + 1 \in 1..Len(s)
         /\ Range(s) = {Head(s)} \cup Range(Tail(s))
         /\ Head(s) \in Int /\ Head(s) = s[1] /\ Len(s) >= 1
<1>1. /\ Tail(s) \in Seq(Int) /\ Len(Tail(s)) = Len(s) - 1
      /\ \A i \in 1..Len(Tail(s)) : Tail(s)[i] = s[i + 1]
      /\ Head(s) = s[1] /\ Head(s) \in Int /\ Len(s) \in Nat /\ Len(s) >= 1
  BY HeadTailProperties, LenProperties, EmptySeq
<1>2. DOMAIN s = 1..Len(s) /\ DOMAIN Tail(s) = 1..(Len(s) - 1)
  BY <1>1, LenProperties
<1>3. Range(Tail(s)) \subseteq Range(s) /\ Head(s) \in Range(s)
  BY <1>1, <1>2 DEF Range
<1>4. ASSUME NEW x \in Range(s), x # Head(s)
      PROVE  x \in Range(Tail(s))
  <2>1. PICK i \in 1..Len(s) : x = s[i]
    BY <1>2 DEF Range
  <2>2. i # 1 /\ i - 1 \in 1..(Len(s) - 1) /\ (i - 1) + 1 = i
    BY <1>1, <1>4, <2>1
  <2>3. Tail(s)[i - 1] = x
    BY <1>1, <2>1, <2>2
  <2> QED
    BY <1>2, <2>2, <2>3 DEF Range
<1> QED
  BY <1>1, <1>3, <1>4

LEMMA AppendOnWire ==
  ASSUME NEW s \in Seq(Int), NEW x \in Int
  PROVE  /\ Append(s, x) \in Seq(Int) /\ Len(Append(s, x)) = Len(s) + 1
         /\ \A i \in 1..Len(s) : Append(s, x)[i] = s[i]
         /\ Append(s, x)[Len(s) + 1] = x
         /\ Range(Append(s, x)) = Range(s) \cup {x}
<1>1. /\ Append(s, x) \in Seq(Int) /\ Len(Append(s, x)) = Len(s) + 1 /\ Len(s) \in Nat
      /\ \A i \in 1..Len(s) : Append(s, x)[i] = s[i]
      /\ Append(s, x)[Len(s) + 1] = x
  BY AppendProperties, LenProperties
<1>2. DOMAIN s = 1..Len(s) /\ DOMAIN Append(s, x) = 1..(Len(s) + 1)
  BY <1>1, LenProperties
<1>3. Range(Append(s, x)) = Range(s) \cup {x}
  <2>1. \A i \in 1..(Len(s) + 1) : i \in 1..Len(s) \/ i = Len(s) + 1
    BY <1>1
  <2>2. \A i \in 1..Len(s) : i \in 1..(Len(s) + 1)
    BY <1>1
  <2>3. Len(s) + 1 \in 1..(Len(s) + 1)
    BY <1>1
  <2> QED
    BY <1>1, <1>2, <2>1, <2>2, <2>3 DEF Range
<1> QED
  BY <1>1, <1>3

LEMMA EmptyWire == <<>> \in Seq(Int) /\ Len(<<>>) = 0 /\ Range(<<>>) = {}
BY DEF Range

LEMMA DialledWire ==
  /\ <<Connect>> \in Seq(Int) /\ Len(<<Connect>>) = 1
  /\ Range(<<Connect>>) = {0} /\ <<Connect>>[1] = 0
  /\ <<Connect, Disconnect>> \in Seq(Int) /\ Len(<<Connect, Disconnect>>) = 2
  /\ Range(<<Connect, Disconnect>>) = {0, -1}
  /\ <<Connect, Disconnect>>[1] = 0 /\ <<Connect, Disconnect>>[2] = -1
BY DEF Range, Connect, Disconnect

LEMMA ServerMoves ==
  ASSUME ServerInv, ServerMoved, published' \in Nat, since' \in Nat,
         socket' \in Conns \cup {None}, attempts' \in 0..MaxAttempts,
         socket' = None \/ socket' = socket \/ conn'[socket'] # "new",
         Disconnect \in Range(wire') => Refused',
         link' = "stopped" => /\ ~isConnected' /\ socket' = None
                              /\ attempts' = MaxAttempts \/ Refused'
  PROVE  ServerInv'
BY DEF ServerInv, ServerMoved

LEMMA HookServerStep ==
  ASSUME ServerInv, wire \in Seq(Int), SocketNext
  PROVE  ServerInv'
<1> USE DEF ServerInv
<1>0. Refused /\ UNCHANGED conn => Refused'
  BY DEF Refused
<1>1. ASSUME NEW c \in Conns, OtherConnects(c)
      PROVE  ServerInv'
  <2>1. ServerMoved /\ UNCHANGED <<published, hookVars>>
    BY <1>1, AcceptMoves DEF OtherConnects
  <2> QED
    BY <2>1, ServerMoves DEF hookVars, ServerMoved
<1>2. ASSUME NEW c \in Conns, OtherCloses(c)
      PROVE  ServerInv'
  <2>1. ServerMoved /\ UNCHANGED <<published, hookVars>>
    BY <1>2, ClosedMoves DEF OtherCloses
  <2> QED
    BY <2>1, ServerMoves DEF hookVars, ServerMoved
<1>3. ASSUME NEW c \in Conns, Dial(c)
      PROVE  ServerInv'
  <2>1. ServerMoved /\ (~CanConnect => Refused')
    BY <1>3, AcceptMoves DEF Dial
  <2>2. Disconnect \in Range(wire') => Refused'
    <3>1. CASE CanConnect
      <4>1. Range(wire') = {0}
        BY <1>3, <3>1, DialledWire DEF Dial
      <4> QED
        BY <4>1 DEF Disconnect
    <3> QED
      BY <2>1, <3>1
  <2>3. link' # "stopped" /\ UNCHANGED <<published, attempts>> /\ socket' = c /\ since' = published
    BY <1>3 DEF Dial
  <2>4. conn'[c] # "new"
    BY <1>3 DEF Dial, Accept
  <2> QED
    BY <2>1, <2>2, <2>3, <2>4, ServerMoves
<1>4. CASE Publish
  <2>1. published' = published + 1 /\ UNCHANGED <<conn, current, socket, link, attempts, isConnected, since>>
    BY <1>4 DEF Publish
  <2>2. Disconnect \in Range(wire') => Refused
    <3>1. Range(Append(wire, published + 1)) = Range(wire) \cup {published + 1}
      BY AppendOnWire
    <3>2. published + 1 # Disconnect
      BY DEF Disconnect
    <3> QED
      BY <1>4, <3>1, <3>2 DEF Publish
  <2> QED
    BY <1>0, <2>1, <2>2, ConnRests, ServerMoves
<1>5. CASE ConnectError
  <2>1. UNCHANGED <<conn, current, published, socket, wire, since>> /\ socket = None /\ ~isConnected'
    BY <1>5 DEF ConnectError, serverVars
  <2>2. attempts' \in 0..MaxAttempts /\ (link' = "stopped" => attempts' = MaxAttempts)
    BY <1>5, SocketAssumption DEF ConnectError
  <2> QED
    BY <1>0, <2>1, <2>2, ConnRests, ServerMoves
<1>6. ASSUME NEW packet, Received(packet)
      PROVE  Disconnect \in Range(wire') => Disconnect \in Range(wire)
  BY <1>6, TailOnWire DEF Received
<1>7. CASE OnConnect
  <2>1. /\ UNCHANGED <<conn, current, published, socket, since>>
        /\ attempts' = 0 /\ link' = "up" /\ Received(Connect)
    BY <1>7 DEF OnConnect, serverVars
  <2>2. attempts' \in 0..MaxAttempts
    BY <2>1, SocketAssumption
  <2>3. Disconnect \in Range(wire') => Refused
    BY <1>6, <2>1
  <2> QED
    BY <1>0, <2>1, <2>2, <2>3, ConnRests, ServerMoves
<1>8. CASE OnRefused
  <2>1. /\ UNCHANGED <<conn, current, published, since, attempts>>
        /\ socket' = None /\ ~isConnected' /\ Received(Disconnect)
    BY <1>8 DEF OnRefused, serverVars
  <2>2. Refused
    BY <2>1, TailOnWire DEF Received
  <2> QED
    BY <1>0, <2>1, <2>2, ConnRests, ServerMoves
<1>9. CASE OnBreak
  <2>1. /\ UNCHANGED <<conn, current, published, since>>
        /\ socket' = None /\ link' # "stopped" /\ attempts' = 1 /\ wire' = <<>>
    BY <1>9 DEF OnBreak, serverVars
  <2>2. attempts' \in 0..MaxAttempts
    BY <2>1, SocketAssumption
  <2>3. Disconnect \notin Range(wire')
    BY <2>1, EmptyWire
  <2> QED
    BY <2>1, <2>2, <2>3, ConnRests, ServerMoves
<1>10. CASE PingTimeout
  <2>1. ServerMoved /\ UNCHANGED <<published, hookVars>>
    BY <1>10, ClosedMoves DEF PingTimeout
  <2> QED
    BY <2>1, ServerMoves DEF hookVars, ServerMoved
<1>11. CASE OnEvent
  <2>1. UNCHANGED <<conn, current, published, socket, link, attempts, isConnected, since>>
    BY <1>11 DEF OnEvent, serverVars
  <2>2. Disconnect \in Range(wire') => Refused
    BY <1>6, <1>11 DEF OnEvent
  <2> QED
    BY <1>0, <2>1, <2>2, ConnRests, ServerMoves
<1> QED
  BY <1>1, <1>2, <1>3, <1>4, <1>5, <1>7, <1>8, <1>9, <1>10, <1>11 DEF SocketNext

LEMMA ServerStep ==
  ASSUME ServerInv, wire \in Seq(Int), [FeedNext]_feedVars
  PROVE  ServerInv'
<1>1. CASE Hook
  BY <1>1, HookServerStep DEF Hook
<1>2. CASE Retry \/ Reopen
  <2>1. NewSocket /\ since' = since
    BY <1>2 DEF Retry, Reopen
  <2>2. /\ published' = published /\ socket' = None /\ wire' = <<>> /\ link' # "stopped"
        /\ attempts' = 0
    BY <2>1 DEF NewSocket
  <2>3. attempts' \in 0..MaxAttempts /\ Disconnect \notin Range(wire')
    BY <2>2, EmptyWire, SocketAssumption
  <2> QED
    BY <2>1, <2>2, <2>3, NewSocketMoves, ServerMoves DEF ServerInv
<1>3. ASSUME UNCHANGED <<conn, current, published, since, socket, attempts, wire, link, isConnected>>
      PROVE  ServerInv'
  BY <1>3 DEF ServerInv, Opened, Refused
<1>4. CASE Render
  BY <1>3, <1>4 DEF Render, serverVars
<1>5. CASE Simulate \/ ToggleSimulation \/ RefreshTimes \/ Announce
  BY <1>3, <1>5 DEF Simulate, ToggleSimulation, RefreshTimes, Announce, socketVars, serverVars, hookVars
<1>6. CASE TogglePause \/ ClearFeed \/ DismissBanner \/ UNCHANGED feedVars
  BY <1>3, <1>6 DEF TogglePause, ClearFeed, DismissBanner, feedVars, socketVars, serverVars, hookVars
<1> QED
  BY <1>1, <1>2, <1>4, <1>5, <1>6 DEF FeedNext

LEMMA ServerStarts == FeedInit => ServerInv
<1> SUFFICES ASSUME FeedInit PROVE ServerInv
  OBVIOUS
<1> USE DEF FeedInit, SocketInit
<1>1. Opened = {} /\ Cardinality({}) = 0
  BY FS_EmptySet DEF Opened
<1>2. Disconnect \notin Range(wire)
  BY EmptyWire
<1> QED
  BY <1>1, <1>2, SocketAssumption DEF ServerInv

-----------------------------------------------------------------------------
(* The lists of the feed, and what is under way to it.                     *)
(* What is shown and what is stored: nothing that was not published, the   *)
(* newest first.                                                           *)
KeptList(s) ==
  /\ s \in Seq(Nat)
  /\ \A i \in 1..Len(s) : s[i] <= published
  /\ \A i, j \in 1..Len(s) : (i < j /\ s[i] # 0 /\ s[j] # 0) => s[i] > s[j]

ListsInv ==
  /\ KeptList(events) /\ KeptList(storage) /\ Len(events) <= MaxBuffer
  /\ lastRendered \in 0..published /\ clearedTo \in 0..lastRendered

WireInv ==
  /\ wire \in Seq(Int)
  /\ \A i \in 1..Len(wire) : wire[i] <= published
  /\ \A i, j \in 1..Len(wire) : (i < j /\ wire[i] > 0 /\ wire[j] > 0) => wire[i] < wire[j]
  /\ lastEvent # None =>
       /\ lastEvent \in 1..published
       /\ \A i \in 1..Len(wire) : wire[i] > 0 => lastEvent < wire[i]

(* What is under way is newer than what was rendered.                      *)
AheadInv ==
  /\ \A k \in 1..Len(events) : events[k] <= lastRendered
  /\ \A k \in 1..Len(storage) : storage[k] <= lastRendered
  /\ lastEvent # None => lastRendered < lastEvent
  /\ \A i \in 1..Len(wire) : wire[i] > 0 => lastRendered < wire[i]

Cut(e) == Len(events) = MaxBuffer /\ \A i \in 1..MaxBuffer : events[i] = 0 \/ events[i] > e
Rendered(e) == e \in Range(events) \cup overwritten \/ e <= clearedTo \/ (Cut(e) /\ e <= lastRendered)
Passed(e) ==
  /\ \A i \in 1..Len(wire) : wire[i] > 0 => e < wire[i]
  /\ lastEvent = e \/ (Rendered(e) /\ (lastEvent # None => e < lastEvent))

(* Nothing published over a connection is missing: it is under way, or     *)
(* everything under way is newer.                                          *)
LossInv ==
  (socket # None /\ conn[socket] = "open") =>
    \A e \in (since + 1)..published : e \in Range(wire) \/ Passed(e)

FlowInv == WireInv /\ ListsInv /\ AheadInv /\ LossInv

LEMMA NewestIs ==
  ASSUME NEW s \in Seq(Nat), NEW n \in Nat
  PROVE  /\ Newest(s, n) \in Seq(Nat)
         /\ Len(Newest(s, n)) = (IF Len(s) < n THEN Len(s) ELSE n)
         /\ \A i \in 1..Len(Newest(s, n)) : Newest(s, n)[i] = s[i] /\ i \in 1..Len(s)
<1> DEFINE m == IF Len(s) < n THEN Len(s) ELSE n
<1>1. m \in Nat /\ m <= Len(s) /\ Len(s) \in Nat
  OBVIOUS
<1>2. Newest(s, n) = SubSeq(s, 1, m)
  BY DEF Newest
<1> HIDE DEF m
<1>3. /\ SubSeq(s, 1, m) \in Seq(Nat)
      /\ Len(SubSeq(s, 1, m)) = m
      /\ \A i \in 1..m : SubSeq(s, 1, m)[i] = s[i]
  <2>1. \A i \in 1..m : s[i] \in Nat
    BY <1>1
  <2> QED
    BY <1>1, <2>1, SubSeqProperties
<1> QED
  BY <1>1, <1>2, <1>3 DEF m

LEMMA NewestKept ==
  ASSUME NEW s, KeptList(s), NEW n \in Nat
  PROVE  KeptList(Newest(s, n)) /\ Len(Newest(s, n)) <= n
<1>1. s \in Seq(Nat)
  BY DEF KeptList
<1> DEFINE r == Newest(s, n)
<1>2. /\ r \in Seq(Nat) /\ Len(r) = (IF Len(s) < n THEN Len(s) ELSE n)
      /\ \A i \in 1..Len(r) : r[i] = s[i] /\ i \in 1..Len(s)
  BY <1>1, NewestIs
<1> HIDE DEF r
<1>3. Len(r) <= n
  BY <1>1, <1>2
<1>4. KeptList(r)
  BY <1>2 DEF KeptList
<1> QED
  BY <1>3, <1>4 DEF r

(* A list with one more in front, cut.                                     *)
LEMMA PrependIs ==
  ASSUME NEW s \in Seq(Nat), NEW x \in Nat, NEW n \in Nat \ {0}, Len(s) <= n
  PROVE  \E r : /\ r = Newest(<<x>> \o s, n) /\ r \in Seq(Nat)
                /\ Len(r) = (IF Len(s) < n THEN Len(s) + 1 ELSE n)
                /\ r[1] = x
                /\ \A i \in 2..Len(r) : r[i] = s[i - 1] /\ i - 1 \in 1..Len(s)
<1> DEFINE t == <<x>> \o s
           r == Newest(t, n)
<1>1. /\ t \in Seq(Nat) /\ Len(t) = Len(s) + 1 /\ Len(s) \in Nat
      /\ t[1] = x /\ \A i \in 2..Len(t) : t[i] = s[i - 1] /\ i - 1 \in 1..Len(s)
  <2>1. <<x>> \in Seq(Nat) /\ Len(<<x>>) = 1 /\ <<x>>[1] = x
    OBVIOUS
  <2>2. t \in Seq(Nat) /\ Len(t) = 1 + Len(s) /\ Len(s) \in Nat
    BY <2>1, ConcatProperties
  <2>3. \A i \in 1..Len(t) : t[i] = IF i <= 1 THEN <<x>>[i] ELSE s[i - 1]
    BY <2>1, ConcatProperties
  <2> HIDE DEF t
  <2> QED
    BY <2>1, <2>2, <2>3
<1> HIDE DEF t
<1>2. /\ r \in Seq(Nat) /\ Len(r) = (IF Len(t) < n THEN Len(t) ELSE n)
      /\ \A i \in 1..Len(r) : r[i] = t[i] /\ i \in 1..Len(t)
  BY <1>1, NewestIs
<1> HIDE DEF r
<1>3. Len(r) = (IF Len(s) < n THEN Len(s) + 1 ELSE n) /\ Len(r) >= 1
  BY <1>1, <1>2
<1>4. r[1] = x
  BY <1>1, <1>2, <1>3
<1>5. \A i \in 2..Len(r) : r[i] = s[i - 1] /\ i - 1 \in 1..Len(s)
  BY <1>1, <1>2
<1>6. r = Newest(<<x>> \o s, n)
  BY DEF r, t
<1> QED
  BY <1>2, <1>3, <1>4, <1>5, <1>6

LEMMA RangeIndexed ==
  ASSUME NEW V, NEW s \in Seq(V)
  PROVE  \A e : e \in Range(s) <=> \E i \in 1..Len(s) : s[i] = e
<1>1. DOMAIN s = 1..Len(s)
  BY LenProperties
<1> QED
  BY <1>1 DEF Range

(* prependEvent: what was shown is still shown, or cut with all that is    *)
(* shown newer.                                                            *)
LEMMA PrependKeeps ==
  ASSUME ListsInv, published \in Nat, NEW x \in 0..published, UNCHANGED published,
         x = 0 \/ \A k \in 1..Len(events) : events[k] < x,
         events' = Newest(<<x>> \o events, MaxBuffer)
  PROVE  /\ KeptList(events)' /\ Len(events') <= MaxBuffer
         /\ \A k \in 1..Len(events') : events'[k] = x \/ \E i \in 1..Len(events) : events'[k] = events[i]
         /\ x \in Range(events') /\ events' # <<>>
         /\ \A e \in Nat \ {0} :
              (x = 0 \/ x > e) /\ (e \in Range(events) \/ Cut(e)) => e \in Range(events') \/ Cut(e)'
<1>1. events \in Seq(Nat) /\ Len(events) \in Nat /\ Len(events) <= MaxBuffer /\ MaxBuffer \in Nat \ {0}
  BY FeedAssumption DEF ListsInv, KeptList
<1>2. x \in Nat
  OBVIOUS
<1>3. PICK r : /\ r = Newest(<<x>> \o events, MaxBuffer) /\ r \in Seq(Nat)
               /\ Len(r) = (IF Len(events) < MaxBuffer THEN Len(events) + 1 ELSE MaxBuffer)
               /\ r[1] = x
               /\ \A i \in 2..Len(r) : r[i] = events[i - 1] /\ i - 1 \in 1..Len(events)
  BY <1>1, <1>2, PrependIs
<1>4. events' = r
  BY <1>3
<1>5. Len(r) \in Nat /\ Len(r) >= 1 /\ Len(r) <= MaxBuffer
  BY <1>1, <1>3
<1>6. \A i \in 1..Len(r) : i = 1 \/ i \in 2..Len(r)
  BY <1>5
<1>7. \A k \in 1..Len(r) : r[k] = x \/ \E i \in 1..Len(events) : r[k] = events[i]
  BY <1>3, <1>6
<1>8. \A i \in 1..Len(events) : events[i] <= published /\ events[i] \in Nat
  BY <1>1 DEF ListsInv, KeptList
<1>9. \A k \in 1..Len(r) : r[k] <= published
  BY <1>7, <1>8
<1>10. ASSUME NEW i \in 1..Len(r), NEW j \in 1..Len(r), i < j, r[i] # 0, r[j] # 0
       PROVE  r[i] > r[j]
  <2>1. j \in 2..Len(r) /\ r[j] = events[j - 1] /\ j - 1 \in 1..Len(events)
    BY <1>3, <1>5, <1>10
  <2>2. CASE i = 1
    BY <1>3, <1>8, <1>10, <2>1, <2>2
  <2>3. CASE i \in 2..Len(r)
    <3>1. r[i] = events[i - 1] /\ i - 1 \in 1..Len(events) /\ i - 1 < j - 1
      <4>1. r[i] = events[i - 1] /\ i - 1 \in 1..Len(events)
        BY <1>3, <2>3
      <4>2. i - 1 < j - 1
        BY <1>5, <1>10
      <4> QED
        BY <4>1, <4>2
    <3>2. events[i - 1] # 0 /\ events[j - 1] # 0
      BY <1>10, <2>1, <3>1
    <3> QED
      BY <2>1, <3>1, <3>2 DEF ListsInv, KeptList
  <2> QED
    BY <1>6, <2>2, <2>3
<1>11. KeptList(events)'
  BY <1>3, <1>4, <1>9, <1>10 DEF KeptList
<1>12. \A e : e \in Range(events') <=> \E i \in 1..Len(r) : r[i] = e
  BY <1>3, <1>4, RangeIndexed
<1>13. x \in Range(events') /\ events' # <<>>
  BY <1>3, <1>4, <1>5, <1>12
<1>14. ASSUME NEW e \in Nat \ {0}, x = 0 \/ x > e, e \in Range(events) \/ Cut(e)
       PROVE  e \in Range(events') \/ Cut(e)'
  <2>1. CASE e \in Range(events)
    <3>1. PICK i \in 1..Len(events) : events[i] = e
      BY <1>1, <2>1, RangeIndexed
    <3>2. CASE i + 1 <= Len(r)
      <4>1. i + 1 \in 2..Len(r) /\ (i + 1) - 1 = i /\ i + 1 \in 1..Len(r)
        BY <1>5, <3>2
      <4>2. r[i + 1] = e
        BY <1>3, <3>1, <4>1
      <4> QED
        BY <1>12, <4>1, <4>2
    <3>3. CASE i + 1 > Len(r)
      <4>1. i = MaxBuffer /\ Len(events) = MaxBuffer /\ Len(r) = MaxBuffer
        BY <1>1, <1>3, <3>3
      <4>2. ASSUME NEW k \in 1..MaxBuffer
            PROVE  r[k] = 0 \/ r[k] > e
        <5>1. CASE k = 1
          BY <1>3, <1>14, <5>1
        <5>2. CASE k \in 2..Len(r)
          <6>1. r[k] = events[k - 1] /\ k - 1 \in 1..Len(events) /\ k - 1 < i
            BY <1>3, <4>1, <5>2
          <6> QED
            BY <1>14, <3>1, <6>1 DEF ListsInv, KeptList
        <5> QED
          BY <1>6, <4>1, <5>1, <5>2
      <4> QED
        BY <1>4, <4>1, <4>2 DEF Cut
    <3> QED
      BY <1>5, <3>2, <3>3
  <2>2. CASE Cut(e)
    <3>1. Len(events) = MaxBuffer /\ Len(r) = MaxBuffer
      BY <1>1, <1>3, <2>2 DEF Cut
    <3>2. ASSUME NEW k \in 1..MaxBuffer
          PROVE  r[k] = 0 \/ r[k] > e
      <4>1. CASE k = 1
        BY <1>3, <1>14, <4>1
      <4>2. CASE k \in 2..Len(r)
        <5>1. r[k] = events[k - 1] /\ k - 1 \in 1..MaxBuffer
          BY <1>3, <3>1, <4>2
        <5> QED
          BY <2>2, <5>1 DEF Cut
      <4> QED
        BY <1>6, <3>1, <4>1, <4>2
    <3> QED
      BY <1>4, <3>1, <3>2 DEF Cut
  <2> QED
    BY <1>14, <2>1, <2>2
<1> QED
  BY <1>4, <1>5, <1>7, <1>11, <1>13, <1>14

LEMMA ListsRest ==
  ASSUME ListsInv, published \in Nat, published' \in Nat, published <= published',
         UNCHANGED <<events, storage, lastRendered, clearedTo>>
  PROVE  ListsInv'
<1>1. \A i \in 1..Len(events) : events[i] \in Nat /\ events[i] <= published'
  BY DEF ListsInv, KeptList
<1>2. \A i \in 1..Len(storage) : storage[i] \in Nat /\ storage[i] <= published'
  BY DEF ListsInv, KeptList
<1>3. lastRendered' \in 0..published' /\ clearedTo' \in 0..lastRendered'
  BY DEF ListsInv
<1> QED
  BY <1>1, <1>2, <1>3 DEF ListsInv, KeptList

LEMMA WireShrinks ==
  ASSUME WireInv, AheadInv, wire # <<>>, wire' = Tail(wire),
         UNCHANGED <<published, lastEvent, lastRendered, events, storage>>
  PROVE  WireInv' /\ AheadInv'
<1> DEFINE w == Tail(wire)
<1>1. /\ w \in Seq(Int) /\ Len(w) = Len(wire) - 1 /\ Len(wire) \in Nat
      /\ \A i \in 1..Len(w) : w[i] = wire[i + 1] /\ i + 1 \in 1..Len(wire)
  BY TailOnWire DEF WireInv
<1> HIDE DEF w
<1>2. wire' = w
  BY DEF w
<1>3. \A i, j \in 1..Len(w) : (i < j /\ w[i] > 0 /\ w[j] > 0) => w[i] < w[j]
  <2>1. SUFFICES ASSUME NEW i \in 1..Len(w), NEW j \in 1..Len(w), i < j, w[i] > 0, w[j] > 0
           PROVE  w[i] < w[j]
    OBVIOUS
  <2>2. i + 1 \in 1..Len(wire) /\ j + 1 \in 1..Len(wire) /\ i + 1 < j + 1
    BY <1>1, <2>1
  <2>3. w[i] = wire[i + 1] /\ w[j] = wire[j + 1]
    BY <1>1, <2>1
  <2>4. \A a, b \in 1..Len(wire) : (a < b /\ wire[a] > 0 /\ wire[b] > 0) => wire[a] < wire[b]
    BY DEF WireInv
  <2> QED
    BY <2>1, <2>2, <2>3, <2>4
<1>4. (\A i \in 1..Len(w) : w[i] <= published)
      /\ (lastEvent # None => \A i \in 1..Len(w) : w[i] > 0 => lastEvent < w[i])
  BY <1>1 DEF WireInv
<1>5. WireInv'
  BY <1>1, <1>2, <1>3, <1>4 DEF WireInv
<1>6. AheadInv'
  BY <1>1, <1>2 DEF AheadInv
<1> QED
  BY <1>5, <1>6

LEMMA WireIdle ==
  ASSUME WireInv, AheadInv, published \in Nat, wire' \in Seq(Int), \A i \in 1..Len(wire') : wire'[i] <= 0,
         UNCHANGED <<published, lastEvent, lastRendered, events, storage>>
  PROVE  WireInv' /\ AheadInv'
<1>1. \A i \in 1..Len(wire') : wire'[i] \in Int /\ ~(wire'[i] > 0) /\ wire'[i] <= published
  OBVIOUS
<1>2. WireInv'
  BY <1>1 DEF WireInv
<1>3. AheadInv'
  BY <1>1 DEF AheadInv
<1> QED
  BY <1>2, <1>3

LEMMA LossRests ==
  ASSUME LossInv, ServerInv, ServerMoved,
         UNCHANGED <<published, wire, lastEvent, lastRendered, overwritten, since, events, clearedTo>>,
         socket' = socket \/ socket' = None
  PROVE  LossInv'
<1>1. SUFFICES ASSUME socket' # None /\ conn'[socket'] = "open"
               PROVE  LossInv'
  BY DEF LossInv
<1>2. socket' = socket /\ socket \in Conns /\ conn[socket] = "open"
  BY <1>1 DEF ServerInv, ServerMoved
<1>3. \A e : Passed(e) => Passed(e)'
  BY DEF Passed, Rendered, Cut
<1> QED
  BY <1>2, <1>3 DEF LossInv

LEMMA HookFlowStep ==
  ASSUME ServerInv, FlowInv, SocketNext, UNCHANGED <<events, storage, lastRendered, clearedTo>>
  PROVE  FlowInv'
<1>0. /\ WireInv /\ ListsInv /\ AheadInv /\ LossInv
      /\ published \in Nat /\ since \in Nat /\ wire \in Seq(Int)
  BY DEF FlowInv, ServerInv, WireInv
<1>1. published' = published => ListsInv'
  BY <1>0, ListsRest
<1>2. ASSUME UNCHANGED <<published, wire, lastEvent, overwritten, since>>,
             socket' = socket \/ socket' = None, ServerMoved
      PROVE  FlowInv'
  <2>1. WireInv' /\ AheadInv'
    BY <1>0, <1>2 DEF WireInv, AheadInv
  <2> QED
    BY <1>0, <1>1, <1>2, <2>1, LossRests DEF FlowInv
<1>3. ASSUME NEW c \in Conns, OtherConnects(c) \/ OtherCloses(c)
      PROVE  FlowInv'
  BY <1>2, <1>3, AcceptMoves, ClosedMoves DEF OtherConnects, OtherCloses, hookVars
<1>4. CASE PingTimeout
  BY <1>2, <1>4, ClosedMoves DEF PingTimeout, hookVars, ServerInv
<1>5. CASE ConnectError
  <2>1. UNCHANGED <<conn, current, published, wire, lastEvent, overwritten, since, socket>>
    BY <1>5 DEF ConnectError, serverVars
  <2> QED
    BY <1>2, <2>1, ConnRests
<1>6. ASSUME NEW c \in Conns, Dial(c)
      PROVE  FlowInv'
  <2>1. wire' = <<Connect>> \/ wire' = <<Connect, Disconnect>>
    BY <1>6 DEF Dial
  <2>2. wire' \in Seq(Int) /\ \A i \in 1..Len(wire') : wire'[i] <= 0
    <3>1. CASE wire' = <<Connect>>
      BY <3>1, DialledWire
    <3>2. CASE wire' = <<Connect, Disconnect>>
      BY <3>2, DialledWire
    <3> QED
      BY <2>1, <3>1, <3>2
  <2>3. UNCHANGED <<published, lastEvent>> /\ since' = published
    BY <1>6 DEF Dial
  <2>4. (since' + 1)..published' = {}
    BY <1>0, <2>3
  <2>5. LossInv'
    BY <2>4 DEF LossInv
  <2> QED
    BY <1>0, <1>1, <2>2, <2>3, <2>5, WireIdle DEF FlowInv
<1>7. CASE Publish
  <2>1. /\ published' = published + 1
        /\ wire' = IF socket # None /\ conn[socket] = "open" THEN Append(wire, published + 1) ELSE wire
        /\ UNCHANGED <<conn, socket, lastEvent, overwritten, since>>
    BY <1>7 DEF Publish
  <2>2. ListsInv'
    BY <1>0, <2>1, ListsRest
  <2>3. CASE socket # None /\ conn[socket] = "open"
    <3> DEFINE w == Append(wire, published + 1)
    <3>1. /\ w \in Seq(Int) /\ Len(w) = Len(wire) + 1 /\ Len(wire) \in Nat
          /\ \A i \in 1..Len(wire) : w[i] = wire[i]
          /\ w[Len(wire) + 1] = published + 1
          /\ Range(w) = Range(wire) \cup {published + 1}
      BY <1>0, AppendOnWire
    <3> HIDE DEF w
    <3>2. wire' = w
      BY <2>1, <2>3 DEF w
    <3>3. \A i \in 1..Len(w) : i \in 1..Len(wire) \/ (i = Len(wire) + 1 /\ w[i] = published + 1)
      BY <3>1
    <3>4. \A i \in 1..Len(wire) : wire[i] \in Int /\ wire[i] <= published
      BY <1>0 DEF WireInv
    <3>5. \A i, j \in 1..Len(w) : (i < j /\ w[i] > 0 /\ w[j] > 0) => w[i] < w[j]
      <4>1. SUFFICES ASSUME NEW i \in 1..Len(w), NEW j \in 1..Len(w), i < j, w[i] > 0, w[j] > 0
                     PROVE  w[i] < w[j]
        OBVIOUS
      <4>2. i \in 1..Len(wire)
        BY <3>1, <4>1
      <4>3. CASE j \in 1..Len(wire)
        BY <1>0, <3>1, <4>1, <4>2, <4>3 DEF WireInv
      <4>4. CASE w[j] = published + 1
        BY <1>0, <3>1, <3>4, <4>2, <4>4
      <4> QED
        BY <3>3, <4>3, <4>4
    <3>6. \A i \in 1..Len(w) : w[i] <= published + 1
      <4>1. SUFFICES ASSUME NEW i \in 1..Len(w)
                     PROVE  w[i] <= published + 1
        OBVIOUS
      <4>2. CASE i \in 1..Len(wire)
        <5>1. w[i] = wire[i] /\ wire[i] \in Int /\ wire[i] <= published
          BY <3>1, <3>4, <4>2
        <5> QED
          BY <1>0, <5>1
      <4>3. CASE w[i] = published + 1
        BY <1>0, <4>3
      <4> QED
        BY <3>3, <4>2, <4>3
    <3>7. lastEvent # None => /\ lastEvent \in 1..(published + 1)
                              /\ \A i \in 1..Len(w) : w[i] > 0 => lastEvent < w[i]
      BY <1>0, <3>1, <3>3 DEF WireInv
    <3>8. WireInv'
      BY <2>1, <3>1, <3>2, <3>5, <3>6, <3>7 DEF WireInv
    <3>9. lastRendered \in 0..published
      BY <1>0 DEF ListsInv
    <3>10. AheadInv'
      <4>1. ASSUME NEW i \in 1..Len(w), w[i] > 0
            PROVE  lastRendered < w[i]
        <5>1. CASE i \in 1..Len(wire)
          BY <1>0, <3>1, <4>1, <5>1 DEF AheadInv
        <5>2. CASE w[i] = published + 1
          BY <1>0, <3>9, <5>2
        <5> QED
          BY <3>3, <5>1, <5>2
      <4> QED
        BY <1>0, <2>1, <3>2, <4>1 DEF AheadInv
    <3>11. ASSUME NEW e \in (since + 1)..(published + 1)
           PROVE  e \in Range(w) \/ Passed(e)'
      <4>1. CASE e = published + 1
        BY <3>1, <4>1
      <4>2. CASE e \in (since + 1)..published
        <5>1. e \in Range(wire) \/ Passed(e)
          BY <1>0, <2>3, <4>2 DEF LossInv
        <5>2. CASE Passed(e)
          <6>1. \A i \in 1..Len(w) : w[i] > 0 => e < w[i]
            <7>1. \A i \in 1..Len(wire) : wire[i] > 0 => e < wire[i]
              BY <5>2 DEF Passed
            <7>2. e < published + 1
              BY <1>0, <4>2
            <7> QED
              BY <3>1, <3>3, <7>1, <7>2
          <6>2. Rendered(e) => Rendered(e)'
            BY <2>1 DEF Rendered, Cut
          <6> QED
            BY <2>1, <3>2, <5>2, <6>1, <6>2 DEF Passed
        <5> QED
          BY <3>1, <5>1, <5>2
      <4> QED
        BY <1>0, <4>1, <4>2
    <3>12. LossInv'
      BY <2>1, <3>2, <3>11 DEF LossInv
    <3> QED
      BY <2>2, <3>8, <3>10, <3>12 DEF FlowInv
  <2>4. CASE ~(socket # None /\ conn[socket] = "open")
    <3>1. wire' = wire
      BY <2>1, <2>4
    <3>2. WireInv'
      <4>1. \A i \in 1..Len(wire) : wire[i] \in Int /\ wire[i] <= published + 1
        BY <1>0 DEF WireInv
      <4>2. lastEvent # None => lastEvent \in 1..(published + 1)
        BY <1>0 DEF WireInv
      <4> QED
        BY <1>0, <2>1, <3>1, <4>1, <4>2 DEF WireInv
    <3>3. AheadInv' /\ LossInv'
      BY <1>0, <2>1, <2>4, <3>1 DEF AheadInv, LossInv
    <3> QED
      BY <2>2, <3>2, <3>3 DEF FlowInv
  <2> QED
    BY <2>3, <2>4
<1>8. CASE OnConnect
  <2>1. /\ wire # <<>> /\ Head(wire) = 0 /\ wire' = Tail(wire)
        /\ UNCHANGED <<conn, published, socket, lastEvent, overwritten, since>>
    BY <1>8 DEF OnConnect, Received, serverVars, Connect
  <2>2. WireInv' /\ AheadInv'
    BY <1>0, <2>1, WireShrinks
  <2>3. ASSUME socket # None /\ conn[socket] = "open", NEW e \in (since + 1)..published
        PROVE  e \in Range(wire') \/ Passed(e)'
    <3>1. e # 0
      BY <1>0
    <3>2. e \in Range(wire) => e \in Range(wire')
      BY <1>0, <2>1, <3>1, TailOnWire
    <3>3. Passed(e) => Passed(e)'
      <4>1. \A i \in 1..Len(wire') : wire'[i] = wire[i + 1] /\ i + 1 \in 1..Len(wire)
        BY <1>0, <2>1, TailOnWire
      <4>2. Rendered(e) => Rendered(e)'
        BY <2>1 DEF Rendered, Cut
      <4> QED
        BY <2>1, <4>1, <4>2 DEF Passed
    <3> QED
      BY <1>0, <2>3, <3>2, <3>3 DEF LossInv
  <2>4. LossInv'
    BY <2>1, <2>3 DEF LossInv
  <2> QED
    BY <1>1, <2>1, <2>2, <2>4 DEF FlowInv
<1>9. CASE OnRefused
  <2>1. /\ wire # <<>> /\ wire' = Tail(wire) /\ socket' = None /\ UNCHANGED <<published, lastEvent>>
    BY <1>9 DEF OnRefused, Received, serverVars
  <2>2. WireInv' /\ AheadInv'
    BY <1>0, <2>1, WireShrinks
  <2>3. LossInv'
    BY <2>1 DEF LossInv
  <2> QED
    BY <1>1, <2>1, <2>2, <2>3 DEF FlowInv
<1>10. CASE OnBreak
  <2>1. wire' = <<>> /\ socket' = None /\ UNCHANGED <<published, lastEvent>>
    BY <1>10 DEF OnBreak, serverVars
  <2>2. WireInv' /\ AheadInv'
    BY <1>0, <2>1, WireIdle, EmptyWire
  <2>3. LossInv'
    BY <2>1 DEF LossInv
  <2> QED
    BY <1>1, <2>1, <2>2, <2>3 DEF FlowInv
<1>11. CASE OnEvent
  <2>1. /\ wire # <<>> /\ Head(wire) > 0 /\ wire' = Tail(wire) /\ lastEvent' = Head(wire)
        /\ overwritten' = overwritten \cup ({lastEvent} \ {None})
        /\ UNCHANGED <<conn, published, socket, since>>
    BY <1>11 DEF OnEvent, Received, serverVars
  <2> DEFINE h == Head(wire)
             w == Tail(wire)
  <2>2. /\ w \in Seq(Int) /\ Len(w) = Len(wire) - 1 /\ Len(wire) \in Nat /\ 1 \in 1..Len(wire)
        /\ \A i \in 1..Len(w) : w[i] = wire[i + 1] /\ i + 1 \in 1..Len(wire)
        /\ Range(wire) = {h} \cup Range(w) /\ h \in Int /\ h = wire[1]
    BY <1>0, <2>1, TailOnWire
  <2> HIDE DEF h, w
  <2>3. wire' = w /\ lastEvent' = h /\ h > 0
    BY <2>1 DEF h, w
  <2>4. h \in 1..published /\ h # None
    BY <1>0, <2>2, <2>3, SocketAssumption DEF WireInv
  <2>5. \A i \in 1..Len(w) : w[i] > 0 => h < w[i]
    <3>1. \A i \in 1..Len(w) : 1 < i + 1
      OBVIOUS
    <3> QED
      BY <1>0, <2>2, <2>3, <3>1 DEF WireInv
  <2>6. \A i, j \in 1..Len(w) : (i < j /\ w[i] > 0 /\ w[j] > 0) => w[i] < w[j]
    <3>1. SUFFICES ASSUME NEW i \in 1..Len(w), NEW j \in 1..Len(w), i < j, w[i] > 0, w[j] > 0
             PROVE  w[i] < w[j]
      OBVIOUS
    <3>2. i + 1 \in 1..Len(wire) /\ j + 1 \in 1..Len(wire) /\ i + 1 < j + 1
      BY <2>2, <3>1
    <3>3. w[i] = wire[i + 1] /\ w[j] = wire[j + 1]
      BY <2>2, <3>1
    <3>4. \A a, b \in 1..Len(wire) : (a < b /\ wire[a] > 0 /\ wire[b] > 0) => wire[a] < wire[b]
      BY <1>0 DEF WireInv
    <3> QED
      BY <3>1, <3>2, <3>3, <3>4
  <2>7. \A i \in 1..Len(w) : w[i] <= published
    BY <1>0, <2>2 DEF WireInv
  <2>8. WireInv'
    BY <2>1, <2>2, <2>3, <2>4, <2>5, <2>6, <2>7 DEF WireInv
  <2>9. AheadInv'
    <3>1. lastRendered < h /\ \A i \in 1..Len(w) : w[i] > 0 => lastRendered < w[i]
      BY <1>0, <2>2, <2>3 DEF AheadInv
    <3> QED
      BY <1>0, <2>3, <3>1 DEF AheadInv
  <2>10. ASSUME socket # None /\ conn[socket] = "open", NEW e \in (since + 1)..published
         PROVE  e \in Range(w) \/ Passed(e)'
    <3>1. e \in Nat /\ e # None
      BY <1>0, SocketAssumption
    <3>2. CASE e = h
      BY <2>3, <2>5, <3>2 DEF Passed
    <3>3. CASE Passed(e)
      <4>1. e < h
        BY <2>2, <2>3, <3>3 DEF Passed
      <4>2. \A i \in 1..Len(w) : w[i] > 0 => e < w[i]
        BY <2>2, <3>3 DEF Passed
      <4>3. Rendered(e)'
        <5>1. CASE lastEvent = e
          BY <2>1, <3>1, <5>1 DEF Rendered
        <5>2. CASE Rendered(e)
          BY <2>1, <5>2 DEF Rendered, Cut
        <5> QED
          BY <3>3, <5>1, <5>2 DEF Passed
      <4> QED
        BY <2>3, <4>1, <4>2, <4>3 DEF Passed
    <3> QED
      BY <1>0, <2>2, <2>10, <3>2, <3>3 DEF LossInv
  <2>11. LossInv'
    BY <2>1, <2>3, <2>10 DEF LossInv
  <2> QED
    BY <1>1, <2>1, <2>8, <2>9, <2>11 DEF FlowInv
<1> QED
  BY <1>3, <1>4, <1>5, <1>6, <1>7, <1>8, <1>9, <1>10, <1>11 DEF SocketNext

MirrorInv == StorageMirrors /\ AnnouncedOnce

LEMMA NewestOfNone ==
  ASSUME NEW n \in Nat
  PROVE  Newest(<<>>, n) = <<>>
<1>0. <<>> \in Seq(Nat) /\ Len(<<>>) = 0
  BY EmptySeq
<1>1. PICK s \in Seq(Nat) : s = <<>> /\ Len(s) = 0
  BY <1>0, Zenon
<1>2. Newest(s, n) \in Seq(Nat) /\ Len(Newest(s, n)) = (IF Len(s) < n THEN Len(s) ELSE n)
  BY NewestIs
<1>3. Len(Newest(s, n)) = 0
  BY <1>1, <1>2
<1>4. Newest(s, n) = <<>>
  BY <1>2, <1>3, EmptySeq
<1> QED
  BY <1>1, <1>4

(* A write that is made or fails.                                          *)
LEMMA WriteKeeps ==
  ASSUME NEW s, KeptList(s), KeptList(storage), UNCHANGED published, Write(Newest(s, MaxKept)),
         NEW n \in Nat, \A k \in 1..Len(s) : s[k] <= n, \A k \in 1..Len(storage) : storage[k] <= n
  PROVE  /\ KeptList(storage)' /\ (stale' \/ storage' = Newest(s, MaxKept))
         /\ \A k \in 1..Len(storage') : storage'[k] <= n
<1>1. KeptList(Newest(s, MaxKept)) /\ s \in Seq(Nat) /\ MaxKept \in Nat
  BY NewestKept, FeedAssumption DEF KeptList
<1>2. CASE storage' = Newest(s, MaxKept)
  <2>1. KeptList(storage)'
    BY <1>1, <1>2 DEF KeptList
  <2>2. \A k \in 1..Len(Newest(s, MaxKept)) : Newest(s, MaxKept)[k] <= n
    BY <1>1, NewestIs
  <2> QED
    BY <1>2, <2>1, <2>2
<1>3. CASE stale' = TRUE /\ UNCHANGED storage
  BY <1>3 DEF KeptList
<1> QED
  BY <1>2, <1>3 DEF Write

LEMMA PrependFlow ==
  ASSUME ListsInv, AheadInv, MirrorInv, published \in Nat, NEW x \in 0..published,
         x = 0 \/ \A k \in 1..Len(events) : events[k] < x,
         lastRendered' \in 0..published, lastRendered <= lastRendered', x <= lastRendered',
         PrependEvent(x), UNCHANGED <<published, clearedTo, isPaused>>
  PROVE  /\ ListsInv' /\ MirrorInv'
         /\ \A k \in 1..Len(events') : events'[k] <= lastRendered'
         /\ \A k \in 1..Len(storage') : storage'[k] <= lastRendered'
<1>1. events' = Newest(<<x>> \o events, MaxBuffer)
  BY DEF PrependEvent
<1>2. /\ KeptList(events)' /\ Len(events') <= MaxBuffer /\ events' # <<>>
      /\ \A k \in 1..Len(events') : events'[k] = x \/ \E i \in 1..Len(events) : events'[k] = events[i]
  BY <1>1, PrependKeeps
<1>3. Write(Newest(events', MaxKept))
  BY <1>2 DEF PrependEvent, Persist
<1>4. KeptList(events') /\ KeptList(storage)
  BY <1>2 DEF KeptList, ListsInv
<1>5. lastRendered \in 0..published /\ clearedTo \in 0..lastRendered /\ lastRendered' \in Nat
  BY DEF ListsInv
<1>6. \A k \in 1..Len(events') : events'[k] <= lastRendered'
  <2>1. \A i \in 1..Len(events) : events[i] <= lastRendered /\ events[i] \in Nat
    BY DEF AheadInv, ListsInv, KeptList
  <2>2. \A i \in 1..Len(events) : events[i] <= lastRendered'
    BY <1>5, <2>1
  <2> QED
    BY <1>2, <2>2
<1>7. \A k \in 1..Len(storage) : storage[k] <= lastRendered'
  <2>1. \A i \in 1..Len(storage) : storage[i] <= lastRendered /\ storage[i] \in Nat
    BY DEF AheadInv, ListsInv, KeptList
  <2> QED
    BY <1>5, <2>1
<1>8. /\ KeptList(storage)' /\ (stale' \/ storage' = Newest(events', MaxKept))
      /\ \A k \in 1..Len(storage') : storage'[k] <= lastRendered'
  BY <1>3, <1>4, <1>5, <1>6, <1>7, WriteKeeps
<1>9. clearedTo' \in 0..lastRendered' /\ lastRendered' \in 0..published'
  BY <1>5
<1>10. AnnouncedOnce'
  BY DEF MirrorInv, AnnouncedOnce, PrependEvent
<1> QED
  BY <1>2, <1>6, <1>8, <1>9, <1>10 DEF ListsInv, MirrorInv, StorageMirrors

LEMMA RenderStep ==
  ASSUME ServerInv, FlowInv, MirrorInv, Render
  PROVE  FlowInv' /\ MirrorInv'
<1>0. /\ WireInv /\ ListsInv /\ AheadInv /\ LossInv
      /\ published \in Nat /\ since \in Nat /\ wire \in Seq(Int)
  BY DEF FlowInv, ServerInv, WireInv
<1>1. /\ lastEvent # None /\ lastEvent' = None /\ PrependEvent(lastEvent)
      /\ lastRendered' = lastEvent
      /\ UNCHANGED <<conn, published, socket, wire, overwritten, since, clearedTo, isPaused>>
  BY DEF Render, serverVars
<1>2. lastEvent \in 1..published /\ lastEvent \in Nat \ {0} /\ lastEvent \in 0..published
  BY <1>0, <1>1 DEF WireInv
<1>3. lastRendered < lastEvent /\ lastRendered \in Nat
  BY <1>0, <1>1 DEF AheadInv, ListsInv
<1>4. \A k \in 1..Len(events) : events[k] < lastEvent
  <2>1. \A k \in 1..Len(events) : events[k] <= lastRendered /\ events[k] \in Nat
    BY <1>0 DEF AheadInv, ListsInv, KeptList
  <2> QED
    BY <1>2, <1>3, <2>1
<1>5. /\ ListsInv' /\ MirrorInv'
      /\ \A k \in 1..Len(events') : events'[k] <= lastRendered'
      /\ \A k \in 1..Len(storage') : storage'[k] <= lastRendered'
  <2>1. lastRendered <= lastRendered' /\ lastEvent <= lastRendered'
    BY <1>1, <1>2, <1>3
  <2> QED
    BY <1>0, <1>1, <1>2, <1>4, <2>1, PrependFlow
<1>6. /\ lastEvent \in Range(events')
      /\ \A e \in Nat \ {0} : lastEvent > e /\ (e \in Range(events) \/ Cut(e)) => e \in Range(events') \/ Cut(e)'
  <2>1. events' = Newest(<<lastEvent>> \o events, MaxBuffer)
    BY <1>1 DEF PrependEvent
  <2> QED
    BY <1>0, <1>1, <1>2, <1>4, <2>1, PrependKeeps
<1>7. WireInv'
  BY <1>0, <1>1 DEF WireInv
<1>8. AheadInv'
  BY <1>0, <1>1, <1>5 DEF AheadInv, WireInv
<1>9. ASSUME socket # None /\ conn[socket] = "open", NEW e \in (since + 1)..published
      PROVE  e \in Range(wire) \/ Passed(e)'
  <2>1. e \in Nat \ {0}
    BY <1>0
  <2>2. CASE Passed(e)
    <3>1. Rendered(e)'
      <4>1. CASE lastEvent = e
        BY <1>6, <4>1 DEF Rendered
      <4>2. CASE Rendered(e) /\ e < lastEvent
        <5>1. lastEvent > e /\ e <= lastRendered'
          BY <1>1, <1>2, <2>1, <4>2
        <5> QED
          BY <1>1, <1>6, <2>1, <4>2, <5>1 DEF Rendered
      <4> QED
        BY <1>1, <2>2, <4>1, <4>2 DEF Passed
    <3> QED
      BY <1>1, <2>2, <3>1 DEF Passed
  <2> QED
    BY <1>0, <1>9, <2>2 DEF LossInv
<1>10. LossInv'
  BY <1>1, <1>9 DEF LossInv
<1> QED
  BY <1>5, <1>7, <1>8, <1>10 DEF FlowInv

LEMMA SimulateStep ==
  ASSUME ServerInv, FlowInv, MirrorInv, Simulate
  PROVE  FlowInv' /\ MirrorInv'
<1>0. /\ WireInv /\ ListsInv /\ AheadInv /\ LossInv
      /\ published \in Nat /\ since \in Nat /\ wire \in Seq(Int)
  BY DEF FlowInv, ServerInv, WireInv
<1>1. /\ PrependEvent(0)
      /\ UNCHANGED <<conn, published, socket, wire, lastEvent, lastRendered, overwritten, since,
                     clearedTo, isPaused>>
  BY DEF Simulate, socketVars, serverVars, hookVars, seenVars
<1>2. 0 \in 0..published /\ lastRendered' \in 0..published /\ lastRendered <= lastRendered' /\ 0 <= lastRendered'
  BY <1>0, <1>1 DEF ListsInv
<1>4. /\ ListsInv' /\ MirrorInv'
      /\ \A k \in 1..Len(events') : events'[k] <= lastRendered'
      /\ \A k \in 1..Len(storage') : storage'[k] <= lastRendered'
  BY <1>0, <1>1, <1>2, PrependFlow
<1>5. events' = Newest(<<0>> \o events, MaxBuffer)
  BY <1>1 DEF PrependEvent
<1>6. \A e \in Nat \ {0} : (e \in Range(events) \/ Cut(e)) => e \in Range(events') \/ Cut(e)'
  BY <1>0, <1>1, <1>2, <1>5, PrependKeeps
<1>7. WireInv'
  BY <1>0, <1>1 DEF WireInv
<1>8. AheadInv'
  BY <1>0, <1>1, <1>4 DEF AheadInv
<1>9. ASSUME NEW e \in (since + 1)..published, Passed(e)
      PROVE  Passed(e)'
  <2>1. e \in Nat \ {0}
    BY <1>0
  <2>2. e \in Range(events) => e <= lastRendered
    <3>1. events \in Seq(Nat)
      BY <1>0 DEF ListsInv, KeptList
    <3> QED
      BY <1>0, <3>1, RangeIndexed DEF AheadInv
  <2>3. Rendered(e) => Rendered(e)'
    BY <1>1, <1>6, <2>1, <2>2 DEF Rendered
  <2> QED
    BY <1>1, <1>9, <2>3 DEF Passed
<1>10. LossInv'
  BY <1>0, <1>1, <1>9 DEF LossInv
<1> QED
  BY <1>4, <1>7, <1>8, <1>10 DEF FlowInv

(* What is neither arrival, clearing nor a new socket.                     *)
LEMMA FlowRests ==
  ASSUME FlowInv, published \in Nat, KeptList(storage)',
         \A k \in 1..Len(storage') : storage'[k] <= lastRendered,
         UNCHANGED <<conn, published, socket, wire, lastEvent, lastRendered, overwritten, since,
                     events, clearedTo>>
  PROVE  FlowInv'
<1>1. WireInv' /\ AheadInv' /\ LossInv'
  <2>1. \A e : Passed(e) => Passed(e)'
    BY DEF Passed, Rendered, Cut
  <2> QED
    BY <2>1 DEF FlowInv, WireInv, AheadInv, LossInv
<1>2. ListsInv'
  BY DEF FlowInv, ListsInv, KeptList
<1> QED
  BY <1>1, <1>2 DEF FlowInv

LEMMA RefreshStep ==
  ASSUME ServerInv, FlowInv, MirrorInv, RefreshTimes
  PROVE  FlowInv' /\ MirrorInv'
<1>1. /\ UNCHANGED <<conn, published, socket, wire, lastEvent, lastRendered, overwritten, since,
                     events, clearedTo>>
      /\ UNCHANGED <<timer, isPaused, pendingAnnouncements>> /\ Persist(events)
  BY DEF RefreshTimes, socketVars, serverVars, hookVars, switchVars, seenVars, announceVars
<1>2. /\ KeptList(events) /\ KeptList(storage) /\ published \in Nat /\ lastRendered \in Nat
      /\ \A k \in 1..Len(events) : events[k] <= lastRendered
      /\ \A k \in 1..Len(storage) : storage[k] <= lastRendered
  BY DEF FlowInv, ListsInv, AheadInv, ServerInv
<1>3. /\ KeptList(storage)' /\ (stale' \/ storage' = Newest(events, MaxKept))
      /\ \A k \in 1..Len(storage') : storage'[k] <= lastRendered
  <2>1. CASE events = <<>>
    BY <1>1, <1>2, <2>1 DEF Persist, storeVars, MirrorInv, StorageMirrors, KeptList
  <2>2. CASE events # <<>>
    BY <1>1, <1>2, <2>2, WriteKeeps DEF Persist
  <2> QED
    BY <2>1, <2>2
<1>4. FlowInv'
  BY <1>1, <1>2, <1>3, FlowRests
<1>5. MirrorInv'
  BY <1>1, <1>3 DEF MirrorInv, StorageMirrors, AnnouncedOnce
<1> QED
  BY <1>4, <1>5

LEMMA SwitchStep ==
  ASSUME ServerInv, FlowInv, MirrorInv,
         ToggleSimulation \/ Announce \/ TogglePause \/ DismissBanner
  PROVE  FlowInv' /\ MirrorInv'
<1>1. UNCHANGED <<conn, published, socket, wire, lastEvent, lastRendered, overwritten, since, events,
                  clearedTo, storage, stale>>
  BY DEF ToggleSimulation, Announce, TogglePause, DismissBanner,
         socketVars, serverVars, hookVars, switchVars, seenVars, storeVars
<1>2. /\ published \in Nat /\ KeptList(storage)'
      /\ \A k \in 1..Len(storage') : storage'[k] <= lastRendered
  BY <1>1 DEF ServerInv, FlowInv, AheadInv, ListsInv, KeptList
<1>3. FlowInv'
  BY <1>1, <1>2, FlowRests
<1>4. AnnouncedOnce'
  <2>1. CASE timer' = None
    BY <2>1 DEF AnnouncedOnce
  <2>2. CASE UNCHANGED <<timer, isPaused, pendingAnnouncements>>
    BY <2>2 DEF AnnouncedOnce, MirrorInv
  <2> QED
    BY <2>1, <2>2 DEF ToggleSimulation, Announce, TogglePause, DismissBanner, announceVars, switchVars
<1> QED
  BY <1>1, <1>3, <1>4 DEF MirrorInv, StorageMirrors

LEMMA ClearStep ==
  ASSUME ServerInv, FlowInv, MirrorInv, ClearFeed
  PROVE  FlowInv' /\ MirrorInv'
<1>0. /\ WireInv /\ ListsInv /\ AheadInv /\ LossInv
      /\ published \in Nat /\ since \in Nat /\ wire \in Seq(Int)
  BY DEF FlowInv, ServerInv, WireInv
<1>1. /\ events' = <<>> /\ clearedTo' = lastRendered /\ Write(<<>>)
      /\ UNCHANGED <<conn, published, socket, wire, lastEvent, lastRendered, overwritten, since,
                     timer, pendingAnnouncements, isPaused>>
  BY DEF ClearFeed, socketVars, serverVars, hookVars, announceVars
<1>2. /\ lastRendered \in 0..published /\ clearedTo \in 0..lastRendered
      /\ events \in Seq(Nat)
      /\ \A e \in Range(events) : e <= lastRendered
  <2>1. events \in Seq(Nat)
    BY <1>0 DEF ListsInv, KeptList
  <2> QED
    BY <1>0, <2>1, RangeIndexed DEF ListsInv, AheadInv
<1>3. Newest(<<>>, MaxKept) = <<>> /\ <<>> \in Seq(Nat) /\ Len(<<>>) = 0 /\ MaxBuffer \in Nat \ {0}
  BY FeedAssumption, NewestOfNone, EmptySeq
<1>4. KeptList(<<>>) /\ KeptList(storage)
  BY <1>0, <1>3 DEF KeptList, ListsInv
<1>5. /\ KeptList(storage)' /\ (stale' \/ storage' = Newest(<<>>, MaxKept))
      /\ \A k \in 1..Len(storage') : storage'[k] <= lastRendered
  <2>1. /\ lastRendered \in Nat /\ \A k \in 1..Len(storage) : storage[k] <= lastRendered
        /\ \A k \in 1..Len(<<>>) : <<>>[k] <= lastRendered
    BY <1>0, <1>2, <1>3 DEF AheadInv
  <2> QED
    BY <1>1, <1>3, <1>4, <2>1, WriteKeeps
<1>6. KeptList(events)' /\ Len(events') <= MaxBuffer
  BY <1>1, <1>3 DEF KeptList
<1>7. ListsInv'
  BY <1>1, <1>2, <1>5, <1>6 DEF ListsInv
<1>8. MirrorInv'
  BY <1>1, <1>5 DEF MirrorInv, StorageMirrors, AnnouncedOnce
<1>9. WireInv' /\ AheadInv'
  <2>1. WireInv'
    BY <1>0, <1>1 DEF WireInv
  <2>2. AheadInv'
    BY <1>0, <1>1, <1>3, <1>5 DEF AheadInv
  <2> QED
    BY <2>1, <2>2
<1>10. ASSUME NEW e \in (since + 1)..published, Passed(e)
       PROVE  Passed(e)'
  <2>1. e \in Nat \ {0}
    BY <1>0
  <2>2. Rendered(e) => Rendered(e)'
    BY <1>1, <1>2, <2>1 DEF Rendered
  <2> QED
    BY <1>1, <1>10, <2>2 DEF Passed
<1>11. LossInv'
  BY <1>0, <1>1, <1>10 DEF LossInv
<1> QED
  BY <1>7, <1>8, <1>9, <1>11 DEF FlowInv

LEMMA RetryStep ==
  ASSUME ServerInv, FlowInv, MirrorInv, Retry
  PROVE  FlowInv' /\ MirrorInv'
<1>1. /\ wire' = <<>> /\ socket' = None
      /\ UNCHANGED <<published, lastEvent, lastRendered, events, storage, stale, clearedTo,
                     timer, isPaused, pendingAnnouncements>>
  BY DEF Retry, NewSocket, announceVars, storeVars, switchVars, seenVars
<1>2. WireInv' /\ AheadInv'
  BY <1>1, WireIdle, EmptyWire DEF FlowInv, ServerInv
<1>3. ListsInv'
  BY <1>1, ListsRest DEF FlowInv, ServerInv
<1>4. LossInv'
  BY <1>1 DEF LossInv
<1>5. MirrorInv'
  BY <1>1 DEF MirrorInv, StorageMirrors, AnnouncedOnce
<1> QED
  BY <1>2, <1>3, <1>4, <1>5 DEF FlowInv

LEMMA ReopenStep ==
  ASSUME ServerInv, FlowInv, MirrorInv, Reopen
  PROVE  FlowInv' /\ MirrorInv'
<1>1. /\ wire' = <<>> /\ socket' = None /\ lastEvent' = None
      /\ events' = Newest(storage, MaxBuffer) /\ Persist(events') /\ timer' = None
      /\ UNCHANGED <<published, lastRendered, clearedTo>>
  BY DEF Reopen, NewSocket, seenVars
<1>2. /\ KeptList(storage) /\ published \in Nat /\ lastRendered \in Nat
      /\ MaxBuffer \in Nat \ {0} /\ MaxKept \in Nat /\ storage \in Seq(Nat)
      /\ \A k \in 1..Len(storage) : storage[k] <= lastRendered
  BY FeedAssumption DEF FlowInv, ListsInv, AheadInv, ServerInv, KeptList
<1>3. /\ KeptList(events') /\ Len(events') <= MaxBuffer
      /\ \A k \in 1..Len(events') : events'[k] <= lastRendered
  <2>1. KeptList(events') /\ Len(events') <= MaxBuffer
    BY <1>1, <1>2, NewestKept
  <2>2. \A k \in 1..Len(Newest(storage, MaxBuffer)) : Newest(storage, MaxBuffer)[k] <= lastRendered
    BY <1>2, NewestIs
  <2> QED
    BY <1>1, <2>1, <2>2
<1>4. /\ KeptList(storage)' /\ (stale' \/ storage' = Newest(events', MaxKept))
      /\ \A k \in 1..Len(storage') : storage'[k] <= lastRendered
  <2>1. CASE events' = <<>>
    <3>1. Len(storage) \in Nat /\ Len(events') = (IF Len(storage) < MaxBuffer THEN Len(storage) ELSE MaxBuffer)
      BY <1>1, <1>2, NewestIs
    <3>2. Len(events') = 0
      BY <2>1, EmptySeq
    <3>3. Len(storage) = 0
      BY <1>2, <3>1, <3>2
    <3>4. storage = <<>>
      BY <1>2, <3>3, EmptySeq
    <3>5. UNCHANGED storage
      BY <1>1, <2>1 DEF Persist, storeVars
    <3> QED
      BY <1>1, <1>2, <2>1, <3>4, <3>5, NewestOfNone DEF KeptList
  <2>2. CASE events' # <<>>
    BY <1>1, <1>2, <1>3, <2>2, WriteKeeps DEF Persist
  <2> QED
    BY <2>1, <2>2
<1>5. ListsInv'
  BY <1>1, <1>3, <1>4 DEF FlowInv, ListsInv, KeptList
<1>6. WireInv' /\ AheadInv'
  BY <1>1, <1>3, <1>4, EmptyWire DEF WireInv, AheadInv
<1>7. LossInv'
  BY <1>1 DEF LossInv
<1>8. MirrorInv'
  BY <1>1, <1>4 DEF MirrorInv, StorageMirrors, AnnouncedOnce
<1> QED
  BY <1>5, <1>6, <1>7, <1>8 DEF FlowInv

FeedInv == ServerInv /\ FlowInv /\ MirrorInv

LEMMA FeedStarts == FeedInit => FeedInv
<1> SUFFICES ASSUME FeedInit
             PROVE  FeedInv
  OBVIOUS
<1>1. /\ conn = [c \in Conns |-> "new"] /\ published = 0 /\ socket = None /\ wire = <<>>
      /\ lastEvent = None /\ since = 0 /\ events = <<>> /\ storage = <<>>
      /\ timer = None /\ lastRendered = 0 /\ clearedTo = 0
  BY DEF FeedInit, SocketInit
<1>2. Newest(<<>>, MaxKept) = <<>> /\ <<>> \in Seq(Nat) /\ Len(<<>>) = 0 /\ MaxBuffer \in Nat
  BY FeedAssumption, NewestOfNone, EmptySeq
<1>3. KeptList(events) /\ KeptList(storage)
  BY <1>1, <1>2 DEF KeptList
<1>4. WireInv /\ ListsInv /\ AheadInv /\ LossInv
  BY <1>1, <1>2, <1>3, EmptyWire DEF WireInv, ListsInv, AheadInv, LossInv
<1>5. MirrorInv
  BY <1>1, <1>2 DEF MirrorInv, StorageMirrors, AnnouncedOnce
<1> QED
  BY <1>4, <1>5, ServerStarts DEF FeedInv, FlowInv

LEMMA FeedStep == FeedInv /\ [FeedNext]_feedVars => FeedInv'
<1> SUFFICES ASSUME ServerInv, FlowInv, MirrorInv, [FeedNext]_feedVars
             PROVE  FeedInv'
  BY DEF FeedInv
<1>1. ServerInv'
  BY ServerStep DEF FlowInv, WireInv
<1>2. CASE Hook
  <2>1. SocketNext /\ UNCHANGED <<events, storage, lastRendered, clearedTo, stale, timer, isPaused,
                                  pendingAnnouncements>>
    BY <1>2 DEF Hook, announceVars, storeVars, seenVars
  <2>2. MirrorInv'
    BY <2>1 DEF MirrorInv, StorageMirrors, AnnouncedOnce
  <2> QED
    BY <1>1, <2>1, <2>2, HookFlowStep DEF FeedInv
<1>3. CASE Render \/ Simulate
  BY <1>1, <1>3, RenderStep, SimulateStep DEF FeedInv
<1>4. CASE ToggleSimulation \/ Announce \/ TogglePause \/ DismissBanner
  BY <1>1, <1>4, SwitchStep DEF FeedInv
<1>5. CASE RefreshTimes \/ ClearFeed
  BY <1>1, <1>5, RefreshStep, ClearStep DEF FeedInv
<1>6. CASE Retry \/ Reopen
  BY <1>1, <1>6, RetryStep, ReopenStep DEF FeedInv
<1>7. CASE UNCHANGED feedVars
  <2>1. /\ UNCHANGED <<conn, published, socket, wire, lastEvent, lastRendered, overwritten, since,
                       events, clearedTo>>
        /\ UNCHANGED <<storage, stale, timer, isPaused, pendingAnnouncements>>
    BY <1>7 DEF feedVars, socketVars, serverVars, hookVars, announceVars, storeVars, switchVars, seenVars
  <2>2. /\ KeptList(storage)' /\ published \in Nat
        /\ \A k \in 1..Len(storage') : storage'[k] <= lastRendered
    BY <2>1 DEF ServerInv, FlowInv, ListsInv, AheadInv, KeptList
  <2>3. MirrorInv'
    BY <2>1 DEF MirrorInv, StorageMirrors, AnnouncedOnce
  <2> QED
    BY <1>1, <2>1, <2>2, <2>3, FlowRests DEF FeedInv
<1> QED
  BY <1>2, <1>3, <1>4, <1>5, <1>6, <1>7 DEF FeedNext

LEMMA FeedHoldsThen == FeedInv => FeedHolds
<1> SUFFICES ASSUME ServerInv, FlowInv, MirrorInv
             PROVE  FeedHolds
  BY DEF FeedInv
<1>1. LimiterCounts /\ StoppedMeansGivenUp
  BY DEF ServerInv, LimiterCounts, StoppedMeansGivenUp, Opened, Refused
<1>2. NewestFirst
  BY DEF FlowInv, ListsInv, KeptList, NewestFirst
<1>3. NoneLost
  BY DEF FlowInv, LossInv, Passed, Rendered, Cut, NoneLost
<1> QED
  BY <1>1, <1>2, <1>3 DEF MirrorInv, FeedHolds

-----------------------------------------------------------------------------
(* A filter, of a list in decreasing order.                                *)
(* Induction, for a set of numbers.                                        *)
LEMMA NatSet ==
  ASSUME NEW A, 0 \in A, \A n \in Nat : n \in A => n + 1 \in A
  PROVE  \A n \in Nat : n \in A
<1> DEFINE Less == {ss \in Nat \X Nat : ss[1] < ss[2]}
           B == Nat \ A
<1>1. IsWellFoundedOn(Less, Nat)
  BY NatLessThanWellFounded, Zenon DEF OpToRel
<1>2. \A a, b \in Nat : a < b => <<a, b>> \in Less
  OBVIOUS
<1> HIDE DEF Less
<1>3. SUFFICES ASSUME B # {}
               PROVE  FALSE
  OBVIOUS
<1>4. B \subseteq Nat
  OBVIOUS
<1> HIDE DEF B
<1>5. PICK u \in B : \A v \in B : ~ (<<v, u>> \in Less)
  BY <1>1, <1>3, <1>4, WFMin
<1>6. u \in Nat /\ u \notin A /\ u # 0
  BY <1>5 DEF B
<1>7. u - 1 \in Nat /\ u - 1 < u /\ (u - 1) + 1 = u
  BY <1>6
<1>8. u - 1 \notin A
  BY <1>6, <1>7
<1>9. u - 1 \in B
  BY <1>7, <1>8 DEF B
<1> QED
  BY <1>2, <1>5, <1>6, <1>7, <1>9

(* The filter is what its recursion says.                                  *)
Filters(f, s, S, m) ==
  f = [n \in 0..m |-> IF n = 0 THEN <<>>
                      ELSE IF s[n] \in S THEN Append(f[n - 1], s[n]) ELSE f[n - 1]]

LEMMA FilterExists ==
  ASSUME NEW s, NEW S, NEW m \in Nat
  PROVE  \E f : Filters(f, s, S, m)
<1> DEFINE A == {k \in Nat : \E f : Filters(f, s, S, k)}
<1>1. 0 \in A
  <2> DEFINE f == [n \in 0..0 |-> <<>>]
  <2>1. f = [n \in 0..0 |-> IF n = 0 THEN <<>>
                            ELSE IF s[n] \in S THEN Append(f[n - 1], s[n]) ELSE f[n - 1]]
    OBVIOUS
  <2> HIDE DEF f
  <2>2. Filters(f, s, S, 0)
    BY <2>1 DEF Filters
  <2> QED
    BY <2>2
<1>2. ASSUME NEW k \in Nat, k \in A
      PROVE  k + 1 \in A
  <2>1. PICK f : Filters(f, s, S, k)
    BY <1>2
  <2> DEFINE g == [n \in 0..(k + 1) |->
                     IF n = 0 THEN <<>>
                     ELSE IF s[n] \in S THEN Append(f[n - 1], s[n]) ELSE f[n - 1]]
  <2>2. \A n \in 0..k : g[n] = f[n]
    <3>1. \A n \in 0..k : f[n] = IF n = 0 THEN <<>>
                                 ELSE IF s[n] \in S THEN Append(f[n - 1], s[n]) ELSE f[n - 1]
      BY <2>1 DEF Filters
    <3>2. \A n \in 0..k : n \in 0..(k + 1)
      OBVIOUS
    <3> QED
      BY <3>1, <3>2
  <2>3. \A n \in 0..(k + 1) : n # 0 => n - 1 \in 0..k
    OBVIOUS
  <2>4. \A n \in 0..(k + 1) : g[n] = IF n = 0 THEN <<>>
                                     ELSE IF s[n] \in S THEN Append(g[n - 1], s[n]) ELSE g[n - 1]
    BY <2>2, <2>3
  <2>5. g = [n \in 0..(k + 1) |-> g[n]]
    OBVIOUS
  <2> HIDE DEF g
  <2>6. Filters(g, s, S, k + 1)
    BY <2>4, <2>5, Zenon DEF Filters
  <2> QED
    BY <2>6
<1> HIDE DEF A
<1>3. m \in A
  BY <1>1, <1>2, NatSet
<1> QED
  BY <1>3 DEF A

Decreasing(s) == \A i, j \in 1..Len(s) : i < j => s[i] > s[j]
Among(s, n, x) == \E i \in 1..n : s[i] = x

(* What a filter leaves: the entries that are in S, in their order.        *)
LEMMA KeptIs ==
  ASSUME NEW s \in Seq(Nat), NEW S
  PROVE  /\ Kept(s, S) \in Seq(Nat)
         /\ \A x : Among(Kept(s, S), Len(Kept(s, S)), x) <=> (x \in S /\ Among(s, Len(s), x))
         /\ Decreasing(s) => Decreasing(Kept(s, S))
<1> DEFINE F == CHOOSE f : Filters(f, s, S, Len(s))
<1>1. Len(s) \in Nat
  OBVIOUS
<1>2. Filters(F, s, S, Len(s))
  BY <1>1, FilterExists
<1>3. Kept(s, S) = F[Len(s)]
  BY DEF Kept, Filters
<1> HIDE DEF F
<1> DEFINE Good(r, n) == /\ r \in Seq(Nat)
                         /\ \A x : Among(r, Len(r), x) <=> (x \in S /\ Among(s, n, x))
                         /\ Decreasing(s) => Decreasing(r)
           A == {n \in Nat : n <= Len(s) => Good(F[n], n)}
<1>4. /\ F[0] = <<>>
      /\ \A n \in 1..Len(s) : F[n] = IF s[n] \in S THEN Append(F[n - 1], s[n]) ELSE F[n - 1]
  <2>1. \A n \in 0..Len(s) : F[n] = IF n = 0 THEN <<>>
                                    ELSE IF s[n] \in S THEN Append(F[n - 1], s[n]) ELSE F[n - 1]
    BY <1>2 DEF Filters
  <2>2. 0 \in 0..Len(s) /\ \A n \in 1..Len(s) : n \in 0..Len(s) /\ n # 0
    BY <1>1
  <2> QED
    BY <2>1, <2>2
<1>5. 0 \in A
  <2>1. <<>> \in Seq(Nat) /\ Len(<<>>) = 0
    BY EmptySeq
  <2>2. \A x, r : ~Among(r, 0, x)
    BY DEF Among
  <2>3. Decreasing(<<>>)
    BY <2>1 DEF Decreasing
  <2>4. Good(<<>>, 0)
    BY <2>1, <2>2, <2>3
  <2> HIDE DEF Good
  <2> QED
    BY <1>4, <2>4
<1>6. ASSUME NEW n \in Nat, n \in A
      PROVE  n + 1 \in A
  <2>1. SUFFICES ASSUME n + 1 <= Len(s)
                 PROVE  Good(F[n + 1], n + 1)
    OBVIOUS
  <2>2. n + 1 \in 1..Len(s) /\ (n + 1) - 1 = n /\ n <= Len(s) /\ s[n + 1] \in Nat
    BY <1>1, <2>1
  <2>3. Good(F[n], n)
    BY <1>6, <2>2
  <2> DEFINE e == s[n + 1]
             r == F[n]
  <2>4. F[n + 1] = IF e \in S THEN Append(r, e) ELSE r
    BY <1>4, <2>2
  <2>5. \A i \in 1..(n + 1) : i \in 1..n \/ i = n + 1
    OBVIOUS
  <2>6. \A x : Among(s, n + 1, x) <=> (x = e \/ Among(s, n, x))
    <3>1. n + 1 \in 1..(n + 1) /\ \A i \in 1..n : i \in 1..(n + 1)
      OBVIOUS
    <3> QED
      BY <2>5, <3>1 DEF Among
  <2>7. /\ r \in Seq(Nat) /\ Len(r) \in Nat
        /\ Decreasing(s) => Decreasing(r)
        /\ \A x : Among(r, Len(r), x) <=> (x \in S /\ Among(s, n, x))
    BY <2>3
  <2>8. CASE e \notin S
    <3>1. F[n + 1] = r
      BY <2>4, <2>8
    <3>2. \A x : Among(r, Len(r), x) <=> (x \in S /\ Among(s, n + 1, x))
      BY <2>6, <2>7, <2>8
    <3> QED
      BY <2>7, <3>1, <3>2
  <2>9. CASE e \in S
    <3> DEFINE q == Append(r, e)
    <3>1. e \in Nat
      BY <2>2
    <3> HIDE DEF e, r
    <3>2. /\ q \in Seq(Nat) /\ Len(q) = Len(r) + 1
          /\ \A i \in 1..Len(r) : q[i] = r[i]
          /\ q[Len(r) + 1] = e
      <4>1. r \in Seq(Nat)
        BY <2>7
      <4> QED
        BY <4>1, <3>1, AppendProperties
    <3>3. F[n + 1] = q
      BY <2>4, <2>9
    <3> HIDE DEF q
    <3>4. \A i \in 1..Len(q) : i \in 1..Len(r) \/ i = Len(r) + 1
      BY <2>7, <3>2
    <3>5. Len(r) + 1 \in 1..Len(q) /\ \A i \in 1..Len(r) : i \in 1..Len(q)
      BY <2>7, <3>2
    <3>6. \A x : Among(q, Len(q), x) <=> (x = e \/ Among(r, Len(r), x))
      BY <3>2, <3>4, <3>5 DEF Among
    <3>7. \A x : Among(q, Len(q), x) <=> (x \in S /\ Among(s, n + 1, x))
      BY <2>6, <2>7, <2>9, <3>6
    <3>8. ASSUME Decreasing(s), NEW i \in 1..Len(q), NEW j \in 1..Len(q), i < j
          PROVE  q[i] > q[j]
      <4>1. i \in 1..Len(r)
        BY <2>7, <3>2, <3>8
      <4>2. CASE j \in 1..Len(r)
        <5>1. r[i] > r[j]
          BY <2>7, <3>8, <4>1, <4>2 DEF Decreasing
        <5> QED
          BY <3>2, <4>1, <4>2, <5>1
      <4>3. CASE j = Len(r) + 1
        <5>1. Among(r, Len(r), r[i])
          BY <4>1 DEF Among
        <5>2. PICK k \in 1..n : s[k] = r[i]
          BY <2>7, <5>1 DEF Among
        <5>3. k \in 1..Len(s) /\ k < n + 1
          BY <1>1, <2>2
        <5>4. s[k] > s[n + 1]
          BY <2>2, <3>8, <5>3 DEF Decreasing
        <5> QED
          BY <3>2, <4>1, <4>3, <5>2, <5>4 DEF e
      <4> QED
        BY <3>4, <4>2, <4>3
    <3>9. Decreasing(s) => Decreasing(q)
      BY <3>8 DEF Decreasing
    <3>10. Good(q, n + 1)
      BY <3>2, <3>7, <3>9
    <3> QED
      BY <3>3, <3>10
  <2> QED
    BY <2>8, <2>9
<1> HIDE DEF A
<1>7. Len(s) \in A
  BY <1>1, <1>5, <1>6, NatSet
<1>8. Good(F[Len(s)], Len(s))
  BY <1>1, <1>7 DEF A
<1> QED
  BY <1>3, <1>8

-----------------------------------------------------------------------------
(* The pages with lists: a request of which it is said that it is alone is *)
(* the only one, at most one makes a row, and without a doubt what is      *)
(* shown is the rows of the server down to where the list was cut, but for *)
(* stale rows and changes whose answer is due.                             *)
ListRequest ==
  [kind : {"list", "create", "remove"}, id : Int, n : Nat, served : BOOLEAN, ok : BOOLEAN,
   answer : Seq(Nat), alone : BOOLEAN]

Known(s) == s \in Seq(Nat) /\ \A i \in 1..Len(s) : s[i] \in 1..created
Shows(s, x) == Among(s, Len(s), x)
IsCutAt(s, end) == \A x : Shows(s, x) <=> x \in rows /\ x >= end
IsListing(s) ==
  Known(s) /\ Decreasing(s) /\ EndOf(s) \in 0..created /\ IsCutAt(s, EndOf(s))

Fits(r) ==
  /\ Known(r.answer)
  /\ r.ok => r.served
  /\ r.kind = "list" => r.id = 0 \/ (r.id = Tracking /\ listPage = "wallets")
  /\ r.kind = "remove" => r.id \in 1..created
  /\ r.kind = "create" => r.id = 0
  /\ (r.kind = "create" /\ r.ok) => Len(r.answer) = 1

TablesInv ==
  /\ listPage \in {"webhooks", "keys", "wallets"}
  /\ created \in Nat /\ sent \in Nat /\ rows \subseteq 1..created
  /\ listPage # "wallets" => Known(list)

RequestsInv == requests \subseteq ListRequest /\ \A r \in requests : Fits(r)

AloneInv ==
  \A r \in requests : r.alone =>
    requests = {r} /\ (r.kind = "list" /\ r.ok => IsListing(r.answer))

Makes(r) == r.kind = "create" \/ r.id = Tracking
MakesInv ==
  /\ \A r, q \in requests : Makes(r) /\ Makes(q) => r = q
  /\ ~creating => \A r \in requests : ~Makes(r)

Adds(r, x) == r.kind = "create" /\ r.ok /\ r.answer[1] = x
Drops(r, x) == r.kind = "remove" /\ r.ok /\ r.id = x
AddedRow(x) == \E r \in requests : Adds(r, x)
GoneRow(x) == \E r \in requests : Drops(r, x)

Meets(x) ==
  (x \in rows /\ x >= pageEnd) <=> ((Shows(list, x) \/ AddedRow(x)) /\ ~GoneRow(x))
InStep ==
  /\ Known(list) /\ Decreasing(list) /\ pageEnd \in 0..created
  /\ \A x : x \notin staleRows => Meets(x)
  /\ \A x : AddedRow(x) =>
       /\ \A y : Shows(list, y) => y < x
       /\ \A r \in requests : r.kind = "remove" => r.id # x

TracksNow == \E r \in requests : r.kind = "list" /\ r.id = Tracking
AgreeInv == ~doubt => InStep \/ (listPage = "wallets" /\ (error \/ TracksNow))

PagesInv == TablesInv /\ RequestsInv /\ AloneInv /\ MakesInv /\ AgreeInv

LEMMA KnownGrows ==
  ASSUME created \in Nat, created' \in Nat, created <= created', NEW s, Known(s)
  PROVE  Known(s)'
<1>1. \A i \in 1..Len(s) : s[i] \in 1..created'
  BY DEF Known
<1> QED
  BY <1>1 DEF Known

LEMMA FitsStill ==
  ASSUME created \in Nat, created' \in Nat, created <= created', UNCHANGED listPage, NEW r, Fits(r)
  PROVE  Fits(r)'
<1>1. Known(r.answer)'
  BY KnownGrows DEF Fits
<1>2. r.kind = "remove" => r.id \in 1..created'
  BY DEF Fits
<1> QED
  BY <1>1, <1>2 DEF Fits

(* What two requests have in common that differ in being alone.            *)
Same(q, r) == q.kind = r.kind /\ q.id = r.id /\ q.served = r.served /\ q.ok = r.ok /\ q.answer = r.answer

LEMMA NotAloneIs ==
  ASSUME NEW R \in SUBSET ListRequest
  PROVE  /\ NotAlone(R) \subseteq ListRequest
         /\ \A q \in NotAlone(R) : ~q.alone /\ \E r \in R : q = [r EXCEPT !.alone = FALSE] /\ Same(q, r)
         /\ \A r \in R : \E q \in NotAlone(R) : Same(q, r)
         /\ R = {} => NotAlone(R) = {}
<1>1. \A r \in R : LET q == [r EXCEPT !.alone = FALSE]
                   IN  q \in ListRequest /\ ~q.alone /\ Same(q, r)
  BY DEF ListRequest, Same
<1> QED
  BY <1>1 DEF NotAlone

(* A request that is served, or fails.                                     *)
LEMMA ReplaceKeeps ==
  ASSUME TablesInv, RequestsInv, AloneInv, MakesInv,
         NEW r \in requests, NEW q \in ListRequest, q.kind = r.kind, q.id = r.id, q.alone = r.alone,
         requests' = (requests \ {r}) \cup {q}, Fits(q)', UNCHANGED <<listPage, creating>>,
         created' \in Nat, created <= created',
         q.alone /\ q.kind = "list" /\ q.ok => IsListing(q.answer)'
  PROVE  RequestsInv' /\ AloneInv' /\ MakesInv'
<1>1. RequestsInv'
  <2>1. \A p \in requests : Fits(p)'
    BY FitsStill DEF TablesInv, RequestsInv
  <2> QED
    BY <2>1 DEF RequestsInv
<1>2. AloneInv'
  <2>1. ASSUME NEW p \in requests', p.alone
        PROVE  p = q /\ requests' = {q}
    <3>1. CASE p = q
      BY <2>1, <3>1 DEF AloneInv
    <3>2. CASE p \in requests /\ p # r
      BY <2>1, <3>2 DEF AloneInv
    <3> QED
      BY <3>1, <3>2
  <2> QED
    BY <2>1 DEF AloneInv
<1>3. MakesInv'
  <2>1. Makes(q) <=> Makes(r)
    BY DEF Makes
  <2> QED
    BY <2>1 DEF MakesInv
<1> QED
  BY <1>1, <1>2, <1>3

(* A request whose answer is handled.                                      *)
LEMMA DropKeeps ==
  ASSUME TablesInv, RequestsInv, AloneInv, MakesInv,
         NEW r \in requests, requests' = requests \ {r}, UNCHANGED <<listPage, created>>,
         creating => creating' \/ Makes(r)
  PROVE  RequestsInv' /\ AloneInv' /\ MakesInv'
<1>1. RequestsInv'
  <2>1. \A p \in requests : Fits(p)'
    BY FitsStill DEF TablesInv, RequestsInv
  <2> QED
    BY <2>1 DEF RequestsInv
<1>2. AloneInv'
  BY DEF AloneInv
<1>3. MakesInv'
  BY DEF MakesInv, Makes
<1> QED
  BY <1>1, <1>2, <1>3

(* A request that is sent.                                                 *)
LEMMA SendKeeps ==
  ASSUME TablesInv, RequestsInv, MakesInv,
         NEW R \in SUBSET requests, NEW q \in ListRequest, requests' = NotAlone(R) \cup {q},
         q.alone => R = {}, ~q.ok, Fits(q), UNCHANGED <<listPage, created>>,
         Makes(q) => (creating' /\ \A p \in R : ~Makes(p)), ~creating' => ~creating
  PROVE  RequestsInv' /\ AloneInv' /\ MakesInv'
<1>1. /\ R \in SUBSET ListRequest /\ NotAlone(R) \subseteq ListRequest
      /\ \A p \in NotAlone(R) : ~p.alone /\ \E r \in R : p = [r EXCEPT !.alone = FALSE] /\ Same(p, r)
      /\ R = {} => NotAlone(R) = {}
  <2>1. R \in SUBSET ListRequest
    BY DEF RequestsInv
  <2> QED
    BY <2>1, NotAloneIs
<1>2. RequestsInv'
  <2>1. \A p \in requests \cup {q} : Fits(p)'
    BY FitsStill DEF TablesInv, RequestsInv
  <2>2. \A p \in NotAlone(R) : Fits(p)'
    BY <1>1, <2>1 DEF Fits, Same, Known
  <2> QED
    BY <1>1, <2>1, <2>2 DEF RequestsInv
<1>3. AloneInv'
  BY <1>1 DEF AloneInv
<1>4. MakesInv'
  <2>1. \A p \in NotAlone(R) : \E r \in R : p = [r EXCEPT !.alone = FALSE] /\ (Makes(p) <=> Makes(r))
    BY <1>1 DEF Same, Makes
  <2>2. ASSUME NEW p \in NotAlone(R), NEW o \in NotAlone(R), Makes(p), Makes(o)
        PROVE  p = o
    <3>1. PICK r \in R : p = [r EXCEPT !.alone = FALSE] /\ Makes(r)
      BY <2>1, <2>2
    <3>2. PICK v \in R : o = [v EXCEPT !.alone = FALSE] /\ Makes(v)
      BY <2>1, <2>2
    <3>3. r = v
      BY <3>1, <3>2 DEF MakesInv
    <3> QED
      BY <3>1, <3>2, <3>3
  <2>3. Makes(q) => \A p \in NotAlone(R) : ~Makes(p)
    BY <2>1
  <2>4. ~creating' => ~Makes(q) /\ \A p \in NotAlone(R) : ~Makes(p)
    BY <2>1 DEF MakesInv
  <2> QED
    BY <2>2, <2>3, <2>4 DEF MakesInv
<1> QED
  BY <1>2, <1>3, <1>4

(* A list in decreasing order is cut at its last row, and not before.      *)
LEMMA FirstRowsAre ==
  ASSUME NEW k \in Seq(Nat), Decreasing(k)
  PROVE  LET s == FirstRows(k)
         IN  /\ s \in Seq(Nat) /\ Decreasing(s)
             /\ \A x : Shows(s, x) <=> Shows(k, x) /\ x >= EndOf(s)
             /\ EndOf(s) = 0 \/ Shows(k, EndOf(s))
<1> PICK s : s = FirstRows(k)
  OBVIOUS
<1>1. ListLimit \in Nat \ {0}
  BY ListPagesAssumption
<1>2. Len(k) \in Nat /\ \A i \in 1..Len(k) : k[i] \in Nat
  OBVIOUS
<1>3. /\ s \in Seq(Nat) /\ Len(s) \in Nat /\ Len(s) <= Len(k)
      /\ \A i \in 1..Len(s) : s[i] = k[i]
      /\ Len(s) = Len(k) \/ Len(s) = ListLimit
  <2>1. CASE Len(k) > ListLimit
    <3>1. s = SubSeq(k, 1, ListLimit)
      BY <2>1 DEF FirstRows
    <3>2. /\ 1 \in 1..(Len(k) + 1) /\ ListLimit \in (1 - 1)..Len(k)
          /\ ListLimit - 1 + 1 = ListLimit /\ \A i \in 1..ListLimit : 1 + i - 1 = i
      BY <1>1, <1>2, <2>1
    <3>3. \A i \in 1..ListLimit : i \in 1..Len(k)
      BY <3>2
    <3>4. s = [i \in 1..ListLimit |-> k[i]]
      <4>1. SubSeq(k, 1, ListLimit) = [i \in 1..(1 + ListLimit - 1) |-> k[1 + i - 1]]
        BY <1>1, <1>2
      <4>2. 1 + ListLimit - 1 = ListLimit
        BY <1>1
      <4> QED
        BY <3>1, <3>2, <4>1, <4>2
    <3>5. s \in Seq(Nat) /\ Len(s) = ListLimit
      BY <1>1, <1>2, <3>3, <3>4
    <3> QED
      BY <1>1, <1>2, <2>1, <3>4, <3>5
  <2>2. CASE ~(Len(k) > ListLimit)
    BY <1>2, <2>2 DEF FirstRows
  <2> QED
    BY <2>1, <2>2
<1>4. Decreasing(s)
  BY <1>2, <1>3 DEF Decreasing
<1>5. CASE Len(s) = ListLimit
  <2>1. EndOf(s) = k[Len(s)] /\ Len(s) \in 1..Len(s) /\ Len(s) \in 1..Len(k)
    BY <1>1, <1>2, <1>3, <1>5 DEF EndOf
  <2>2. \A i \in 1..Len(k) : k[i] >= k[Len(s)] <=> i <= Len(s)
    <3>1. \A i \in 1..Len(k) : i < Len(s) \/ i = Len(s) \/ i > Len(s)
      BY <1>2, <1>3
    <3>2. \A i \in 1..Len(k) : i < Len(s) => k[i] > k[Len(s)]
      BY <2>1 DEF Decreasing
    <3>3. \A i \in 1..Len(k) : i > Len(s) => k[Len(s)] > k[i]
      BY <1>2, <1>3, <2>1 DEF Decreasing
    <3> QED
      BY <1>2, <1>3, <2>1, <3>1, <3>2, <3>3
  <2>3. \A i \in 1..Len(k) : i <= Len(s) => i \in 1..Len(s)
    BY <1>2, <1>3
  <2>4. \A x : Shows(s, x) <=> Shows(k, x) /\ x >= EndOf(s)
    <3>1. ASSUME NEW x, Shows(s, x)
          PROVE  Shows(k, x) /\ x >= EndOf(s)
      <4>1. PICK i \in 1..Len(s) : s[i] = x
        BY <3>1 DEF Shows, Among
      <4>2. i \in 1..Len(k) /\ k[i] = x
        BY <1>2, <1>3, <4>1
      <4>3. i <= Len(s)
        BY <1>3
      <4> QED
        BY <2>1, <2>2, <4>2, <4>3 DEF Shows, Among
    <3>2. ASSUME NEW x, Shows(k, x), x >= EndOf(s)
          PROVE  Shows(s, x)
      <4>1. PICK i \in 1..Len(k) : k[i] = x
        BY <3>2 DEF Shows, Among
      <4>2. i \in 1..Len(s)
        BY <2>1, <2>2, <2>3, <3>2, <4>1
      <4> QED
        BY <1>3, <4>1, <4>2 DEF Shows, Among
    <3> QED
      BY <3>1, <3>2
  <2>5. Shows(k, EndOf(s))
    BY <2>1 DEF Shows, Among
  <2> QED
    BY <1>3, <1>4, <2>4, <2>5
<1>6. CASE Len(s) # ListLimit
  <2>1. Len(s) = Len(k) /\ EndOf(s) = 0
    BY <1>3, <1>6 DEF EndOf
  <2>2. \A x : Shows(s, x) <=> Shows(k, x)
    BY <1>3, <2>1 DEF Shows, Among
  <2>3. \A x : Shows(k, x) => x >= 0
    BY <1>2 DEF Shows, Among
  <2> QED
    BY <1>3, <1>4, <2>1, <2>2, <2>3
<1> QED
  BY <1>5, <1>6

(* What is listed, and what is known of it.                                *)
LEMMA ListedIs ==
  ASSUME TablesInv
  PROVE  IsListing(Listed(rows))
<1> DEFINE all == [i \in 1..created |-> created + 1 - i]
<1>1. created \in Nat /\ rows \subseteq 1..created
  BY DEF TablesInv
<1>2. /\ all \in Seq(Nat) /\ Len(all) = created
      /\ \A i \in 1..created : all[i] = created + 1 - i
  BY <1>1
<1>3. Decreasing(all)
  BY <1>1, <1>2 DEF Decreasing
<1>4. \A x : Among(all, Len(all), x) <=> x \in 1..created
  <2>1. \A x \in 1..created : created + 1 - x \in 1..created /\ all[created + 1 - x] = x
    BY <1>1, <1>2
  <2>2. \A i \in 1..created : all[i] \in 1..created
    BY <1>1, <1>2
  <2> QED
    BY <1>2, <2>1, <2>2 DEF Among
<1>5. Listed(rows) = FirstRows(Kept(all, rows))
  BY DEF Listed
<1> HIDE DEF all
<1>6. /\ Kept(all, rows) \in Seq(Nat) /\ Decreasing(Kept(all, rows))
      /\ \A x : Shows(Kept(all, rows), x) <=> x \in rows
  BY <1>1, <1>2, <1>3, <1>4, KeptIs DEF Shows
<1>7. PICK s : s = Listed(rows)
  OBVIOUS
<1>8. /\ s \in Seq(Nat) /\ Decreasing(s)
      /\ \A x : Shows(s, x) <=> x \in rows /\ x >= EndOf(s)
      /\ EndOf(s) = 0 \/ EndOf(s) \in rows
  <2>1. PICK k \in Seq(Nat) : k = Kept(all, rows)
    BY <1>6
  <2>2. s = FirstRows(k) /\ Decreasing(k)
    BY <1>5, <1>6, <1>7, <2>1
  <2>3. /\ s \in Seq(Nat) /\ Decreasing(s)
        /\ \A x : Shows(s, x) <=> Shows(k, x) /\ x >= EndOf(s)
        /\ EndOf(s) = 0 \/ Shows(k, EndOf(s))
    BY <2>2, FirstRowsAre
  <2> QED
    BY <1>6, <2>1, <2>3
<1>9. Known(s)
  <2>1. \A i \in 1..Len(s) : Shows(s, s[i])
    BY DEF Shows, Among
  <2> QED
    BY <1>1, <1>8, <2>1 DEF Known
<1>10. EndOf(s) \in 0..created
  <2>1. PICK e : e = EndOf(s)
    OBVIOUS
  <2>2. e = 0 \/ e \in 1..created
    BY <1>1, <1>8, <2>1
  <2> QED
    BY <1>1, <2>1, <2>2
<1> QED
  BY <1>7, <1>8, <1>9, <1>10 DEF IsListing, IsCutAt

(* The changes made at the server and not yet shown, when one more request *)
(* is served.                                                              *)
LEMMA ServedChanges ==
  ASSUME NEW r \in requests, ~r.ok, NEW q, q.kind = r.kind, q.id = r.id,
         requests' = (requests \ {r}) \cup {q}
  PROVE  /\ \A x : AddedRow(x)' <=> AddedRow(x) \/ Adds(q, x)
         /\ \A x : GoneRow(x)' <=> GoneRow(x) \/ Drops(q, x)
         /\ TracksNow' <=> TracksNow
         /\ \A x : (\A p \in requests' : p.kind = "remove" => p.id # x)
                     <=> (\A p \in requests : p.kind = "remove" => p.id # x)
<1>1. \A x : AddedRow(x)' <=> AddedRow(x) \/ Adds(q, x)
  BY DEF AddedRow, Adds
<1>2. \A x : GoneRow(x)' <=> GoneRow(x) \/ Drops(q, x)
  BY DEF GoneRow, Drops
<1>3. TracksNow' <=> TracksNow
  BY DEF TracksNow
<1> QED
  BY <1>1, <1>2, <1>3

LEMMA ServeStep ==
  ASSUME PagesInv, Serve
  PROVE  PagesInv'
<1>0. TablesInv /\ RequestsInv /\ AloneInv /\ MakesInv /\ AgreeInv
  BY DEF PagesInv
<1>1. PICK r \in requests : ~r.served /\ (WebhookRoutes(r) \/ KeyRoutes(r) \/ WalletRoutes(r))
  BY DEF Serve
<1>2. UNCHANGED <<listPage, list, error, creating, sent, doubt, staleRows, pageEnd>>
  BY DEF Serve, formVars, listHistory
<1>3. r \in ListRequest /\ Fits(r) /\ ~r.ok
  BY <1>0, <1>1 DEF RequestsInv, Fits
<1>4. created \in Nat /\ rows \subseteq 1..created
  BY <1>0 DEF TablesInv
<1>5. CASE GetRows(r)
  <2>0. PICK q : q = [r EXCEPT !.served = TRUE, !.ok = TRUE, !.answer = Listed(rows)]
    OBVIOUS
  <2>1. /\ r.kind = "list" /\ requests' = (requests \ {r}) \cup {q}
        /\ UNCHANGED <<rows, created>>
    BY <2>0, <1>5 DEF GetRows, Served
  <2>2. IsListing(Listed(rows)) /\ Listed(rows) \in Seq(Nat)
    BY <1>0, ListedIs DEF IsListing, Known
  <2>3. /\ q \in ListRequest /\ q.kind = r.kind /\ q.id = r.id /\ q.alone = r.alone
        /\ q.served /\ q.ok /\ q.answer = Listed(rows)
    BY <1>3, <2>0, <2>2 DEF ListRequest
  <2>4. Fits(q)'
    BY <1>2, <1>3, <2>1, <2>2, <2>3 DEF Fits, IsListing, Known
  <2>5. IsListing(q.answer)'
    BY <2>1, <2>2, <2>3 DEF IsListing, Known, IsCutAt, Shows, Among, EndOf, Decreasing
  <2>6. RequestsInv' /\ AloneInv' /\ MakesInv'
    BY <1>0, <1>2, <1>4, <2>1, <2>3, <2>4, <2>5, ReplaceKeeps
  <2>7. TablesInv'
    BY <1>0, <1>2, <2>1 DEF TablesInv, Known
  <2>8. AgreeInv'
    <3>1. \A x : ~Adds(q, x) /\ ~Drops(q, x)
      BY <2>1, <2>3 DEF Adds, Drops
    <3>2. /\ \A x : (AddedRow(x)' <=> AddedRow(x)) /\ (GoneRow(x)' <=> GoneRow(x))
          /\ TracksNow' <=> TracksNow
          /\ \A x : (\A p \in requests' : p.kind = "remove" => p.id # x)
                      <=> (\A p \in requests : p.kind = "remove" => p.id # x)
      BY <1>3, <2>1, <2>3, <3>1, ServedChanges
    <3> QED
      BY <1>0, <1>2, <2>1, <3>2 DEF AgreeInv, InStep, Known, Meets
  <2> QED
    BY <2>6, <2>7, <2>8 DEF PagesInv
<1>6. CASE PostRow(r)
  <2>0. PICK q : q = [r EXCEPT !.served = TRUE, !.ok = TRUE, !.answer = <<created + 1>>]
    OBVIOUS
  <2>1. /\ r.kind = "create" /\ requests' = (requests \ {r}) \cup {q}
        /\ created' = created + 1 /\ rows' = rows \cup {created + 1}
    BY <2>0, <1>6 DEF PostRow, Served
  <2>2. /\ <<created + 1>> \in Seq(Nat) /\ Len(<<created + 1>>) = 1
        /\ <<created + 1>>[1] = created + 1
    BY <1>4
  <2>3. /\ q \in ListRequest /\ q.kind = r.kind /\ q.id = r.id /\ q.alone = r.alone
        /\ q.served /\ q.ok /\ q.answer = <<created + 1>>
    BY <1>3, <2>0, <2>2 DEF ListRequest
  <2>4. created' \in Nat /\ created <= created' /\ created + 1 \in 1..created'
    BY <1>4, <2>1
  <2>5. Known(q.answer)'
    BY <2>2, <2>3, <2>4 DEF Known
  <2>6. Fits(q)'
    BY <1>3, <2>1, <2>2, <2>3, <2>5 DEF Fits
  <2>7. RequestsInv' /\ AloneInv' /\ MakesInv'
    BY <1>0, <1>2, <2>1, <2>3, <2>4, <2>6, ReplaceKeeps
  <2>8. Known(list) => Known(list)'
    BY <1>2, <1>4, <2>4, KnownGrows DEF Known
  <2>9. TablesInv'
    BY <1>0, <1>2, <1>4, <2>1, <2>4, <2>8 DEF TablesInv
  <2>10. AgreeInv'
    <3>1. \A x : (Adds(q, x) <=> x = created + 1) /\ ~Drops(q, x) /\ ~AddedRow(x)
      <4>1. \A x : ~AddedRow(x)
        BY <1>0, <1>3, <2>1 DEF MakesInv, Makes, AddedRow, Adds
      <4> QED
        BY <2>1, <2>2, <2>3, <4>1 DEF Adds, Drops
    <3>2. /\ \A x : (AddedRow(x)' <=> x = created + 1) /\ (GoneRow(x)' <=> GoneRow(x))
          /\ TracksNow' <=> TracksNow
          /\ \A x : (\A p \in requests' : p.kind = "remove" => p.id # x)
                      <=> (\A p \in requests : p.kind = "remove" => p.id # x)
      BY <1>3, <2>1, <2>3, <3>1, ServedChanges
    <3>3. \A p \in requests : p.kind = "remove" => p.id # created + 1
      BY <1>0, <1>4 DEF RequestsInv, Fits
    <3>4. ~GoneRow(created + 1)
      BY <3>3 DEF GoneRow, Drops
    <3>5. InStep => InStep'
      <4>1. SUFFICES ASSUME InStep
                     PROVE  InStep'
        OBVIOUS
      <4>2. \A y : Shows(list, y) => y \in 1..created
        BY <4>1 DEF InStep, Known, Shows, Among
      <4>3. \A y : Shows(list, y) => y < created + 1
        BY <1>4, <4>2
      <4>4. \A x : Shows(list, x)' <=> Shows(list, x)
        BY <1>2 DEF Shows, Among
      <4>5. Known(list)' /\ Decreasing(list)'
        BY <1>2, <2>8, <4>1 DEF InStep, Decreasing
      <4>6. \A x : x \notin staleRows => Meets(x)'
        <5>1. pageEnd \in Int /\ created + 1 >= pageEnd
          BY <1>4, <4>1 DEF InStep
        <5> QED
          BY <1>2, <2>1, <3>1, <3>2, <3>4, <4>1, <4>4, <5>1 DEF InStep, Meets
      <4>8. pageEnd' \in 0..created'
        BY <1>2, <1>4, <2>4, <4>1 DEF InStep
      <4>7. \A x : AddedRow(x)' =>
              /\ \A y : Shows(list, y)' => y < x
              /\ \A p \in requests' : p.kind = "remove" => p.id # x
        BY <3>2, <3>3, <4>3, <4>4
      <4> QED
        BY <1>2, <4>5, <4>6, <4>7, <4>8 DEF InStep
    <3> QED
      BY <1>0, <1>2, <3>2, <3>5 DEF AgreeInv
  <2> QED
    BY <2>7, <2>9, <2>10 DEF PagesInv
<1>7. CASE DeleteRow(r)
  <2>00. PICK ok \in BOOLEAN : ok = (r.id \in rows)
    <3>1. (r.id \in rows) \in BOOLEAN
      BY SMT
    <3> QED
      BY <3>1
  <2>0. PICK q : q = [r EXCEPT !.served = TRUE, !.ok = ok, !.answer = <<>>]
    OBVIOUS
  <2>1. /\ r.kind = "remove" /\ requests' = (requests \ {r}) \cup {q}
        /\ rows' = rows \ {r.id} /\ UNCHANGED created
    BY <2>0, <2>00, <1>7 DEF DeleteRow, Served
  <2>2. <<>> \in Seq(Nat) /\ Len(<<>>) = 0
    BY EmptySeq
  <2>3. /\ q \in ListRequest /\ q.kind = r.kind /\ q.id = r.id /\ q.alone = r.alone
        /\ q.served /\ q.ok = ok /\ q.answer = <<>>
    BY <1>3, <2>0, <2>00, <2>2 DEF ListRequest
  <2>4. Known(q.answer)'
    BY <2>2, <2>3 DEF Known
  <2>5. Fits(q)'
    BY <1>3, <2>1, <2>3, <2>4 DEF Fits
  <2>6. RequestsInv' /\ AloneInv' /\ MakesInv'
    BY <1>0, <1>2, <1>4, <2>1, <2>3, <2>5, ReplaceKeeps
  <2>7. TablesInv'
    BY <1>0, <1>2, <2>1 DEF TablesInv, Known
  <2>8. AgreeInv'
    <3>1. \A x : ~Adds(q, x) /\ (Drops(q, x) <=> r.id \in rows /\ x = r.id)
      BY <2>00, <2>1, <2>3 DEF Adds, Drops
    <3>2. /\ \A x : AddedRow(x)' <=> AddedRow(x)
          /\ \A x : GoneRow(x)' <=> GoneRow(x) \/ (r.id \in rows /\ x = r.id)
          /\ TracksNow' <=> TracksNow
          /\ \A x : (\A p \in requests' : p.kind = "remove" => p.id # x)
                      <=> (\A p \in requests : p.kind = "remove" => p.id # x)
      BY <1>3, <2>1, <2>3, <3>1, ServedChanges
    <3>3. InStep => InStep'
      BY <1>2, <2>1, <3>2 DEF InStep, Known, Meets
    <3> QED
      BY <1>0, <1>2, <3>2, <3>3 DEF AgreeInv
  <2> QED
    BY <2>6, <2>7, <2>8 DEF PagesInv
<1>8. CASE r.kind = "create" /\ Served(r, FALSE, <<>>) /\ UNCHANGED serverRows
  <2>0. PICK q : q = [r EXCEPT !.served = TRUE, !.ok = FALSE, !.answer = <<>>]
    OBVIOUS
  <2>1. requests' = (requests \ {r}) \cup {q} /\ UNCHANGED <<rows, created>>
    BY <2>0, <1>8 DEF Served, serverRows
  <2>2. <<>> \in Seq(Nat) /\ Len(<<>>) = 0
    BY EmptySeq
  <2>3. /\ q \in ListRequest /\ q.kind = r.kind /\ q.id = r.id /\ q.alone = r.alone
        /\ q.served /\ ~q.ok /\ q.answer = <<>>
    BY <1>3, <2>0, <2>2 DEF ListRequest
  <2>4. Fits(q)'
    BY <1>3, <1>8, <2>2, <2>3 DEF Fits, Known
  <2>5. RequestsInv' /\ AloneInv' /\ MakesInv'
    BY <1>0, <1>2, <1>4, <2>1, <2>3, <2>4, ReplaceKeeps
  <2>6. TablesInv'
    BY <1>0, <1>2, <2>1 DEF TablesInv, Known
  <2>7. AgreeInv'
    <3>1. \A x : ~Adds(q, x) /\ ~Drops(q, x)
      BY <2>3 DEF Adds, Drops
    <3>2. /\ \A x : (AddedRow(x)' <=> AddedRow(x)) /\ (GoneRow(x)' <=> GoneRow(x))
          /\ TracksNow' <=> TracksNow
          /\ \A x : (\A p \in requests' : p.kind = "remove" => p.id # x)
                      <=> (\A p \in requests : p.kind = "remove" => p.id # x)
      BY <1>3, <2>1, <2>3, <3>1, ServedChanges
    <3> QED
      BY <1>0, <1>2, <2>1, <3>2 DEF AgreeInv, InStep, Known, Meets
  <2> QED
    BY <2>5, <2>6, <2>7 DEF PagesInv
<1> QED
  BY <1>1, <1>5, <1>6, <1>7, <1>8 DEF WebhookRoutes, KeyRoutes, WalletRoutes, RevokeKey

(* What is not yet shown does not change with what is not a change.        *)
Quiet(r) == \A x : ~Adds(r, x) /\ ~Drops(r, x)
Unshown ==
  /\ \A x : AddedRow(x)' <=> AddedRow(x)
  /\ \A x : GoneRow(x)' <=> GoneRow(x)

LEMMA QuietChanges ==
  ASSUME NEW r \in requests, Quiet(r), NEW q, Quiet(q), q.kind = r.kind, q.id = r.id,
         requests' = (requests \ {r}) \cup {q}
  PROVE  /\ Unshown
         /\ TracksNow => TracksNow'
         /\ \A p \in requests' : \E o \in requests : p.kind = o.kind /\ p.id = o.id
<1>1. \A x : AddedRow(x)' <=> AddedRow(x)
  BY DEF AddedRow, Adds, Quiet
<1>2. \A x : GoneRow(x)' <=> GoneRow(x)
  BY DEF GoneRow, Drops, Quiet
<1>3. TracksNow => TracksNow'
  BY DEF TracksNow
<1> QED
  BY <1>1, <1>2, <1>3 DEF Unshown

LEMMA DropChanges ==
  ASSUME NEW r \in requests, Quiet(r), requests' = requests \ {r}
  PROVE  /\ Unshown
         /\ r.kind # "list" /\ TracksNow => TracksNow'
         /\ \A p \in requests' : p \in requests
<1>1. \A x : AddedRow(x)' <=> AddedRow(x)
  BY DEF AddedRow, Adds, Quiet
<1>2. \A x : GoneRow(x)' <=> GoneRow(x)
  BY DEF GoneRow, Drops, Quiet
<1>3. r.kind # "list" /\ TracksNow => TracksNow'
  BY DEF TracksNow
<1> QED
  BY <1>1, <1>2, <1>3 DEF Unshown

LEMMA SendChanges ==
  ASSUME requests \in SUBSET ListRequest, NEW q, Quiet(q),
         requests' = NotAlone(requests) \cup {q}
  PROVE  /\ Unshown
         /\ TracksNow => TracksNow'
         /\ \A p \in requests' : p = q \/ \E o \in requests : p.kind = o.kind /\ p.id = o.id
<1>1. /\ \A p \in NotAlone(requests) : \E r \in requests : Same(p, r)
      /\ \A r \in requests : \E p \in NotAlone(requests) : Same(p, r)
  BY NotAloneIs
<1>2. \A x : AddedRow(x)' <=> AddedRow(x)
  BY <1>1 DEF AddedRow, Adds, Quiet, Same
<1>3. \A x : GoneRow(x)' <=> GoneRow(x)
  BY <1>1 DEF GoneRow, Drops, Quiet, Same
<1>4. TracksNow => TracksNow'
  BY <1>1 DEF TracksNow, Same
<1>5. \A p \in requests' : p = q \/ \E o \in requests : p.kind = o.kind /\ p.id = o.id
  BY <1>1 DEF Same
<1> QED
  BY <1>2, <1>3, <1>4, <1>5 DEF Unshown

(* Rows that change are stale.                                             *)
Elsewhere(x) ==
  /\ (x \in rows)' <=> x \in rows
  /\ AddedRow(x)' <=> AddedRow(x)
  /\ GoneRow(x)' <=> GoneRow(x)
OnlyStaleChange ==
  /\ \A x : x \notin staleRows' => x \notin staleRows /\ Elsewhere(x)
  /\ \A x : AddedRow(x)' => AddedRow(x)
NoneRemovesNew == \A x : AddedRow(x) => \A p \in requests' : p.kind = "remove" => p.id # x

LEMMA InStepStays ==
  ASSUME InStep, created \in Nat, created' \in Nat, created <= created',
         UNCHANGED <<list, pageEnd>>, OnlyStaleChange, NoneRemovesNew
  PROVE  InStep'
<1>1. Known(list)' /\ Decreasing(list)'
  <2>1. Known(list) /\ Decreasing(list)
    BY DEF InStep
  <2> QED
    BY <2>1, KnownGrows DEF Known, Decreasing
<1>2. pageEnd' \in 0..created'
  BY DEF InStep
<1>3. \A x : Shows(list, x)' <=> Shows(list, x)
  BY DEF Shows, Among
<1>4. \A x : x \notin staleRows' => Meets(x)'
  BY <1>3 DEF InStep, OnlyStaleChange, Elsewhere, Meets
<1>5. \A x : AddedRow(x)' =>
        /\ \A y : Shows(list, y)' => y < x
        /\ \A r \in requests' : r.kind = "remove" => r.id # x
  BY <1>3 DEF InStep, OnlyStaleChange, NoneRemovesNew
<1> QED
  BY <1>1, <1>2, <1>4, <1>5 DEF InStep

LEMMA InStepStill ==
  ASSUME InStep, created \in Nat, Unshown, UNCHANGED <<rows, created, list, listHistory>>,
         NoneRemovesNew
  PROVE  InStep'
<1>1. OnlyStaleChange
  BY DEF OnlyStaleChange, Elsewhere, Unshown, listHistory
<1> QED
  BY <1>1, InStepStays DEF listHistory

LEMMA TablesStill ==
  ASSUME TablesInv, UNCHANGED <<listPage, rows, created, list>>, sent' \in Nat
  PROVE  TablesInv'
<1>1. Known(list) => Known(list)'
  BY DEF Known
<1> QED
  BY <1>1 DEF TablesInv

-----------------------------------------------------------------------------
LEMMA OtherClientStep ==
  ASSUME PagesInv, OtherClient
  PROVE  PagesInv'
<1>0. TablesInv /\ RequestsInv /\ AloneInv /\ MakesInv
  BY DEF PagesInv
<1>1. /\ requests' = NotAlone(requests) /\ requests \in SUBSET ListRequest
      /\ UNCHANGED <<listPage, list, error, creating, sent, doubt, pageEnd>>
  BY <1>0 DEF OtherClient, formVars, RequestsInv
<1>2. /\ created \in Nat /\ created' \in Nat /\ created <= created'
      /\ rows' \subseteq 1..created' /\ staleRows \subseteq staleRows'
      /\ \A x : x \notin staleRows' => ((x \in rows)' <=> x \in rows)
  <2>1. created \in Nat /\ rows \subseteq 1..created
    BY <1>0 DEF TablesInv
  <2>2. CASE /\ created' = created + 1 /\ rows' = rows \cup {created + 1}
             /\ staleRows' = staleRows \cup {created + 1}
    BY <2>1, <2>2
  <2>3. CASE /\ created' = created
             /\ \E id \in rows : rows' = rows \ {id} /\ staleRows' = staleRows \cup {id}
    BY <2>1, <2>3
  <2> QED
    BY <2>2, <2>3 DEF OtherClient
<1>3. TablesInv'
  <2>1. Known(list) => Known(list)'
    BY <1>1, <1>2, KnownGrows DEF Known
  <2> QED
    BY <1>0, <1>1, <1>2, <2>1 DEF TablesInv
<1>4. /\ NotAlone(requests) \subseteq ListRequest
      /\ \A p \in NotAlone(requests) :
           ~p.alone /\ \E r \in requests : p = [r EXCEPT !.alone = FALSE] /\ Same(p, r)
  BY <1>1, NotAloneIs
<1>5. RequestsInv'
  <2>1. \A p \in requests : Fits(p)'
    BY <1>0, <1>1, <1>2, FitsStill DEF RequestsInv
  <2>2. \A p \in NotAlone(requests) : Fits(p)'
    BY <1>4, <2>1 DEF Fits, Same, Known
  <2> QED
    BY <1>1, <1>4, <2>2 DEF RequestsInv
<1>6. AloneInv'
  BY <1>1, <1>4 DEF AloneInv
<1>7. MakesInv'
  <2>1. \A p \in NotAlone(requests) :
          \E r \in requests : p = [r EXCEPT !.alone = FALSE] /\ (Makes(p) <=> Makes(r))
    BY <1>4 DEF Same, Makes
  <2>2. ASSUME NEW p \in NotAlone(requests), NEW o \in NotAlone(requests), Makes(p), Makes(o)
        PROVE  p = o
    <3>1. PICK r \in requests : p = [r EXCEPT !.alone = FALSE] /\ Makes(r)
      BY <2>1, <2>2
    <3>2. PICK v \in requests : o = [v EXCEPT !.alone = FALSE] /\ Makes(v)
      BY <2>1, <2>2
    <3>3. r = v
      BY <1>0, <3>1, <3>2 DEF MakesInv
    <3> QED
      BY <3>1, <3>2, <3>3
  <2>3. ~creating' => \A p \in NotAlone(requests) : ~Makes(p)
    BY <1>0, <1>1, <2>1 DEF MakesInv
  <2> QED
    BY <1>1, <2>2, <2>3 DEF MakesInv
<1>8. AgreeInv'
  <2>1. /\ \A p \in requests' : \E r \in requests : Same(p, r)
        /\ \A r \in requests : \E p \in requests' : Same(p, r)
    BY <1>1, NotAloneIs
  <2>2. \A x : AddedRow(x)' <=> AddedRow(x)
    BY <2>1 DEF AddedRow, Adds, Same
  <2>3. \A x : GoneRow(x)' <=> GoneRow(x)
    BY <2>1 DEF GoneRow, Drops, Same
  <2>4. TracksNow => TracksNow'
    BY <2>1 DEF TracksNow, Same
  <2>5. OnlyStaleChange
    BY <1>2, <2>2, <2>3 DEF OnlyStaleChange, Elsewhere
  <2>6. InStep => NoneRemovesNew
    BY <2>1 DEF InStep, NoneRemovesNew, Same
  <2>7. InStep => InStep'
    BY <1>1, <1>2, <2>5, <2>6, InStepStays
  <2>8. AgreeInv
    BY DEF PagesInv
  <2> QED
    BY <1>1, <2>4, <2>7, <2>8 DEF AgreeInv
<1> QED
  BY <1>3, <1>5, <1>6, <1>7, <1>8 DEF PagesInv

LEMMA LostStep ==
  ASSUME PagesInv, NEW r \in requests, Lost(r)
  PROVE  PagesInv'
<1>0. TablesInv /\ RequestsInv /\ AloneInv /\ MakesInv /\ AgreeInv
  BY DEF PagesInv
<1>1. PICK q : q = [r EXCEPT !.served = TRUE, !.ok = FALSE]
  OBVIOUS
<1>2. /\ requests' = (requests \ {r}) \cup {q}
      /\ UNCHANGED <<listPage, rows, created, list, error, creating, sent>>
      /\ UNCHANGED <<doubt, pageEnd>> /\ staleRows' = staleRows \cup Changed(r)
  BY <1>1 DEF Lost, serverRows, formVars
<1>3. r \in ListRequest /\ Fits(r) /\ (r.ok => r.served)
  BY <1>0 DEF RequestsInv, Fits
<1>4. /\ q \in ListRequest /\ q.kind = r.kind /\ q.id = r.id /\ q.alone = r.alone
      /\ q.served /\ ~q.ok /\ q.answer = r.answer
  BY <1>1, <1>3 DEF ListRequest
<1>5. created \in Nat /\ sent \in Nat
  BY <1>0 DEF TablesInv
<1>6. Fits(q)'
  <2>1. Fits(r)'
    BY <1>2, <1>3, <1>5, FitsStill
  <2> QED
    BY <1>4, <2>1 DEF Fits, Known
<1>7. RequestsInv' /\ AloneInv' /\ MakesInv'
  BY <1>0, <1>2, <1>4, <1>5, <1>6, ReplaceKeeps
<1>8. TablesInv'
  BY <1>0, <1>2, <1>5, TablesStill
<1>9. AgreeInv'
  <2>1. Quiet(q)
    BY <1>4 DEF Quiet, Adds, Drops
  <2>2. \A x : x \notin Changed(r) => ~Adds(r, x) /\ ~Drops(r, x)
    <3>1. SUFFICES ASSUME r.ok, r.kind \in {"create", "remove"}
                   PROVE  \A x : x \notin Changed(r) => ~Adds(r, x) /\ ~Drops(r, x)
      BY <1>3 DEF ListRequest, Adds, Drops
    <3>2. Answered(r)
      BY <1>3, <3>1 DEF Answered
    <3>3. CASE r.kind = "remove"
      <4>1. Changed(r) = {r.id}
        BY <3>2, <3>3 DEF Changed
      <4> QED
        BY <3>3, <4>1 DEF Adds, Drops
    <3>4. CASE r.kind = "create"
      <4>1. Changed(r) = Range(r.answer)
        BY <3>2, <3>4 DEF Changed
      <4>2. PICK s \in Seq(Nat) : s = r.answer /\ Len(s) = 1
        BY <1>3, <3>1, <3>4 DEF Fits, Known
      <4>3. s[1] \in Range(s)
        BY <4>2, RangeIndexed
      <4> QED
        BY <3>4, <4>1, <4>2, <4>3 DEF Adds, Drops
    <3> QED
      BY <3>1, <3>3, <3>4
  <2>3. \A x : AddedRow(x)' <=> \E p \in requests : p # r /\ Adds(p, x)
    BY <1>2, <2>1 DEF AddedRow, Adds, Quiet
  <2>4. \A x : GoneRow(x)' <=> \E p \in requests : p # r /\ Drops(p, x)
    BY <1>2, <2>1 DEF GoneRow, Drops, Quiet
  <2>5. OnlyStaleChange
    <3>1. \A x : x \notin staleRows' => x \notin staleRows /\ x \notin Changed(r)
      BY <1>2
    <3>2. \A x : x \notin Changed(r) => (AddedRow(x)' <=> AddedRow(x)) /\ (GoneRow(x)' <=> GoneRow(x))
      BY <2>2, <2>3, <2>4 DEF AddedRow, GoneRow
    <3>3. \A x : AddedRow(x)' => AddedRow(x)
      BY <2>3 DEF AddedRow
    <3> QED
      BY <1>2, <3>1, <3>2, <3>3 DEF OnlyStaleChange, Elsewhere
  <2>6. InStep => NoneRemovesNew
    BY <1>2, <1>4 DEF InStep, NoneRemovesNew
  <2>7. TracksNow => TracksNow'
    BY <1>2, <1>4 DEF TracksNow
  <2>8. InStep => InStep'
    BY <1>2, <1>5, <2>5, <2>6, InStepStays
  <2> QED
    BY <1>0, <1>2, <2>7, <2>8 DEF AgreeInv
<1> QED
  BY <1>7, <1>8, <1>9 DEF PagesInv

(* A request that is sent while the lists are as they were.                *)
LEMMA SendStep ==
  ASSUME PagesInv, NEW kind \in {"list", "create", "remove"}, NEW id \in Int, Send(kind, id),
         UNCHANGED <<listPage, serverRows, list, listHistory>>, error => error' \/ listPage # "wallets",
         kind = "list" => id = 0, kind = "create" => id = 0 /\ ~creating /\ creating',
         creating => creating',
         kind = "remove" => id \in 1..created /\ Shows(list, id) /\ listPage # "wallets"
  PROVE  PagesInv'
<1>0. TablesInv /\ RequestsInv /\ AloneInv /\ MakesInv /\ AgreeInv
  BY DEF PagesInv
<1>1. created \in Nat /\ sent \in Nat /\ UNCHANGED <<rows, created>>
  BY <1>0 DEF TablesInv, serverRows
<1>2. PICK alone \in BOOLEAN : alone = (requests = {})
  <2>1. (requests = {}) \in BOOLEAN
    BY SMT
  <2> QED
    BY <2>1
<1>3. PICK q : q = Request(kind, id)
  OBVIOUS
<1>4. sent' = sent + 1 /\ requests' = NotAlone(requests) \cup {q}
  BY <1>3 DEF Send
<1>5. /\ q \in ListRequest /\ q.kind = kind /\ q.id = id /\ q.alone = alone
      /\ ~q.ok /\ q.answer = <<>>
  <2>1. <<>> \in Seq(Nat)
    BY EmptySeq
  <2> QED
    BY <1>1, <1>2, <1>3, <2>1 DEF Request, ListRequest
<1>6. Fits(q)
  <2>1. Known(<<>>)
    BY EmptySeq DEF Known
  <2> QED
    BY <1>5, <2>1 DEF Fits
<1>7. /\ Makes(q) => creating' /\ \A p \in requests : ~Makes(p)
      /\ q.alone => requests = {}
  <2>1. Makes(q) => kind = "create"
    BY <1>1, <1>5 DEF Makes, Tracking, TablesInv
  <2> QED
    BY <1>0, <1>2, <1>5, <2>1 DEF MakesInv
<1>8. RequestsInv' /\ AloneInv' /\ MakesInv'
  BY <1>0, <1>1, <1>4, <1>5, <1>6, <1>7, SendKeeps
<1>9. TablesInv'
  BY <1>0, <1>1, <1>4, TablesStill
<1>10. AgreeInv'
  <2>1. Quiet(q)
    BY <1>5 DEF Quiet, Adds, Drops
  <2>2. /\ Unshown
        /\ TracksNow => TracksNow'
        /\ \A p \in requests' : p = q \/ \E o \in requests : p.kind = o.kind /\ p.id = o.id
    BY <1>0, <1>4, <2>1, SendChanges DEF RequestsInv
  <2>3. InStep => InStep'
    <3>1. SUFFICES ASSUME InStep
                   PROVE  InStep'
      OBVIOUS
    <3>2. ASSUME NEW x, AddedRow(x), NEW p \in requests', p.kind = "remove"
          PROVE  p.id # x
      <4>1. /\ \A y : Shows(list, y) => y < x
            /\ \A o \in requests : o.kind = "remove" => o.id # x
        BY <3>1, <3>2 DEF InStep
      <4>2. CASE p = q
        <5>1. id \in 1..created /\ id < x
          BY <1>5, <3>2, <4>1, <4>2
        <5> QED
          BY <1>5, <4>2, <5>1
      <4>3. CASE p # q
        BY <2>2, <3>2, <4>1, <4>3
      <4> QED
        BY <4>2, <4>3
    <3> QED
      BY <1>1, <2>2, <3>1, <3>2, InStepStill DEF NoneRemovesNew
  <2> QED
    BY <1>0, <2>2, <2>3 DEF AgreeInv, listHistory
<1> QED
  BY <1>8, <1>9, <1>10 DEF PagesInv

(* No request, and the lists as they were.                                 *)
LEMMA LookStep ==
  ASSUME PagesInv, UNCHANGED <<listPage, serverRows, list, listHistory, creating, requests, sent>>,
         error => error' \/ listPage # "wallets"
  PROVE  PagesInv'
<1>0. TablesInv /\ RequestsInv /\ AloneInv /\ MakesInv /\ AgreeInv
  BY DEF PagesInv
<1>1. UNCHANGED <<rows, created>> /\ created \in Nat
  BY <1>0 DEF serverRows, TablesInv
<1>2. TablesInv'
  BY <1>0, <1>1, TablesStill DEF TablesInv
<1>3. RequestsInv'
  <2>1. \A r \in requests : Fits(r)'
    BY <1>0, <1>1, FitsStill DEF RequestsInv
  <2> QED
    BY <1>0, <2>1 DEF RequestsInv
<1>4. AloneInv'
  BY <1>0, <1>1 DEF AloneInv, IsListing, Known, Decreasing, Shows, Among, EndOf, IsCutAt
<1>5. MakesInv'
  BY <1>0 DEF MakesInv
<1>6. AgreeInv'
  <2>1. Unshown /\ (TracksNow' <=> TracksNow)
    BY DEF Unshown, AddedRow, GoneRow, TracksNow
  <2>2. InStep => InStep'
    <3>1. SUFFICES ASSUME InStep
                   PROVE  InStep'
      OBVIOUS
    <3>2. NoneRemovesNew
      BY <3>1 DEF InStep, NoneRemovesNew
    <3> QED
      BY <1>1, <2>1, <3>1, <3>2, InStepStill
  <2> QED
    BY <1>0, <2>1, <2>2 DEF AgreeInv, listHistory
<1> QED
  BY <1>2, <1>3, <1>4, <1>5, <1>6 DEF PagesInv

LEMMA ReloadStep ==
  ASSUME PagesInv, Reload
  PROVE  PagesInv'
<1>1. /\ Send("list", 0) /\ UNCHANGED <<listPage, serverRows, list, creating, listHistory>>
      /\ error => error' \/ listPage # "wallets"
  BY DEF Reload, LoadWebhooks, LoadKeys, LoadWallets, formVars
<1> QED
  BY <1>1, SendStep

LEMMA HandleCreateStep ==
  ASSUME PagesInv, HandleCreate
  PROVE  PagesInv'
<1>1. "submit" \in View /\ UNCHANGED <<listPage, serverRows, list, error, listHistory>>
  BY DEF HandleCreate
<1>2. ~creating
  <2>1. "submit" \in WebhooksView \/ "submit" \in KeysView => ~creating
    BY DEF WebhooksView, KeysView
  <2>2. "submit" \in WalletsView => ~creating
    BY DEF WalletsView
  <2>3. listPage \in {"webhooks", "keys", "wallets"}
    BY DEF PagesInv, TablesInv
  <2> QED
    BY <1>1, <2>1, <2>2, <2>3 DEF View
<1>3. CASE Submit
  <2>1. Send("create", 0) /\ creating'
    BY <1>3 DEF Submit
  <2> QED
    BY <1>1, <1>2, <2>1, SendStep
<1>4. CASE Invalid
  BY <1>1, <1>4, LookStep DEF Invalid
<1> QED
  BY <1>3, <1>4 DEF HandleCreate

LEMMA ToggleFormStep ==
  ASSUME PagesInv, ToggleForm
  PROVE  PagesInv'
BY LookStep DEF ToggleForm

LEMMA DismissStep ==
  ASSUME PagesInv, Dismiss
  PROVE  PagesInv'
<1>1. listPage # "wallets" \/ UNCHANGED error
  <2>1. listPage = "wallets" => "dismiss" \notin View
    BY DEF View, WalletsView
  <2> QED
    BY <2>1 DEF Dismiss
<1>2. error => error' \/ listPage # "wallets"
  BY <1>1
<1>3. UNCHANGED <<listPage, serverRows, list, listHistory, creating, requests, sent>>
  BY DEF Dismiss
<1> QED
  BY <1>2, <1>3, LookStep

LEMMA HandleRemoveStep ==
  ASSUME PagesInv, NEW id, HandleRemove(id)
  PROVE  PagesInv'
<1>1. /\ Send("remove", id) /\ id \in Range(list)
      /\ UNCHANGED <<listPage, serverRows, list, error, creating, listHistory>>
  BY DEF HandleRemove, formVars
<1>2. listPage # "wallets" /\ Known(list)
  BY DEF HandleRemove, HandleDelete, HandleRevoke, PagesInv, TablesInv
<1>3. id \in 1..created /\ Shows(list, id)
  <2>1. PICK i \in 1..Len(list) : list[i] = id
    BY <1>1, <1>2, RangeIndexed DEF Known
  <2> QED
    BY <1>2, <2>1 DEF Known, Shows, Among
<1>4. created \in Nat /\ id \in Int
  BY <1>3 DEF PagesInv, TablesInv
<1> QED
  BY <1>1, <1>2, <1>3, <1>4, SendStep

(* An answer that changes nothing of the lists.                            *)
LEMMA QuietStep ==
  ASSUME PagesInv, NEW r \in requests, Quiet(r), requests' = requests \ {r},
         UNCHANGED <<listPage, serverRows, list, sent, listHistory>>,
         creating => creating' \/ Makes(r),
         error' \/ (r.kind # "list" /\ (error => error' \/ listPage # "wallets"))
  PROVE  PagesInv'
<1>0. TablesInv /\ RequestsInv /\ AloneInv /\ MakesInv /\ AgreeInv
  BY DEF PagesInv
<1>1. UNCHANGED <<rows, created>> /\ sent \in Nat /\ created \in Nat
  BY <1>0 DEF serverRows, TablesInv
<1>2. RequestsInv' /\ AloneInv' /\ MakesInv'
  BY <1>0, <1>1, DropKeeps
<1>3. TablesInv'
  BY <1>0, <1>1, TablesStill
<1>4. AgreeInv'
  <2>1. /\ Unshown
        /\ r.kind # "list" /\ TracksNow => TracksNow'
        /\ \A p \in requests' : p \in requests
    BY DropChanges
  <2>2. InStep => InStep'
    <3>1. SUFFICES ASSUME InStep
                   PROVE  InStep'
      OBVIOUS
    <3>2. NoneRemovesNew
      BY <2>1, <3>1 DEF InStep, NoneRemovesNew
    <3> QED
      BY <1>1, <2>1, <3>1, <3>2, InStepStill
  <2> QED
    BY <1>0, <2>1, <2>2 DEF AgreeInv, listHistory
<1> QED
  BY <1>2, <1>3, <1>4 DEF PagesInv

LEMMA OnListStep ==
  ASSUME PagesInv, NEW r \in requests, OnList(r)
  PROVE  PagesInv'
<1>0. TablesInv /\ RequestsInv /\ AloneInv /\ MakesInv
  BY DEF PagesInv
<1>1. /\ r.kind = "list" /\ requests' = requests \ {r}
      /\ UNCHANGED <<listPage, serverRows, rows, created, sent>>
      /\ creating' = (creating /\ r.id # Tracking)
  BY DEF OnList, Arrives, serverRows
<1>2. creating => creating' \/ Makes(r)
  BY <1>1 DEF Makes
<1>3. CASE Answered(r)
  <2>1. list' = r.answer /\ doubt' = ~r.alone /\ pageEnd' = EndOf(r.answer)
    BY <1>3 DEF OnList
  <2>2. RequestsInv' /\ AloneInv' /\ MakesInv'
    BY <1>0, <1>1, <1>2, DropKeeps
  <2>3. Known(r.answer)
    BY <1>0 DEF RequestsInv, Fits
  <2>4. TablesInv'
    BY <1>0, <1>1, <2>1, <2>3 DEF TablesInv, Known
  <2>5. ASSUME ~doubt'
        PROVE  InStep'
    <3>1. r.alone
      BY <2>1, <2>5
    <3>2. requests = {r} /\ IsListing(r.answer)
      BY <1>0, <1>1, <1>3, <3>1 DEF AloneInv, Answered
    <3>3. requests' = {}
      BY <1>1, <3>2
    <3>4. \A x : ~AddedRow(x)' /\ ~GoneRow(x)'
      BY <3>3 DEF AddedRow, GoneRow
    <3>5. /\ Known(list)' /\ Decreasing(list)' /\ pageEnd' \in 0..created'
          /\ \A x : Shows(list, x)' <=> x \in rows' /\ x >= pageEnd'
      BY <1>1, <2>1, <3>2 DEF IsListing, Known, Decreasing, Shows, Among, IsCutAt
    <3> QED
      BY <3>4, <3>5 DEF InStep, Meets
  <2>6. AgreeInv'
    BY <2>5 DEF AgreeInv
  <2> QED
    BY <2>2, <2>4, <2>6 DEF PagesInv
<1>4. CASE ~Answered(r)
  <2>1. error' /\ UNCHANGED <<list, listHistory>>
    BY <1>4 DEF OnList
  <2>2. Quiet(r)
    BY <1>1 DEF Quiet, Adds, Drops
  <2> QED
    BY <1>1, <1>2, <2>1, <2>2, QuietStep
<1> QED
  BY <1>3, <1>4

(* The new row in front.                                                   *)
LEMMA PutInFront ==
  ASSUME PagesInv, NEW r \in requests, r.kind = "create", Answered(r), listPage # "wallets",
         requests' = requests \ {r}, list' = r.answer \o list,
         UNCHANGED <<listPage, serverRows, sent, listHistory>>
  PROVE  PagesInv'
<1>0. TablesInv /\ RequestsInv /\ AloneInv /\ MakesInv /\ AgreeInv
  BY DEF PagesInv
<1>1. UNCHANGED <<rows, created>> /\ created \in Nat
  BY <1>0 DEF serverRows, TablesInv
<1>2. RequestsInv' /\ AloneInv' /\ MakesInv'
  BY <1>0, <1>1, DropKeeps DEF Makes
<1>3. PICK s : s = r.answer
  OBVIOUS
<1>4. Known(s) /\ Len(s) = 1
  BY <1>0, <1>3 DEF RequestsInv, Fits, Answered
<1>5. PICK a \in 1..created : a = s[1]
  BY <1>4 DEF Known
<1>6. Known(list) /\ list \in Seq(Nat) /\ Len(list) \in Nat
  BY <1>0 DEF TablesInv, Known
<1>7. PICK t : t = s \o list
  OBVIOUS
<1>8. /\ t \in Seq(Nat) /\ Len(t) = Len(list) + 1 /\ t[1] = a
      /\ \A i \in 1..Len(list) : t[i + 1] = list[i]
  <2>1. s \in Seq(Nat) /\ list \in Seq(Nat)
    BY <1>4, <1>6 DEF Known
  <2>2. /\ t \in Seq(Nat) /\ Len(t) = Len(s) + Len(list)
        /\ \A i \in 1..Len(t) : t[i] = IF i <= Len(s) THEN s[i] ELSE list[i - Len(s)]
    BY <1>7, <2>1, ConcatProperties
  <2> QED
    BY <1>4, <1>5, <1>6, <2>2
<1>9. \A i \in 1..Len(t) : i = 1 \/ (i - 1 \in 1..Len(list) /\ t[i] = list[i - 1])
  <2>1. ASSUME NEW i \in 1..Len(t), i # 1
        PROVE  i - 1 \in 1..Len(list) /\ t[i] = list[i - 1]
    <3>1. i - 1 \in 1..Len(list) /\ (i - 1) + 1 = i
      BY <1>6, <1>8, <2>1
    <3>2. t[(i - 1) + 1] = list[i - 1]
      BY <1>8, <3>1
    <3> QED
      BY <3>1, <3>2
  <2> QED
    BY <2>1
<1>10. \A x : Shows(t, x) <=> x = a \/ Shows(list, x)
  <2>1. \A i \in 1..Len(list) : i + 1 \in 1..Len(t)
    BY <1>6, <1>8
  <2>2. 1 \in 1..Len(t)
    BY <1>6, <1>8
  <2> QED
    BY <1>8, <1>9, <2>1, <2>2 DEF Shows, Among
<1>11. Known(t)
  BY <1>1, <1>5, <1>6, <1>8, <1>9 DEF Known
<1>12. TablesInv'
  <2>1. Known(list)'
    BY <1>1, <1>3, <1>7, <1>11 DEF Known
  <2> QED
    BY <1>0, <1>1, <2>1 DEF TablesInv
<1>13. ASSUME InStep
       PROVE  InStep'
  <2>1. \A x : AddedRow(x) <=> x = a
    <3>1. \A q \in requests : q.kind = "create" => q = r
      BY <1>0 DEF MakesInv, Makes
    <3> QED
      BY <1>3, <1>5, <3>1 DEF AddedRow, Adds, Answered
  <2>2. \A x : ~AddedRow(x)'
    BY <1>0 DEF AddedRow, Adds, MakesInv, Makes
  <2>3. \A x : GoneRow(x)' <=> GoneRow(x)
    BY DEF GoneRow, Drops
  <2>4. \A y : Shows(list, y) => y < a
    BY <1>13, <2>1 DEF InStep
  <2>5. Decreasing(t)
    <3>1. SUFFICES ASSUME NEW i \in 1..Len(t), NEW j \in 1..Len(t), i < j
                   PROVE  t[i] > t[j]
      BY DEF Decreasing
    <3>2. j - 1 \in 1..Len(list) /\ t[j] = list[j - 1]
      BY <1>6, <1>8, <1>9, <3>1
    <3>3. CASE i = 1
      <4>1. t[j] < a
        BY <2>4, <3>2 DEF Shows, Among
      <4>2. t[j] \in Int
        BY <1>8
      <4> QED
        BY <1>8, <3>3, <4>1, <4>2
    <3>4. CASE i # 1
      <4>1. i - 1 \in 1..Len(list) /\ t[i] = list[i - 1] /\ i - 1 < j - 1
        BY <1>6, <1>8, <1>9, <3>1, <3>4
      <4> QED
        BY <1>13, <3>2, <4>1 DEF InStep, Decreasing
    <3> QED
      BY <3>3, <3>4
  <2>6. list' = t
    BY <1>3, <1>7
  <2>7. /\ Known(list)' /\ Decreasing(list)'
        /\ \A x : Shows(list, x)' <=> Shows(t, x)
    BY <1>1, <1>11, <2>5, <2>6 DEF Known, Decreasing, Shows, Among
  <2>8. \A x : x \notin staleRows' => Meets(x)'
    BY <1>1, <1>10, <1>13, <2>1, <2>2, <2>3, <2>7 DEF InStep, Meets, listHistory
  <2>9. pageEnd' \in 0..created'
    BY <1>1, <1>13 DEF InStep, listHistory
  <2> QED
    BY <2>2, <2>7, <2>8, <2>9 DEF InStep
<1>14. AgreeInv'
  BY <1>0, <1>13 DEF AgreeInv, listHistory
<1> QED
  BY <1>2, <1>12, <1>14 DEF PagesInv

(* A row less.                                                             *)
LEMMA TakeOut ==
  ASSUME PagesInv, NEW r \in requests, r.kind = "remove", Answered(r), listPage # "wallets",
         requests' = requests \ {r}, list' = Without(r.id),
         UNCHANGED <<listPage, serverRows, sent, listHistory, creating>>
  PROVE  PagesInv'
<1>0. TablesInv /\ RequestsInv /\ AloneInv /\ MakesInv /\ AgreeInv
  BY DEF PagesInv
<1>1. UNCHANGED <<rows, created>> /\ created \in Nat
  BY <1>0 DEF serverRows, TablesInv
<1>2. RequestsInv' /\ AloneInv' /\ MakesInv'
  BY <1>0, <1>1, DropKeeps DEF Makes
<1>3. Known(list) /\ list \in Seq(Nat)
  BY <1>0 DEF TablesInv, Known
<1>4. PICK t : t = Without(r.id)
  OBVIOUS
<1>5. /\ t \in Seq(Nat) /\ (Decreasing(list) => Decreasing(t))
      /\ \A x : Shows(t, x) <=> x # r.id /\ Shows(list, x)
  <2>1. \A x : x \in Range(list) <=> Shows(list, x)
    BY <1>3, RangeIndexed DEF Shows, Among
  <2>2. PICK S : S = Range(list) \ {r.id}
    OBVIOUS
  <2>3. t = Kept(list, S)
    BY <1>4, <2>2 DEF Without
  <2>4. /\ t \in Seq(Nat) /\ (Decreasing(list) => Decreasing(t))
        /\ \A x : Among(t, Len(t), x) <=> x \in S /\ Among(list, Len(list), x)
    BY <1>3, <2>3, KeptIs
  <2> QED
    BY <2>1, <2>2, <2>4 DEF Shows
<1>6. Known(t)
  <2>1. \A i \in 1..Len(t) : Shows(t, t[i])
    BY DEF Shows, Among
  <2>2. \A x : Shows(list, x) => x \in 1..created
    BY <1>3 DEF Known, Shows, Among
  <2> QED
    BY <1>5, <2>1, <2>2 DEF Known
<1>7. TablesInv'
  <2>1. Known(list)'
    BY <1>1, <1>4, <1>6 DEF Known
  <2> QED
    BY <1>0, <1>1, <2>1 DEF TablesInv
<1>8. ASSUME InStep
      PROVE  InStep'
  <2>1. \A x : AddedRow(x)' <=> AddedRow(x)
    BY DEF AddedRow, Adds
  <2>2. GoneRow(r.id)
    BY DEF GoneRow, Drops, Answered
  <2>3. \A x : x # r.id => (GoneRow(x)' <=> GoneRow(x))
    BY DEF GoneRow, Drops
  <2>4. ~AddedRow(r.id)
    BY <1>8 DEF InStep
  <2>5. /\ Known(list)' /\ Decreasing(list)'
        /\ \A x : Shows(list, x)' <=> x # r.id /\ Shows(list, x)
    BY <1>1, <1>4, <1>5, <1>6, <1>8 DEF InStep, Known, Decreasing, Shows, Among
  <2>6. \A x : x \notin staleRows' => Meets(x)'
    BY <1>1, <1>8, <2>1, <2>2, <2>3, <2>4, <2>5 DEF InStep, Meets, listHistory
  <2>7. \A x : AddedRow(x)' =>
          /\ \A y : Shows(list, y)' => y < x
          /\ \A q \in requests' : q.kind = "remove" => q.id # x
    BY <1>8, <2>1, <2>5 DEF InStep
  <2>8. pageEnd' \in 0..created'
    BY <1>1, <1>8 DEF InStep, listHistory
  <2> QED
    BY <2>5, <2>6, <2>7, <2>8 DEF InStep
<1>9. AgreeInv'
  BY <1>0, <1>8 DEF AgreeInv, listHistory
<1> QED
  BY <1>2, <1>7, <1>9 DEF PagesInv

LEMMA OnCreatedStep ==
  ASSUME PagesInv, NEW r \in requests, OnCreated(r)
  PROVE  PagesInv'
<1>0. TablesInv /\ RequestsInv /\ AloneInv /\ MakesInv /\ AgreeInv
  BY DEF PagesInv
<1>1. /\ r.kind = "create" /\ Makes(r) /\ UNCHANGED <<listPage, serverRows, error, listHistory>>
      /\ CreatedWebhook(r) \/ CreatedKey(r) \/ Tracked(r)
  BY DEF OnCreated, Makes
<1>2. ~Answered(r) => Quiet(r)
  <2>1. r.ok => r.served
    BY <1>0 DEF RequestsInv, Fits
  <2> QED
    BY <1>1, <2>1 DEF Quiet, Adds, Drops, Answered
<1>3. CASE CreatedWebhook(r) \/ CreatedKey(r)
  <2>1. /\ listPage # "wallets" /\ requests' = requests \ {r} /\ UNCHANGED sent
        /\ IF Answered(r) THEN list' = r.answer \o list ELSE UNCHANGED list
    BY <1>3 DEF CreatedWebhook, CreatedKey, Arrives
  <2>2. CASE Answered(r)
    BY <1>1, <2>1, <2>2, PutInFront
  <2>3. CASE ~Answered(r)
    BY <1>1, <1>2, <2>1, <2>3, QuietStep
  <2> QED
    BY <2>2, <2>3
<1>4. CASE Tracked(r)
  <2>1. listPage = "wallets" /\ UNCHANGED list
    BY <1>4 DEF Tracked
  <2>2. CASE ~Answered(r)
    <3>1. requests' = requests \ {r} /\ UNCHANGED sent
      BY <1>4, <2>2 DEF Tracked
    <3> QED
      BY <1>1, <1>2, <2>1, <2>2, <3>1, QuietStep
  <2>3. CASE Answered(r)
    <3>1. PICK alone \in BOOLEAN : alone = (requests = {r})
      <4>1. (requests = {r}) \in BOOLEAN
        BY SMT
      <4> QED
        BY <4>1
    <3>2. PICK q : q = [Request("list", Tracking) EXCEPT !.alone = alone]
      OBVIOUS
    <3>3. /\ requests' = NotAlone(requests \ {r}) \cup {q} /\ sent' = sent + 1
          /\ UNCHANGED <<creating, rows, created>>
      BY <1>1, <1>4, <2>3, <3>1, <3>2 DEF Tracked, serverRows
    <3>4. /\ q \in ListRequest /\ q.kind = "list" /\ q.id = Tracking /\ q.alone = alone
          /\ ~q.ok /\ q.answer = <<>>
      <4>1. <<>> \in Seq(Nat) /\ sent \in Nat
        BY <1>0, EmptySeq DEF TablesInv
      <4>2. q = [kind |-> "list", id |-> -1, n |-> sent + 1, served |-> FALSE, ok |-> FALSE,
                 answer |-> <<>>, alone |-> alone]
        BY <3>2, Zenon DEF Request, Tracking
      <4> QED
        BY <4>1, <4>2 DEF ListRequest, Tracking
    <3>5. Fits(q)
      <4>1. Known(<<>>)
        BY EmptySeq DEF Known
      <4> QED
        BY <2>1, <3>4, <4>1 DEF Fits
    <3>6. /\ q.alone => requests \ {r} = {}
          /\ creating' /\ \A p \in requests \ {r} : ~Makes(p)
      BY <1>0, <1>1, <3>1, <3>3, <3>4 DEF MakesInv
    <3>7. RequestsInv' /\ AloneInv' /\ MakesInv'
      <4>1. requests \ {r} \in SUBSET requests
        OBVIOUS
      <4> QED
        BY <1>0, <1>1, <3>3, <3>4, <3>5, <3>6, <4>1, SendKeeps
    <3>8. TablesInv'
      BY <1>0, <1>1, <2>1, <3>3, TablesStill DEF TablesInv
    <3>9. TracksNow'
      BY <3>3, <3>4 DEF TracksNow
    <3>10. AgreeInv'
      BY <1>1, <2>1, <3>9 DEF AgreeInv, listHistory
    <3> QED
      BY <3>7, <3>8, <3>10 DEF PagesInv
  <2> QED
    BY <2>2, <2>3
<1> QED
  BY <1>1, <1>3, <1>4

LEMMA OnRemovedStep ==
  ASSUME PagesInv, NEW r \in requests, OnRemoved(r)
  PROVE  PagesInv'
<1>1. /\ r.kind = "remove" /\ requests' = requests \ {r}
      /\ UNCHANGED <<listPage, serverRows, creating, sent, listHistory>>
      /\ listPage # "wallets" /\ (Deleted(r) \/ Revoked(r))
  BY DEF OnRemoved, Arrives, Deleted, Revoked, formVars
<1>2. CASE Answered(r)
  <2>1. list' = Without(r.id)
    BY <1>1, <1>2 DEF Deleted, Revoked
  <2> QED
    BY <1>1, <1>2, <2>1, TakeOut
<1>3. CASE ~Answered(r)
  <2>1. UNCHANGED list
    BY <1>1, <1>3 DEF Deleted, Revoked
  <2>2. Quiet(r)
    <3>1. r.ok => r.served
      BY DEF PagesInv, RequestsInv, Fits
    <3> QED
      BY <1>1, <1>3, <3>1 DEF Quiet, Adds, Drops, Answered
  <2> QED
    BY <1>1, <2>1, <2>2, QuietStep
<1> QED
  BY <1>2, <1>3

LEMMA PagesStart ==
  ASSUME ListPagesInit
  PROVE  PagesInv
<1>1. PICK q : q = [kind |-> "list", id |-> 0, n |-> 1, served |-> FALSE, ok |-> FALSE,
                    answer |-> <<>>, alone |-> TRUE]
  OBVIOUS
<1>2. /\ requests = {q} /\ doubt /\ created \in Nat /\ rows = 1..created /\ sent = 1
      /\ listPage \in {"webhooks", "keys", "wallets"}
      /\ listPage # "wallets" => list = <<>>
  BY <1>1 DEF ListPagesInit
<1>3. <<>> \in Seq(Nat) /\ Known(<<>>)
  BY EmptySeq DEF Known
<1>4. /\ q \in ListRequest /\ q.kind = "list" /\ q.id = 0 /\ ~q.ok /\ q.answer = <<>>
  BY <1>1, <1>3 DEF ListRequest
<1>5. TablesInv
  BY <1>2, <1>3 DEF TablesInv
<1>6. RequestsInv
  BY <1>2, <1>3, <1>4 DEF RequestsInv, Fits
<1>7. AloneInv /\ MakesInv
  BY <1>2, <1>4 DEF AloneInv, MakesInv, Makes, Tracking
<1>8. AgreeInv
  BY <1>2 DEF AgreeInv
<1> QED
  BY <1>5, <1>6, <1>7, <1>8 DEF PagesInv

LEMMA PagesStep ==
  ASSUME PagesInv, [ListPagesNext]_listPageVars
  PROVE  PagesInv'
<1>1. CASE Serve
  BY <1>1, ServeStep
<1>2. CASE OtherClient
  BY <1>2, OtherClientStep
<1>3. CASE Reload
  BY <1>3, ReloadStep
<1>4. CASE ToggleForm
  BY <1>4, ToggleFormStep
<1>5. CASE Dismiss
  BY <1>5, DismissStep
<1>6. CASE HandleCreate
  BY <1>6, HandleCreateStep
<1>7. ASSUME NEW id \in 1..MaxRows, HandleRemove(id)
      PROVE  PagesInv'
  BY <1>7, HandleRemoveStep
<1>8. ASSUME NEW r \in requests, Lost(r)
      PROVE  PagesInv'
  BY <1>8, LostStep
<1>9. ASSUME NEW r \in requests, ListAnswers(r)
      PROVE  PagesInv'
  BY <1>9, OnListStep, OnCreatedStep, OnRemovedStep DEF ListAnswers
<1>10. CASE UNCHANGED listPageVars
  BY <1>10, LookStep DEF listPageVars, formVars
<1> QED
  BY <1>1, <1>2, <1>3, <1>4, <1>5, <1>6, <1>7, <1>8, <1>9, <1>10 DEF ListPagesNext

LEMMA PagesHold ==
  ASSUME PagesInv
  PROVE  ListsAgree
<1>1. SUFFICES ASSUME requests = {}, ~doubt, ~(listPage = "wallets" /\ error)
               PROVE  /\ Range(list) \ staleRows = {x \in rows : x >= pageEnd} \ staleRows
                      /\ Decreasing(list)
  BY DEF ListsAgree, Decreasing
<1>2. InStep
  BY <1>1 DEF PagesInv, AgreeInv, TracksNow
<1>3. \A x : x \notin staleRows => (x \in rows /\ x >= pageEnd <=> Shows(list, x))
  BY <1>1, <1>2 DEF InStep, Meets, AddedRow, GoneRow
<1>4. \A x : x \in Range(list) <=> Shows(list, x)
  BY <1>2, RangeIndexed DEF InStep, Known, Shows, Among
<1> QED
  BY <1>2, <1>3, <1>4 DEF InStep

-----------------------------------------------------------------------------
(* The application                                                         *)
AppInv ==
  /\ WalletInv /\ LogInv /\ BalanceInv /\ SettingsInv /\ StatsInv /\ SearchInv
  /\ ViewportInv /\ LInv /\ SeriesInv /\ FeedInv /\ PagesInv

LEMMA AppStarts == Init => AppInv
BY WalletStarts, LogStarts, BalanceStarts, SettingsStarts, StatsStarts, SearchStarts,
   ListStarts, LimiterStarts, SeriesStarts, FeedStarts, PagesStart
   DEF Init, AppInv

(* A step of the application is a step of each part, or leaves it alone.   *)
LEMMA PartSteps ==
  ASSUME [Next]_vars
  PROVE  /\ [WalletNext]_walletVars /\ [LogNext]_logVars /\ [BalanceNext]_balanceVars
         /\ [SettingsNext]_settingsVars /\ [StatsNext]_statsVars /\ [SearchNext]_searchVars
         /\ [ListNext]_listVars /\ [LimiterNext]_limiterVars /\ [SeriesNext]_seriesVars
         /\ [FeedNext]_feedVars /\ [ListPagesNext]_listPageVars
<1>1. CASE Next
  BY <1>1 DEF Next
<1>2. CASE UNCHANGED vars
  BY <1>2 DEF vars
<1> QED
  BY <1>1, <1>2

LEMMA AppStep == AppInv /\ [Next]_vars => AppInv'
<1> SUFFICES ASSUME AppInv, [Next]_vars
             PROVE  AppInv'
  OBVIOUS
<1>1. WalletInv' /\ LogInv' /\ BalanceInv'
  BY PartSteps, WalletStep, LogStep, BalanceStep DEF AppInv
<1>2. SettingsInv' /\ StatsInv' /\ SearchInv'
  BY PartSteps, SettingsStep, StatsStep, SearchStep DEF AppInv
<1>3. ViewportInv' /\ LInv' /\ SeriesInv' /\ FeedInv' /\ PagesInv'
  BY PartSteps, ListStep, LimiterStep, SeriesStep, FeedStep, PagesStep DEF AppInv
<1> QED
  BY <1>1, <1>2, <1>3 DEF AppInv

LEMMA AppHolds == AppInv => AnswersFit /\ PaidAsShown /\ LimiterBudget /\ FeedShows /\ ListsAgree
BY SearchHolds, StatsHolds, SettingsHolds, LogHolds, BalanceHolds, SeriesFitHolds,
   WalletHolds, BudgetHolds, RowsHold, FeedHoldsThen, PagesHold
   DEF AppInv, AnswersFit, FeedShows

(* What the pages show and the routes of figures answer fits the question: *)
(* search results are matches of the query, each page as the server ranks  *)
(* them, repeated or missed only among rows of one timestamp.              *)
THEOREM AnswersFitTheQuestion == Spec => []AnswersFit
BY AppStarts, AppStep, AppHolds, PTL DEF Spec

(* The dialogs report a payment as what it became, or leave it unsure.     *)
THEOREM ReportedAsPaid == Spec => []PaidAsShown
BY AppStarts, AppStep, AppHolds, PTL DEF Spec

(* The limiter's budget, in the application.                               *)
THEOREM BudgetKeptByAll == Spec => []LimiterBudget
BY AppStarts, AppStep, AppHolds, PTL DEF Spec

(* The feed keeps what arrives, in order, announces it once, mirrors it in *)
(* storage and renders the rows in view; the server counts its connections.*)
THEOREM FeedKept == Spec => []FeedShows
BY AppStarts, AppStep, AppHolds, PTL DEF Spec

(* A page with a list of rows shows those of the server down to where its  *)
(* list was cut, each once and the newest first, when all is answered and  *)
(* the list was not read beside a change; but for the rows that another    *)
(* client, or a change whose answer was lost, changed since.               *)
THEOREM ListsKept == Spec => []ListsAgree
BY AppStarts, AppStep, AppHolds, PTL DEF Spec

=============================================================================
