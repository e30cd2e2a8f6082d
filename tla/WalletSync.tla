------------------------------- MODULE WalletSync ------------------------------
(***************************************************************************)
(* The sync tracker of monitored wallets (monitored-sync.ts), called by    *)
(* the event processor for the account of every stored event, several jobs *)
(* at a time, and the route that registers wallets (api/v1/wallets).       *)
(*                                                                         *)
(* A call takes its clock before its first await.  It waits for the set of *)
(* monitored keys when that is old, for the wallets of the account, and    *)
(* for each update in turn; other calls run meanwhile on the same caches.  *)
(***************************************************************************)
EXTENDS Integers, FiniteSets

CONSTANTS
  Wallets, Accounts,
  AccountOf,       \* AccountOf[w]: the public key a wallet watches
  Calls,           \* calls that can be in progress together: the concurrency
  ReloadInterval,  \* publicKeyReloadMs, in ticks
  WriteInterval,   \* writeIntervalMs, in ticks
  MaxClock,        \* bound: ticks
  MaxMishaps       \* bound: lookups and updates that throw, and restarts

ASSUME WalletAssumption ==
  /\ AccountOf \in [Wallets -> Accounts]
  /\ ReloadInterval \in Nat /\ WriteInterval \in Nat \ {0}
  /\ MaxClock \in Nat /\ MaxMishaps \in Nat

Never == -1

VARIABLES
  clock,
  monitored,       \* rows of MonitoredWallet
  lastSyncedAt,    \* of a row; Never is null
  publicKeys, keysLoadedAt,    \* the cached keys; Never: not loaded
  lastWriteAt,     \* the throttle
  call,            \* call[h]: where a call is, its clock, account and wallets left
  active,          \* <<account, time>> of every stored event (for the properties)
  written,         \* <<wallet, time, call number>> of every update issued since the
                   \* process started (same)
  mishaps

walletVars == <<clock, monitored, lastSyncedAt, publicKeys, keysLoadedAt, lastWriteAt, call,
                active, written, mishaps>>

NoCall == [at |-> "idle", current |-> 0, account |-> "none", rest |-> {}, wallet |-> "none"]

WalletInit ==
  /\ clock = 0 /\ monitored = {} /\ mishaps = 0
  /\ lastSyncedAt = [w \in Wallets |-> Never]
  /\ publicKeys = {} /\ keysLoadedAt = Never
  /\ lastWriteAt = [w \in Wallets |-> Never]
  /\ call = [h \in Calls |-> NoCall]
  /\ active = {} /\ written = {}

WalletTick ==
  /\ clock < MaxClock /\ clock' = clock + 1
  /\ UNCHANGED <<monitored, lastSyncedAt, publicKeys, keysLoadedAt, lastWriteAt, call, active,
                 written, mishaps>>

(* POST /api/v1/wallets; a second one for the same row answers CONFLICT.   *)
Register(w) ==
  /\ w \notin monitored /\ monitored' = monitored \cup {w}
  /\ UNCHANGED <<clock, lastSyncedAt, publicKeys, keysLoadedAt, lastWriteAt, call, active,
                 written, mishaps>>

SetCall(h, c) == call' = [call EXCEPT ![h] = c]

(* An event of account a is stored: with fresh keys the call goes on at    *)
(* once, and an account that is not among them ends it.                    *)
HandleAccountActivity(h, a) ==
  /\ call[h] = NoCall
  /\ active' = active \cup {<<a, clock>>}
  /\ LET fresh == keysLoadedAt # Never /\ clock - keysLoadedAt < ReloadInterval
         went(at) == [at |-> at, current |-> clock, account |-> a,
                      rest |-> {}, wallet |-> "none"] IN
     SetCall(h, IF ~fresh THEN went("loading")
                ELSE IF a \in publicKeys THEN went("looking") ELSE NoCall)
  /\ UNCHANGED <<clock, monitored, lastSyncedAt, publicKeys, keysLoadedAt, lastWriteAt,
                 written, mishaps>>

(* Loads that overlap overwrite each other, the time included.             *)
KeysLoaded(h) ==
  /\ call[h].at = "loading"
  /\ publicKeys' = {AccountOf[w] : w \in monitored}
  /\ keysLoadedAt' = call[h].current
  /\ SetCall(h, IF call[h].account \in publicKeys' THEN [call[h] EXCEPT !.at = "looking"]
                ELSE NoCall)
  /\ UNCHANGED <<clock, monitored, lastSyncedAt, lastWriteAt, active, written, mishaps>>

Watching(a) == {w \in monitored : AccountOf[w] = a}

WalletsFound(h) ==
  /\ call[h].at = "looking"
  /\ LET ws == Watching(call[h].account) IN
     SetCall(h, IF ws = {} THEN NoCall ELSE [call[h] EXCEPT !.at = "choosing", !.rest = ws])
  /\ UNCHANGED <<clock, monitored, lastSyncedAt, publicKeys, keysLoadedAt, lastWriteAt, active,
                 written, mishaps>>

Throttled(w, current) ==
  lastWriteAt[w] # Never /\ current - lastWriteAt[w] < WriteInterval

Left(h, w) ==
  IF call[h].rest = {w} THEN NoCall
  ELSE [call[h] EXCEPT !.at = "choosing", !.rest = @ \ {w}, !.wallet = "none"]

(* The loop takes the next wallet: it is passed over, or stamped and then  *)
(* written.                                                                *)
Skip(h, w) ==
  /\ call[h].at = "choosing" /\ w \in call[h].rest /\ Throttled(w, call[h].current)
  /\ SetCall(h, Left(h, w))
  /\ UNCHANGED <<clock, monitored, lastSyncedAt, publicKeys, keysLoadedAt, lastWriteAt, active,
                 written, mishaps>>

(* Seeded bug: the stamp is left to the end of the update. *)
IssueUnstamped(h, w) ==
  /\ call[h].at = "choosing" /\ w \in call[h].rest /\ ~Throttled(w, call[h].current)
  /\ SetCall(h, [call[h] EXCEPT !.at = "writing", !.wallet = w])
  /\ written' = written \cup {<<w, call[h].current, h>>}
  /\ UNCHANGED <<clock, monitored, lastSyncedAt, publicKeys, keysLoadedAt, lastWriteAt, active,
                 mishaps>>

Issue(h, w) ==
  /\ call[h].at = "choosing" /\ w \in call[h].rest /\ ~Throttled(w, call[h].current)
  /\ lastWriteAt' = [lastWriteAt EXCEPT ![w] = call[h].current]
  /\ SetCall(h, [call[h] EXCEPT !.at = "writing", !.wallet = w])
  /\ written' = written \cup {<<w, call[h].current, h>>}
  /\ UNCHANGED <<clock, monitored, lastSyncedAt, publicKeys, keysLoadedAt, active, mishaps>>

Updated(h) ==
  /\ call[h].at = "writing"
  /\ lastSyncedAt' = [lastSyncedAt EXCEPT ![call[h].wallet] = call[h].current]
  /\ SetCall(h, Left(h, call[h].wallet))
  /\ UNCHANGED <<clock, monitored, publicKeys, keysLoadedAt, lastWriteAt, active, written, mishaps>>

(* A lookup or an update throws: the call ends, the stamp stays, and the   *)
(* wallets left are not written for this event.                            *)
CallThrows(h) ==
  /\ call[h].at \in {"loading", "looking", "writing"}
  /\ mishaps < MaxMishaps /\ mishaps' = mishaps + 1
  /\ SetCall(h, NoCall)
  /\ UNCHANGED <<clock, monitored, lastSyncedAt, publicKeys, keysLoadedAt, lastWriteAt, active, written>>

(* The ingester restarts with empty caches.                                *)
WalletRestart ==
  /\ mishaps < MaxMishaps /\ mishaps' = mishaps + 1
  /\ publicKeys' = {} /\ keysLoadedAt' = Never
  /\ lastWriteAt' = [w \in Wallets |-> Never]
  /\ call' = [h \in Calls |-> NoCall]
  /\ written' = {}
  /\ UNCHANGED <<clock, monitored, lastSyncedAt, active>>

WalletNext ==
  \/ WalletTick
  \/ \E w \in Wallets : Register(w)
  \/ \E h \in Calls, a \in Accounts : HandleAccountActivity(h, a)
  \/ \E h \in Calls : KeysLoaded(h)
  \/ \E h \in Calls : WalletsFound(h)
  \/ \E h \in Calls, w \in Wallets : Skip(h, w)
  \/ \E h \in Calls, w \in Wallets : Issue(h, w)
  \/ \E h \in Calls : Updated(h)
  \/ \E h \in Calls : CallThrows(h)
  \/ WalletRestart

WalletSpec == WalletInit /\ [][WalletNext]_walletVars

-----------------------------------------------------------------------------
(* Properties *)

CallTypes ==
  [at : {"idle", "loading", "looking", "choosing", "writing"}, current : 0..MaxClock,
   account : Accounts \cup {"none"}, rest : SUBSET Wallets, wallet : Wallets \cup {"none"}]

WalletTypeOK ==
  /\ clock \in 0..MaxClock /\ mishaps \in 0..MaxMishaps
  /\ monitored \subseteq Wallets /\ publicKeys \subseteq Accounts
  /\ lastSyncedAt \in [Wallets -> {Never} \cup 0..MaxClock]
  /\ lastWriteAt \in [Wallets -> {Never} \cup 0..MaxClock]
  /\ keysLoadedAt \in {Never} \cup 0..MaxClock
  /\ call \in [Calls -> CallTypes]
  /\ active \subseteq Accounts \X (0..MaxClock)
  /\ written \subseteq Wallets \X (0..MaxClock) \X Calls

(* A time a user sees as last synced is one at which an event of that      *)
(* wallet's account was stored, though the call that writes it has passed  *)
(* two stale reads; and "each wallet's lastSyncedAt is written at most     *)
(* once" per interval, though calls run together and an older one may come *)
(* to its write later.                                                     *)
WalletWritesSpaced ==
  /\ WalletTypeOK
  /\ \A w \in Wallets : lastSyncedAt[w] # Never => <<AccountOf[w], lastSyncedAt[w]>> \in active
  /\ \A x, y \in written :
       (x # y /\ x[1] = y[1]) =>
         \/ x[2] >= y[2] + WriteInterval
         \/ y[2] >= x[2] + WriteInterval
=============================================================================
