------------------------------ MODULE BalanceDisplay ------------------------------
(***************************************************************************)
(* The two displays of an account's balance: that of the connected wallet  *)
(* (BalanceDisplay, fetched when it connects, after a transaction, every   *)
(* 30 s and by a button) and that of a monitored wallet (WalletBalance,    *)
(* every 30 s, with a retry).  Neither orders its loads: of loads that     *)
(* overlap the last answer stays, an old balance perhaps, and a failure    *)
(* hides what a success has brought (doubt names these).                   *)
(***************************************************************************)
EXTENDS Integers, FiniteSets

CONSTANTS
  Unknown,           \* no balance yet
  MaxFunds,          \* bound: the account's funds
  MaxBalanceLoads    \* bound: loads

ASSUME BalanceAssumption ==
  Unknown \notin Nat /\ MaxFunds \in Nat /\ MaxBalanceLoads \in Nat

VARIABLES
  display,         \* "connected" or "monitored"
  accountFunds,           \* network: the account's balance
  present,         \* the wallet is connected (a monitored one always is)
  balance, balanceError, balanceLoading,
  balanceLoads,    \* loads under way, [n, value], the value when it was read
  balanceSent,
  balanceDoubt            \* history: loads overlapped, or the funds changed since

balanceVars == <<display, accountFunds, present, balance, balanceError, balanceLoading,
                 balanceLoads, balanceSent, balanceDoubt>>
shownVars == <<balance, balanceError, balanceLoading, balanceSent>>

BalanceInit ==
  /\ display \in {"connected", "monitored"} /\ accountFunds \in 0..MaxFunds
  /\ present = (display = "monitored")
  /\ balance = Unknown /\ balanceError = FALSE /\ balanceDoubt = TRUE
  /\ balanceLoading = present /\ balanceSent = IF present THEN 1 ELSE 0
  /\ balanceLoads = IF present THEN {[n |-> 1, value |-> Unknown]} ELSE {}

(* What the display shows, and whether its button may be pressed.          *)
BalanceView ==
  IF ~present THEN "nothing" ELSE IF balanceLoading THEN "spinner"
  ELSE IF balanceError THEN "error" ELSE "balance"
Shown == IF balance = Unknown THEN 0 ELSE balance

Fetch ==
  /\ balanceSent < MaxBalanceLoads /\ balanceSent' = balanceSent + 1
  /\ balanceLoading' = TRUE /\ balanceError' = FALSE
  /\ balanceDoubt' = (balanceLoads # {})
  /\ balanceLoads' = balanceLoads \cup {[n |-> balanceSent + 1, value |-> Unknown]}
  /\ UNCHANGED balance

(* fetchBalance: the interval, the button, the end of a transaction.       *)
FetchBalance ==
  /\ display = "connected" /\ present /\ Fetch
  /\ UNCHANGED <<display, accountFunds, present>>

HasLoaded == \A l \in balanceLoads : l.n # 1

(* refresh: the interval, once the first answer is in, and the retry.      *)
RefreshBalance ==
  /\ display = "monitored" /\ HasLoaded /\ Fetch
  /\ UNCHANGED <<display, accountFunds, present>>

(* The display is mounted with the connection and unmounted with its end.  *)
WalletAppears ==
  /\ display = "connected" /\ ~present /\ present' = TRUE /\ Fetch
  /\ UNCHANGED <<display, accountFunds>>
WalletLeaves ==
  /\ display = "connected" /\ present /\ present' = FALSE
  /\ balance' = Unknown /\ balanceError' = FALSE /\ balanceLoading' = FALSE
  /\ balanceLoads' = {}
  /\ UNCHANGED <<display, accountFunds, balanceSent, balanceDoubt>>

(* Horizon reads the account; the answer or a failure arrives.             *)
ReadBalance(l) ==
  /\ l \in balanceLoads /\ l.value = Unknown
  /\ balanceLoads' = (balanceLoads \ {l}) \cup {[l EXCEPT !.value = accountFunds]}
  /\ UNCHANGED <<display, accountFunds, present, shownVars, balanceDoubt>>

OnBalance(l) ==
  /\ l \in balanceLoads /\ balanceLoads' = balanceLoads \ {l}
  /\ balanceLoading' = FALSE
  /\ \/ l.value # Unknown /\ balance' = l.value
        /\ balanceError' = (balanceError /\ display = "connected")
     \/ balanceError' = TRUE /\ UNCHANGED balance
  /\ UNCHANGED <<display, accountFunds, present, balanceSent, balanceDoubt>>

FundsChange ==
  /\ accountFunds' \in (0..MaxFunds) \ {accountFunds} /\ balanceDoubt' = TRUE
  /\ UNCHANGED <<display, present, shownVars, balanceLoads>>

BalanceNext ==
  \/ FetchBalance \/ RefreshBalance \/ WalletAppears \/ WalletLeaves \/ FundsChange
  \/ \E l \in balanceLoads : ReadBalance(l) \/ OnBalance(l)

-----------------------------------------------------------------------------
(* With no load under way and no doubt, what is shown is the account's     *)
(* balance or an error, through disconnections and reconnections.          *)
BalanceFits ==
  (balanceLoads = {} /\ ~balanceDoubt) =>
    /\ BalanceView # "spinner"
    /\ BalanceView = "balance" => Shown = accountFunds
=============================================================================
