------------------------------- MODULE WalletPage -------------------------------
(***************************************************************************)
(* The wallet: the connection to Freighter (useFreighter) and the dialogs  *)
(* that send XLM or invoke a contract (useSendTransaction and              *)
(* useContractInvoke): load the account, sign in Freighter, submit, and    *)
(* wait for the result.  The network is external: a transaction applies    *)
(* when its sequence number is the next of the account and it has not      *)
(* expired.                                                                *)
(*                                                                         *)
(* The code as it is: a submission whose answer is lost is reported as     *)
(* failed, and may be paid all the same (unsure), so "Try Again" may pay   *)
(* twice; and an answer of Freighter connects a wallet that was            *)
(* disconnected meanwhile.                                                 *)
(***************************************************************************)
EXTENDS Integers, FiniteSets

CONSTANTS
  Nobody,            \* no key, no transaction
  Key,               \* the key of the Freighter wallet
  Funds,             \* what the account can pay at first
  MaxClicks,         \* bound: transactions
  MaxAsks            \* bound: calls of Freighter

ASSUME WalletAssumption ==
  Nobody # Key /\ Funds \in Nat /\ MaxClicks \in Nat /\ MaxAsks \in Nat

VARIABLES
  walletState, publicKey,
  asks,            \* calls of Freighter under way, [kind, n]
  asksSent,
  txKind,          \* "payment" or "invoke": which dialog it is
  dialog,          \* it is open
  txState,         \* "idle", "building", "signing", "submitting", ...
  tx,              \* the transaction built last, [n, seq], or Nobody
  clicks,
  seqNo, funds,    \* network: the account
  pool,            \* network: submitted and not decided
  applied,         \* network: transactions of the dialog that were applied
  unsure           \* history: reported as failed after they were submitted

freighterVars == <<walletState, publicKey, asks, asksSent>>
dialogVars == <<txKind, dialog, txState, tx, clicks, unsure>>
networkVars == <<seqNo, funds, pool, applied>>
walletVars == <<freighterVars, dialogVars, networkVars>>

WalletInit ==
  /\ walletState = "idle" /\ publicKey = Nobody
  /\ asks = {[kind |-> "existing", n |-> 1]} /\ asksSent = 1
  /\ txKind \in {"payment", "invoke"} /\ dialog = FALSE /\ txState = "idle"
  /\ tx = Nobody /\ clicks = 0 /\ unsure = {}
  /\ seqNo = 0 /\ funds = Funds /\ pool = {} /\ applied = {}

WalletConnected == walletState = "connected" /\ publicKey # Nobody
IsSending == txState \in {"building", "signing", "submitting"}

-----------------------------------------------------------------------------
(* The buttons of the wallets page, which is not the page of an invocation, *)
(* and of the dialog.                                                      *)
WalletButtons ==
  IF dialog /\ txKind = "invoke" THEN {}
  ELSE IF WalletConnected THEN {"send", "disconnect", "refresh"}
  ELSE IF walletState = "connecting" THEN {} ELSE {"connect"}

DialogButtons ==
  IF ~dialog \/ IsSending THEN {}
  ELSE {"close"} \cup (IF txState = "error" THEN {"try again"} ELSE {})
       \cup (IF txState = "idle" /\ walletState = "connected" THEN {"submit"} ELSE {})

-----------------------------------------------------------------------------
Ask(kind) ==
  asksSent < MaxAsks /\ asksSent' = asksSent + 1
  /\ asks' = asks \cup {[kind |-> kind, n |-> asksSent + 1]}

WalletConnect ==
  /\ "connect" \in WalletButtons
  /\ walletState' = "connecting" /\ Ask("connect")
  /\ UNCHANGED <<publicKey, dialogVars, networkVars>>

WalletRefresh ==
  /\ "refresh" \in WalletButtons /\ Ask("refresh")
  /\ UNCHANGED <<walletState, publicKey, dialogVars, networkVars>>

WalletDisconnect ==
  /\ "disconnect" \in WalletButtons
  /\ publicKey' = Nobody /\ walletState' = "disconnected"
  /\ UNCHANGED <<asks, asksSent, dialogVars, networkVars>>

(* Only a failed connect is an error; the address may be empty.            *)
FreighterAnswer(a) ==
  /\ a \in asks /\ asks' = asks \ {a} /\ UNCHANGED asksSent
  /\ \/ publicKey' \in {Key, Nobody} /\ walletState' = "connected"
     \/ /\ walletState' = IF a.kind = "connect" THEN "error" ELSE walletState
        /\ UNCHANGED publicKey
  /\ UNCHANGED <<dialogVars, networkVars>>

-----------------------------------------------------------------------------
(* The contracts page opens its dialog with or without a wallet.           *)
ToggleDialog ==
  /\ IF dialog THEN "close" \in DialogButtons
     ELSE txKind = "invoke" \/ "send" \in WalletButtons
  /\ dialog' = ~dialog /\ txState' = "idle"
  /\ UNCHANGED <<txKind, tx, clicks, unsure, freighterVars, networkVars>>

TryAgain ==
  /\ "try again" \in DialogButtons
  /\ txState' = "idle"
  /\ UNCHANGED <<txKind, dialog, tx, clicks, unsure, freighterVars, networkVars>>

(* handleSubmit; without a key the call throws at once.                    *)
Click ==
  /\ "submit" \in DialogButtons /\ clicks < MaxClicks
  /\ clicks' = clicks + 1
  /\ txState' = IF publicKey = Nobody THEN "error" ELSE "building"
  /\ UNCHANGED <<txKind, dialog, tx, unsure, freighterVars, networkVars>>

(* sendXlm and invoke: the account is loaded; a payment is checked against *)
(* the funds, an invocation is simulated; either may fail.                 *)
SendXlm == txKind = "payment" /\ funds > 0
Invoke == txKind = "invoke"
Build ==
  /\ txState = "building"
  /\ \/ /\ SendXlm \/ Invoke
        /\ txState' = "signing" /\ tx' = [n |-> clicks, seq |-> seqNo + 1]
     \/ txState' = "error" /\ UNCHANGED tx
  /\ UNCHANGED <<txKind, dialog, clicks, unsure, freighterVars, networkVars>>

(* Freighter signs and the transaction is submitted, or it is declined.    *)
Sign ==
  /\ txState = "signing"
  /\ \/ txState' = "submitting" /\ pool' = pool \cup {tx}
     \/ txState' = "error" /\ UNCHANGED pool
  /\ UNCHANGED <<txKind, dialog, tx, clicks, unsure, freighterVars,
                 seqNo, funds, applied>>

(* The result arrives.                                                     *)
Succeed ==
  /\ txState = "submitting" /\ tx \in applied /\ txState' = "success"
  /\ UNCHANGED <<txKind, dialog, tx, clicks, unsure, freighterVars, networkVars>>

(* Seeded bug: a submission that is not answered counts as a success.      *)
FailSucceeds ==
  /\ txState = "submitting" /\ txState' = "success"
  /\ UNCHANGED <<txKind, dialog, tx, clicks, unsure, freighterVars, networkVars>>

(* A refusal, a timeout, a lost answer.                                    *)
Fail ==
  /\ txState = "submitting" /\ txState' = "error"
  /\ unsure' = IF tx \in pool \cup applied THEN unsure \cup {tx} ELSE unsure
  /\ UNCHANGED <<txKind, dialog, tx, clicks, freighterVars, networkVars>>

-----------------------------------------------------------------------------
(* The network decides a transaction; the account is used elsewhere too.   *)
Decide(t) ==
  /\ t \in pool /\ pool' = pool \ {t}
  /\ \/ /\ t.seq = seqNo + 1 /\ funds > 0
        /\ seqNo' = t.seq /\ funds' = funds - 1 /\ applied' = applied \cup {t}
     \/ UNCHANGED <<seqNo, funds, applied>>
  /\ UNCHANGED <<dialogVars, freighterVars>>

PaidElsewhere ==
  /\ funds > 0 /\ funds' = funds - 1 /\ seqNo' = seqNo + 1
  /\ UNCHANGED <<pool, applied, dialogVars, freighterVars>>

WalletAnswers == \E a \in asks : FreighterAnswer(a)
DialogAnswers == Build \/ Sign \/ Succeed \/ Fail
WalletNext ==
  \/ WalletConnect \/ WalletRefresh \/ WalletDisconnect
  \/ ToggleDialog \/ TryAgain \/ Click \/ PaidElsewhere
  \/ WalletAnswers \/ DialogAnswers
  \/ \E t \in pool : Decide(t)

-----------------------------------------------------------------------------
(* What is reported is what happened: a success was applied, and whatever  *)
(* was applied was reported as a success, is still awaited, or was         *)
(* reported as failed after its submission; of two attempts that were      *)
(* built on the same sequence number, one at most is applied.              *)
PaidAsShown ==
  /\ txState = "success" => tx \in applied
  /\ \A t \in applied : t.n = clicks => txState \in {"submitting", "success", "idle"} \/ t \in unsure
  /\ \A t, u \in applied : t.seq = u.seq => t = u
=============================================================================
