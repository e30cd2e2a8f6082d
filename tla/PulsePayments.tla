---------------------------- MODULE PulsePayments ----------------------------
(***************************************************************************)
(* The payment rails of contracts/pulse/src/lib.rs on top of the contract  *)
(* core: tips that transfer a SEP-41 token and fire a pulse in one atomic  *)
(* call, pulls from an allowance, batch tips, owner withdrawals.           *)
(* The token contracts are external: balances and allowances change the    *)
(* way transfer, transfer_from and approve of the Stellar asset contract   *)
(* do.                                                                     *)
(***************************************************************************)
EXTENDS PulseContract, SequencesExt

CONSTANTS
  Tokens,         \* SEP-41 token contracts
  DefaultNative,  \* NATIVE_ASSET_CONTRACT_ID
  Amounts,        \* amounts tried (i128 arguments, also non-positive ones)
  Batches,        \* batches tried: sequences of entries <<to, amount>>
  Supply,         \* initial balance of each address in each token
  MaxAmount       \* i128::MAX, scaled down

ASSUME PaymentAssumption ==
  /\ DefaultNative \in Tokens
  /\ Amounts \subseteq Int
  /\ Batches \subseteq Seq(Accounts \X Amounts)
  /\ IsFiniteSet(Addrs)
  /\ Supply \in Nat
  /\ MaxAmount \in Nat

VARIABLES
  native,         \* NATIVE_TOKEN_KEY, the default when unset
  balance,        \* balance[t][x]: balances in the token contracts
  allowance       \* allowance[t][a]: what a lets this contract pull

payVars == <<native, balance, allowance>>
allVars == <<vars, payVars>>

PayInit ==
  /\ Init
  /\ native = DefaultNative
  /\ balance = [t \in Tokens |-> [x \in Accounts |-> IF x = Self THEN 0 ELSE Supply]]
  /\ allowance = [t \in Tokens |-> [a \in Addrs |-> 0]]

-----------------------------------------------------------------------------
(* The transfer of the token contract: the host panics, and so rolls the   *)
(* call back, when the payer cannot cover it.                              *)
Moved(b, from, to, n) ==
  LET debited == [b EXCEPT ![from] = @ - n]
  IN  [debited EXCEPT ![to] = @ + n]

(* Seeded bug: tips count themselves and forget the pause.                 *)
TipTokenWhilePaused(t, from, to, n) ==
  /\ n > 0
  /\ balance[t][from] >= n
  /\ balance' = [balance EXCEPT ![t] = Moved(@, from, to, n)]
  /\ CanCount(1) /\ count' = count + 1 /\ lastPulseAt' = now /\ signed' = {from}
  /\ UNCHANGED <<meta, cap, quorum, record, limits, received, now, killed, native, allowance>>

(* tip_token and, with the native token, tip_xlm.                          *)
TipToken(t, from, to, n) ==
  /\ n > 0
  /\ balance[t][from] >= n
  /\ balance' = [balance EXCEPT ![t] = Moved(@, from, to, n)]
  /\ Pulse({from})
  /\ UNCHANGED <<native, allowance>>

(* Seeded bug: a refused pulse does not undo the pull.                     *)
TipTokenFromNotUndone(t, from, to, n) ==
  /\ n > 0
  /\ allowance[t][from] >= n
  /\ balance[t][from] >= n
  /\ balance' = [balance EXCEPT ![t] = Moved(@, from, to, n)]
  /\ allowance' = [allowance EXCEPT ![t][from] = @ - n]
  /\ Pulse({from}) \/ NoEffect({from})
  /\ UNCHANGED native

TipTokenFrom(t, from, to, n) ==
  /\ n > 0
  /\ allowance[t][from] >= n
  /\ balance[t][from] >= n
  /\ balance' = [balance EXCEPT ![t] = Moved(@, from, to, n)]
  /\ allowance' = [allowance EXCEPT ![t][from] = @ - n]
  /\ Pulse({from})
  /\ UNCHANGED native

(* Seeded bug: a refused pulse does not undo the payments of the batch.    *)
BatchTipTokenNotUndone(t, from, batch) ==
  LET total == FoldLeft(LAMBDA sum, entry : sum + entry[2], 0, batch)
      Pay(b, entry) == Moved(b, from, entry[1], entry[2])
  IN  /\ Len(batch) \in 1..MaxBatchSize
      /\ \A i \in 1..Len(batch) : batch[i][2] > 0
      /\ total <= MaxAmount
      /\ balance[t][from] >= total
      /\ balance' = [balance EXCEPT ![t] = FoldLeft(Pay, @, batch)]
      /\ Pulse({from}) \/ NoEffect({from})
      /\ UNCHANGED <<native, allowance>>

(* The entries <<to, amount>> of a batch are validated and summed first,   *)
(* then paid one after the other; one pulse for the whole batch.           *)
BatchTipToken(t, from, batch) ==
  LET total == FoldLeft(LAMBDA sum, entry : sum + entry[2], 0, batch)
      Pay(b, entry) == Moved(b, from, entry[1], entry[2])
  IN  /\ Len(batch) \in 1..MaxBatchSize
      /\ \A i \in 1..Len(batch) : batch[i][2] > 0
      /\ total <= MaxAmount
      /\ balance[t][from] >= total
      /\ balance' = [balance EXCEPT ![t] = FoldLeft(Pay, @, batch)]
      /\ Pulse({from})
      /\ UNCHANGED <<native, allowance>>

(* Seeded bug: the contract's balance is not checked.                      *)
WithdrawTokenUnchecked(auth, t, to, n) ==
  /\ OwnerSigned(auth)
  /\ n > 0
  /\ balance' = [balance EXCEPT ![t] = Moved(@, Self, to, n)]
  /\ NoEffect(auth)
  /\ UNCHANGED <<native, allowance>>

(* Seeded bug: anyone may withdraw.                                        *)
WithdrawTokenOpen(auth, t, to, n) ==
  /\ n > 0
  /\ balance[t][Self] >= n
  /\ balance' = [balance EXCEPT ![t] = Moved(@, Self, to, n)]
  /\ NoEffect(auth)
  /\ UNCHANGED <<native, allowance>>

(* withdraw_token and, with the native token, withdraw_xlm: only the owner,*)
(* paused or not, and no pulse.                                            *)
WithdrawToken(auth, t, to, n) ==
  /\ OwnerSigned(auth)
  /\ n > 0
  /\ balance[t][Self] >= n
  /\ balance' = [balance EXCEPT ![t] = Moved(@, Self, to, n)]
  /\ NoEffect(auth)
  /\ UNCHANGED <<native, allowance>>

SetNativeTokenAddress(auth, t) ==
  /\ OwnerSigned(auth)
  /\ native' = t
  /\ NoEffect(auth)
  /\ UNCHANGED <<balance, allowance>>

(* External: the holder sets the allowance in the token contract.          *)
Approve(t, a, n) ==
  /\ n >= 0
  /\ allowance' = [allowance EXCEPT ![t][a] = n]
  /\ NoEffect({a})
  /\ UNCHANGED <<native, balance>>

Payment ==
  \E from \in Addrs, n \in Amounts :
    \/ \E to \in Accounts : TipToken(native, from, to, n)
    \/ \E t \in Tokens, to \in Accounts :
         TipToken(t, from, to, n) \/ TipTokenFrom(t, from, to, n)
    \/ \E t \in Tokens : Approve(t, from, n)

BatchPayment ==
  \E from \in Addrs, batch \in Batches, t \in Tokens : BatchTipToken(t, from, batch)

OwnerPayment ==
  \E auth \in SUBSET Addrs, t \in Tokens :
    \/ \E to \in Accounts, n \in Amounts : WithdrawToken(auth, t, to, n)
    \/ SetNativeTokenAddress(auth, t)

PayNext ==
  \/ Next /\ UNCHANGED payVars
  \/ Payment
  \/ BatchPayment
  \/ OwnerPayment

PaySpec == PayInit /\ [][PayNext]_allVars

-----------------------------------------------------------------------------
(* Properties *)

PayTypeOK ==
  /\ native \in Tokens
  /\ balance \in [Tokens -> [Accounts -> Nat]]
  /\ allowance \in [Tokens -> [Addrs -> Nat]]

(* AUDIT section 3: the contract spends an address's tokens only in a      *)
(* transaction that address signed, and its own only when the owner did.   *)
DebitsNeedConsent ==
  [][\A t \in Tokens, x \in Accounts : balance'[t][x] < balance[t][x] =>
       x \in signed' \/ (x = Self /\ OwnerSigned(signed'))]_allVars

(* AUDIT I15, I17: no address pays without exactly one pulse, so nothing   *)
(* is paid while paused or at the cap; a withdrawal fires none.            *)
PaidMeansPulsed ==
  [][\A t \in Tokens, x \in Accounts : balance'[t][x] < balance[t][x] =>
       IF x = Self THEN count' = count ELSE count' = count + 1 /\ ~paused]_allVars

(* n tokens went from a to another account, or to a itself, and nothing    *)
(* else moved in any token.                                                *)
Went(t, a, n) ==
  \E to \in Accounts : \A u \in Tokens, x \in Accounts :
    balance'[u][x] - balance[u][x] = CASE u = t /\ x = a /\ to # a  -> -n
                                       [] u = t /\ x = to /\ to # a -> n
                                       [] OTHER -> 0

(* AUDIT I18, rule of tip_token_from (lib.rs:1036-1073): when an allowance *)
(* falls its holder signed, and either set it in the token contract, with  *)
(* no tokens moved and no pulse, or exactly what it fell by went from the  *)
(* holder's balance to one account, with one pulse of the running contract.*)
AllowanceIsPulled ==
  [][\A t \in Tokens, a \in Addrs : allowance'[t][a] < allowance[t][a] =>
       /\ a \in signed'
       /\ \/ UNCHANGED <<balance, count>>
          \/ /\ count' = count + 1 /\ ~paused
             /\ Went(t, a, allowance[t][a] - allowance'[t][a])]_allVars

(* Every call of the rails is a pulse of the core, a call of the core that *)
(* changes nothing there, or leaves the core alone.                        *)
PaymentsImplementCore == Spec
=============================================================================
