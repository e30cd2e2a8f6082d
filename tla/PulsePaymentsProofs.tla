-------------------------- MODULE PulsePaymentsProofs --------------------------
(***************************************************************************)
(* The payment rails add nothing to the core contract: every payment is a  *)
(* step of PulseContract, so what is proved there holds of the rails too.  *)
(* The rails themselves conserve every token, and an account pays only by  *)
(* the rules: with its signature and a pulse.                              *)
(***************************************************************************)
EXTENDS PulsePayments, PulseContractProofs, FiniteSetTheorems, SequenceTheorems,
        WellFoundedInduction, NaturalsInduction

LEMMA PayStepIsCoreStep == [PayNext]_allVars => [Next]_vars
<1>1. ASSUME NEW auth \in SUBSET Addrs, Pulse(auth)
      PROVE  Next
  BY <1>1, Zenon DEF Next, PulseCall
<1>2. ASSUME NEW auth \in SUBSET Addrs, NoEffect(auth)
      PROVE  Next
  BY <1>2, Zenon DEF Next
<1>3. ASSUME Payment PROVE Next
  <2>1. PICK a \in Addrs : Pulse({a}) \/ NoEffect({a})
    BY <1>3, Zenon DEF Payment, TipToken, TipTokenFrom, Approve
  <2>2. QED
    BY <2>1, <1>1, <1>2, {a} \in SUBSET Addrs
<1>4. ASSUME BatchPayment PROVE Next
  <2>1. PICK a \in Addrs : Pulse({a})
    BY <1>4, Zenon DEF BatchPayment, BatchTipToken
  <2>2. QED
    BY <2>1, <1>1, {a} \in SUBSET Addrs
<1>5. ASSUME OwnerPayment PROVE Next
  BY <1>2, <1>5, Zenon DEF OwnerPayment, WithdrawToken, SetNativeTokenAddress
<1>6. CASE UNCHANGED allVars
  BY <1>6 DEF allVars
<1>7. QED
  BY <1>3, <1>4, <1>5, <1>6, Zenon DEF PayNext, allVars

(* The contract with its payment rails implements the contract core: tips, *)
(* pulls, batches and withdrawals are pulses or calls without effect on it.*)
THEOREM PaymentsRefineCore == PaySpec => PaymentsImplementCore
<1>1. PayInit => Init
  BY DEF PayInit
<1>2. [PayNext]_allVars => [Next]_vars
  BY PayStepIsCoreStep
<1>3. QED
  BY <1>1, <1>2, PTL DEF PaySpec, Spec, PaymentsImplementCore

(* What is proved of the core carries over: while the contract is paused,  *)
(* no tip, batch tip or pull fires a pulse.                                *)
THEOREM RailsRespectPause == PaySpec => PauseFreezesPulses
BY PaymentsRefineCore, PauseHolds, PTL DEF PaymentsImplementCore

-----------------------------------------------------------------------------
(* Allowances *)

AllowanceTyped == allowance \in [Tokens -> [Addrs -> Nat]]

(* A step that changes an allowance is a pull or an approval.              *)
LEMMA AllowanceWriters ==
  ASSUME [PayNext]_allVars, allowance' # allowance
  PROVE  \E t \in Tokens, a \in Addrs, n \in Amounts :
           \/ Approve(t, a, n)
           \/ \E to \in Accounts : TipTokenFrom(t, a, to, n)
<1>1. CASE Payment
  BY <1>1, Zenon DEF Payment, TipToken
<1>2. BatchPayment => FALSE
  BY DEF BatchPayment, BatchTipToken
<1>3. OwnerPayment => FALSE
  BY DEF OwnerPayment, WithdrawToken, SetNativeTokenAddress
<1>4. UNCHANGED payVars => FALSE
  BY DEF payVars
<1>5. QED
  BY <1>1, <1>2, <1>3, <1>4, Zenon DEF PayNext, allVars

LEMMA AllowanceStep ==
  ASSUME AllowanceTyped, [PayNext]_allVars
  PROVE  AllowanceTyped'
<1>1. CASE allowance' = allowance
  BY <1>1 DEF AllowanceTyped
<1>2. CASE allowance' # allowance
  <2>1. PICK t \in Tokens, a \in Addrs, n \in Amounts :
          \/ Approve(t, a, n)
          \/ \E to \in Accounts : TipTokenFrom(t, a, to, n)
    BY <1>2, AllowanceWriters
  <2>2. n \in Int /\ allowance[t][a] \in Nat
    BY PaymentAssumption DEF AllowanceTyped
  <2>3. \E m \in Nat : allowance' = [allowance EXCEPT ![t][a] = m]
    <3>1. CASE Approve(t, a, n)
      <4>1. n \in Nat /\ allowance' = [allowance EXCEPT ![t][a] = n]
        BY <2>2, <3>1 DEF Approve
      <4>2. QED
        BY <4>1
    <3>2. ASSUME NEW to \in Accounts, TipTokenFrom(t, a, to, n)
          PROVE  \E m \in Nat : allowance' = [allowance EXCEPT ![t][a] = m]
      <4>1. allowance[t][a] - n \in Nat
        BY <2>2, <3>2 DEF TipTokenFrom
      <4>2. allowance' = [allowance EXCEPT ![t][a] = allowance[t][a] - n]
        BY <3>2 DEF TipTokenFrom
      <4>3. QED
        BY <4>1, <4>2
    <3>3. QED
      BY <2>1, <3>1, <3>2
  <2>4. QED
    BY <2>3 DEF AllowanceTyped
<1>3. QED
  BY <1>1, <1>2

-----------------------------------------------------------------------------
(* Folds over finite sets *)

(* Induction, for a set of numbers.                                        *)
LEMMA NatSet ==
  ASSUME NEW A, 0 \in A, \A n \in Nat : n \in A => n + 1 \in A
  PROVE  \A n \in Nat : n \in A
<1> DEFINE Less == {ss \in Nat \X Nat : ss[1] < ss[2]}
           B == Nat \ A
<1>1. IsWellFoundedOn(Less, Nat)
  BY NatLessThanWellFounded, Zenon DEF OpToRel
<1>2. \A a, b \in Nat : a < b => <<a, b>> \in Less
  OBVIOUS
<1> HIDE DEF Less
<1>3. SUFFICES ASSUME B # {}
               PROVE  FALSE
  OBVIOUS
<1>4. B \subseteq Nat
  OBVIOUS
<1> HIDE DEF B
<1>5. PICK u \in B : \A v \in B : ~ (<<v, u>> \in Less)
  BY <1>1, <1>3, <1>4, WFMin
<1>6. u \in Nat /\ u \notin A /\ u # 0
  BY <1>5 DEF B
<1>7. u - 1 \in Nat /\ u - 1 < u /\ (u - 1) + 1 = u
  BY <1>6
<1>8. u - 1 \notin A
  BY <1>6, <1>7
<1>9. u - 1 \in B
  BY <1>7, <1>8 DEF B
<1> QED
  BY <1>2, <1>5, <1>6, <1>7, <1>9

(* A fold over a finite set: there is a function on its subsets that adds  *)
(* the element chosen last.                                                *)
(* C picks an element of every nonempty subset of S.                       *)
Chooses(C, S) == \A s \in SUBSET S : s # {} => C[s] \in s

FoldOf(g, S, V, base, C, G) ==
  /\ g \in [SUBSET S -> V]
  /\ g[{}] = base
  /\ \A s \in SUBSET S : s # {} => g[s] = G[<<C[s], g[s \ {C[s]}]>>]

LEMMA FoldExists ==
  ASSUME NEW S, IsFiniteSet(S), NEW V, NEW base \in V,
         NEW C, Chooses(C, S), NEW G \in [S \X V -> V]
  PROVE  \E g : FoldOf(g, S, V, base, C, G)
<1>0. \A s \in SUBSET S : s # {} => C[s] \in s
  BY DEF Chooses
<1> DEFINE Upto(n) == {s \in SUBSET S : Cardinality(s) <= n}
           Is(g, n) == /\ g \in [Upto(n) -> V] /\ g[{}] = base
                       /\ \A s \in Upto(n) : s # {} => g[s] = G[<<C[s], g[s \ {C[s]}]>>]
           A == {n \in Nat : \E g : Is(g, n)}
<1>1. \A s \in SUBSET S : IsFiniteSet(s) /\ Cardinality(s) \in Nat /\ Cardinality(s) <= Cardinality(S)
  BY FS_Subset, FS_CardinalityType
<1>2. {} \in SUBSET S /\ Cardinality({}) = 0
  BY FS_EmptySet
<1>3. \A s \in SUBSET S : s # {} =>
        /\ s \ {C[s]} \in SUBSET S /\ C[s] \in S
        /\ Cardinality(s \ {C[s]}) = Cardinality(s) - 1
  BY <1>0, <1>1, FS_RemoveElement
<1>4. 0 \in A
  <2> DEFINE g == [s \in Upto(0) |-> base]
  <2>1. \A s \in Upto(0) : s = {}
    BY <1>1, FS_EmptySet
  <2>2. Is(g, 0)
    BY <1>2, <2>1
  <2> QED
    BY <2>2
<1>5. ASSUME NEW n \in Nat, n \in A
      PROVE  n + 1 \in A
  <2>1. PICK g : Is(g, n)
    BY <1>5
  <2> DEFINE h == [s \in Upto(n + 1) |-> IF s = {} THEN base ELSE G[<<C[s], g[s \ {C[s]}]>>]]
  <2>2. \A s \in Upto(n + 1) : s # {} => s \ {C[s]} \in Upto(n) /\ C[s] \in S
    BY <1>1, <1>3
  <2>3. Upto(n) \subseteq Upto(n + 1) /\ {} \in Upto(n)
    BY <1>1, <1>2
  <2> HIDE DEF Upto
  <2>4. \A s \in Upto(n) : h[s] = g[s]
    BY <2>1, <2>3
  <2>5. h \in [Upto(n + 1) -> V] /\ h[{}] = base
    BY <2>1, <2>2, <2>3
  <2>6. ASSUME NEW s \in Upto(n + 1), s # {}
        PROVE  h[s] = G[<<C[s], h[s \ {C[s]}]>>]
    BY <2>2, <2>4, <2>6
  <2>7. Is(h, n + 1)
    BY <2>5, <2>6
  <2> HIDE DEF h, Is
  <2>8. n + 1 \in Nat /\ \E k : Is(k, n + 1)
    BY <2>7
  <2> QED
    BY <2>8
<1>6. Cardinality(S) \in Nat
  BY <1>1
<1> HIDE DEF A
<1>7. Cardinality(S) \in A
  BY <1>4, <1>5, <1>6, NatSet
<1>8. PICK g : Is(g, Cardinality(S))
  BY <1>7 DEF A
<1>9. Upto(Cardinality(S)) = SUBSET S
  BY <1>1
<1> QED
  BY <1>8, <1>9 DEF FoldOf

-----------------------------------------------------------------------------
(* Transfers and batches *)

(* What a payment from one account does to the balances in a token.        *)
Spends(b, c, from) ==
  /\ c \in [Accounts -> Nat]
  /\ \A x \in Accounts \ {from} : c[x] >= b[x]

(* What a transfer debits and credits, also to the payer itself.           *)
LEMMA MovedValues ==
  ASSUME NEW b \in [Accounts -> Int], NEW from \in Accounts, NEW to \in Accounts, NEW n \in Int
  PROVE  /\ Moved(b, from, to, n) \in [Accounts -> Int]
         /\ \A x \in Accounts : x # from /\ x # to => Moved(b, from, to, n)[x] = b[x]
         /\ from # to => /\ Moved(b, from, to, n)[from] = b[from] - n
                        /\ Moved(b, from, to, n)[to] = b[to] + n
         /\ from = to => Moved(b, from, to, n)[to] = b[to]
<1> DEFINE d == [b EXCEPT ![from] = @ - n]
           c == [d EXCEPT ![to] = @ + n]
<1>1. Moved(b, from, to, n) = c
  BY DEF Moved
<1>2. d \in [Accounts -> Int] /\ \A x \in Accounts : d[x] = IF x = from THEN b[x] - n ELSE b[x]
  OBVIOUS
<1> HIDE DEF d
<1>3. c \in [Accounts -> Int] /\ \A x \in Accounts : c[x] = IF x = to THEN d[x] + n ELSE d[x]
  BY <1>2
<1> HIDE DEF c
<1>4. \A x \in Accounts : x # from /\ x # to => c[x] = b[x]
  BY <1>2, <1>3
<1>5. b[from] \in Int /\ b[to] \in Int
  OBVIOUS
<1>6. from # to => c[from] = b[from] - n /\ c[to] = b[to] + n
  BY <1>2, <1>3
<1>7. from = to => c[to] = b[to]
  BY <1>2, <1>3, <1>5
<1> QED
  BY <1>1, <1>3, <1>4, <1>6, <1>7

(* A transfer the payer can cover.                                         *)
LEMMA MovedSpends ==
  ASSUME NEW b \in [Accounts -> Nat], NEW from \in Accounts, NEW to \in Accounts,
         NEW n \in Int, n > 0, b[from] >= n
  PROVE  Spends(b, Moved(b, from, to, n), from)
<1>1. b \in [Accounts -> Int]
  OBVIOUS
<1> DEFINE c == Moved(b, from, to, n)
<1>2. c \in [Accounts -> Int]
  BY <1>1, MovedValues
<1>4. \A x \in Accounts : x # from /\ x # to => c[x] = b[x]
  BY <1>1, MovedValues
<1>5. from # to => c[from] = b[from] - n /\ c[to] = b[to] + n
  BY <1>1, MovedValues
<1>6. from = to => c[to] = b[to]
  BY <1>1, MovedValues
<1> HIDE DEF c
<1>7. c[from] \in Nat /\ c[to] \in Nat /\ (from # to => c[to] >= b[to])
  BY <1>5, <1>6
<1>8. \A x \in Accounts : c[x] \in Nat
  BY <1>4, <1>7
<1>9. \A x \in Accounts \ {from} : c[x] >= b[x]
  BY <1>4, <1>7
<1> QED
  BY <1>2, <1>8, <1>9 DEF Spends, c

(* The entries of a batch are paid in their order: a fold over the indices *)
(* takes the greatest last.                                                *)
LEMMA LastIndex ==
  ASSUME NEW n \in Nat
  PROVE  \A k \in 1..n : Max(1..k) = k /\ (1..k) \ {k} = 1..(k - 1)
<1> SUFFICES ASSUME NEW k \in 1..n
             PROVE  Max(1..k) = k /\ (1..k) \ {k} = 1..(k - 1)
  OBVIOUS
<1>1. k \in 1..k /\ \A y \in 1..k : k >= y
  OBVIOUS
<1>2. \A x \in 1..k : (\A y \in 1..k : x >= y) => x = k
  BY <1>1
<1> QED
  BY <1>1, <1>2 DEF Max

(* A nonempty set of indices has a greatest one.                           *)
LEMMA MaxChosen ==
  ASSUME NEW n \in Nat, NEW C, C = [s \in SUBSET (1..n) |-> Max(s)]
  PROVE  Chooses(C, 1..n)
<1> SUFFICES ASSUME NEW s \in SUBSET (1..n), s # {}
             PROVE  C[s] \in s
  BY DEF Chooses
<1> DEFINE A == {m \in Nat : \A r \in SUBSET (1..n) :
                   (r # {} /\ \A y \in r : y <= m) => \E x \in r : \A y \in r : x >= y}
<1>1. 0 \in A
  <2>1. SUFFICES ASSUME NEW r \in SUBSET (1..n), NEW z \in r, \A y \in r : y <= 0
                 PROVE  FALSE
    OBVIOUS
  <2>2. z \in 1..n /\ z <= 0
    BY <2>1
  <2> QED
    BY <2>2
<1>2. ASSUME NEW m \in Nat, m \in A
      PROVE  m + 1 \in A
  <2>1. ASSUME NEW r \in SUBSET (1..n), r # {}, \A y \in r : y <= m + 1
        PROVE  \E x \in r : \A y \in r : x >= y
    <3>1. CASE m + 1 \in r
      BY <2>1, <3>1
    <3>2. CASE m + 1 \notin r
      <4>1. \A y \in r : y <= m
        BY <2>1, <3>2
      <4> QED
        BY <1>2, <2>1, <4>1
    <3> QED
      BY <3>1, <3>2
  <2> QED
    BY <2>1
<1> HIDE DEF A
<1>3. n \in A
  BY <1>1, <1>2, NatSet
<1>4. \E x \in s : \A y \in s : x >= y
  BY <1>3 DEF A
<1> QED
  BY <1>4 DEF Max

(* The folds of a batch tip: what it adds up to, and the balances it leaves.*)
Total(batch) == FoldLeft(LAMBDA sum, entry : sum + entry[2], 0, batch)

PaidOut(b, from, batch) == FoldLeft(LAMBDA c, entry : Moved(c, from, entry[1], entry[2]), b, batch)

(* The total of a batch is reached entry by entry.                         *)
LEMMA TotalInOrder ==
  ASSUME NEW batch \in Seq(Accounts \X Int)
  PROVE  \E T : /\ T[0] = 0 /\ T[Len(batch)] = Total(batch)
                /\ \A k \in 0..Len(batch) : T[k] \in Int
                /\ \A k \in 1..Len(batch) : T[k] = T[k - 1] + batch[k][2]
<1> DEFINE n == Len(batch)
           S == 1..n
           C == [s \in SUBSET S |-> Max(s)]
           G == [p \in S \X Int |-> p[2] + batch[p[1]][2]]
           iter == CHOOSE it : it = [s \in SUBSET S |->
                     IF s = {} THEN 0 ELSE LET x == Max(s) IN it[s \ {x}] + batch[x][2]]
<1>1. Total(batch) = iter[S]
  BY DOMAIN batch = S DEF Total, FoldLeft, MapThenFoldSet
<1>2. \A k \in S : batch[k][2] \in Int
  OBVIOUS
<1>3. G \in [S \X Int -> Int]
  BY <1>2
<1>4. n \in Nat /\ IsFiniteSet(S) /\ Chooses(C, S)
  <2>1. n \in Nat /\ C = [s \in SUBSET (1..n) |-> Max(s)]
    OBVIOUS
  <2>2. IsFiniteSet(S)
    BY <2>1, FS_Interval
  <2> HIDE DEF C, n
  <2>3. Chooses(C, 1..n)
    BY <2>1, MaxChosen
  <2> QED
    BY <2>1, <2>2, <2>3
<1>5. PICK g : FoldOf(g, S, Int, 0, C, G)
  <2> HIDE DEF C, G, S
  <2> QED
    BY <1>3, <1>4, 0 \in Int, FoldExists
<1>6. g = [s \in SUBSET S |->
             IF s = {} THEN 0 ELSE LET x == Max(s) IN g[s \ {x}] + batch[x][2]]
  <2>1. g \in [SUBSET S -> Int] /\ g[{}] = 0
    BY <1>5 DEF FoldOf
  <2>2. ASSUME NEW s \in SUBSET S, s # {}
        PROVE  g[s] = g[s \ {Max(s)}] + batch[Max(s)][2]
    <3>1. C[s] = Max(s) /\ C[s] \in S
      BY <1>4, <2>2 DEF Chooses
    <3>2. g[s] = G[<<C[s], g[s \ {C[s]}]>>]
      BY <1>5, <2>2 DEF FoldOf
    <3>3. g[s \ {C[s]}] \in Int
      BY <2>1
    <3> QED
      BY <3>1, <3>2, <3>3
  <2> QED
    BY <2>1, <2>2
<1>7. iter = [s \in SUBSET S |->
             IF s = {} THEN 0 ELSE LET x == Max(s) IN iter[s \ {x}] + batch[x][2]]
  BY <1>6
<1> HIDE DEF iter
<1>8. ASSUME NEW k \in 1..n
      PROVE  iter[1..k] = iter[1..(k - 1)] + batch[k][2]
  <2>1. 1..k \in SUBSET S /\ k \in 1..k
    BY <1>4
  <2>2. Max(1..k) = k /\ (1..k) \ {k} = 1..(k - 1)
    BY <1>4, LastIndex
  <2> QED
    BY <1>7, <2>1, <2>2
<1>9. iter[1..0] = 0
  BY <1>7
<1>10. \A k \in 0..n : iter[1..k] \in Int
  <2> DEFINE A == {k \in Nat : k \in 0..n => iter[1..k] \in Int}
  <2>1. 0 \in A
    BY <1>9
  <2>2. ASSUME NEW k \in Nat, k \in A
        PROVE  k + 1 \in A
    <3>1. SUFFICES ASSUME k + 1 \in 0..n
                   PROVE  iter[1..(k + 1)] \in Int
      OBVIOUS
    <3>2. k + 1 \in 1..n /\ k \in 0..n /\ (k + 1) - 1 = k
      BY <3>1
    <3>3. iter[1..(k + 1)] = iter[1..k] + batch[k + 1][2]
      BY <1>8, <3>2
    <3>4. iter[1..k] \in Int /\ batch[k + 1][2] \in Int
      BY <1>2, <2>2, <3>2
    <3> QED
      BY <3>3, <3>4
  <2> HIDE DEF A
  <2>3. \A k \in Nat : k \in A
    BY <2>1, <2>2, NatSet
  <2> QED
    BY <2>3 DEF A
<1> DEFINE T == [k \in 0..n |-> iter[1..k]]
<1>11. \A k \in 0..n : T[k] = iter[1..k]
  OBVIOUS
<1>12. n \in 0..n /\ 0 \in 0..n /\ \A k \in 1..n : k \in 0..n /\ k - 1 \in 0..n
  BY <1>4
<1> HIDE DEF T
<1>13. T[0] = 0 /\ T[n] = Total(batch)
  BY <1>1, <1>9, <1>11, <1>12
<1>14. \A k \in 0..n : T[k] \in Int
  BY <1>10, <1>11
<1>15. \A k \in 1..n : T[k] = T[k - 1] + batch[k][2]
  BY <1>8, <1>11, <1>12
<1> HIDE DEF n
<1> QED
  BY <1>13, <1>14, <1>15 DEF n

(* The balances a batch leaves are reached one transfer at a time.         *)
LEMMA PaidInOrder ==
  ASSUME NEW batch \in Seq(Accounts \X Int), NEW b \in [Accounts -> Int], NEW from \in Accounts
  PROVE  \E B : /\ B[0] = b /\ B[Len(batch)] = PaidOut(b, from, batch)
                /\ \A k \in 0..Len(batch) : B[k] \in [Accounts -> Int]
                /\ \A k \in 1..Len(batch) : B[k] = Moved(B[k - 1], from, batch[k][1], batch[k][2])
<1> DEFINE n == Len(batch)
           S == 1..n
           V == [Accounts -> Int]
           C == [s \in SUBSET S |-> Max(s)]
           G == [p \in S \X V |-> Moved(p[2], from, batch[p[1]][1], batch[p[1]][2])]
           iter == CHOOSE it : it = [s \in SUBSET S |->
                     IF s = {} THEN b ELSE LET x == Max(s)
                                           IN Moved(it[s \ {x}], from, batch[x][1], batch[x][2])]
<1>1. PaidOut(b, from, batch) = iter[S]
  BY DOMAIN batch = S DEF PaidOut, FoldLeft, MapThenFoldSet
<1>2. \A k \in S : batch[k][1] \in Accounts /\ batch[k][2] \in Int
  OBVIOUS
<1>3. G \in [S \X V -> V]
  <2>1. \A k \in S, c \in V : Moved(c, from, batch[k][1], batch[k][2]) \in V
    BY <1>2, MovedValues
  <2> HIDE DEF V, S
  <2>2. ASSUME NEW p \in S \X V
        PROVE  Moved(p[2], from, batch[p[1]][1], batch[p[1]][2]) \in V
    BY <2>1
  <2> QED
    BY <2>2
<1>4. n \in Nat /\ IsFiniteSet(S) /\ Chooses(C, S)
  <2>1. n \in Nat /\ C = [s \in SUBSET (1..n) |-> Max(s)]
    OBVIOUS
  <2>2. IsFiniteSet(S)
    BY <2>1, FS_Interval
  <2> HIDE DEF C, n
  <2>3. Chooses(C, 1..n)
    BY <2>1, MaxChosen
  <2> QED
    BY <2>1, <2>2, <2>3
<1>5. PICK g : FoldOf(g, S, V, b, C, G)
  <2>1. b \in V
    OBVIOUS
  <2> HIDE DEF C, G, S, V
  <2> QED
    BY <1>3, <1>4, <2>1, FoldExists
<1>6. g \in [SUBSET S -> V] /\ g[{}] = b
  BY <1>5 DEF FoldOf
<1>7. ASSUME NEW s \in SUBSET S, s # {}
      PROVE  /\ Max(s) \in S
             /\ g[s] = Moved(g[s \ {Max(s)}], from, batch[Max(s)][1], batch[Max(s)][2])
  <2>1. C[s] = Max(s) /\ C[s] \in S
    BY <1>4, <1>7 DEF Chooses
  <2>2. g[s] = G[<<C[s], g[s \ {C[s]}]>>]
    BY <1>5, <1>7 DEF FoldOf
  <2>3. g[s \ {C[s]}] \in V
    BY <1>6
  <2> HIDE DEF C, V
  <2>4. G[<<C[s], g[s \ {C[s]}]>>] = Moved(g[s \ {C[s]}], from, batch[C[s]][1], batch[C[s]][2])
    BY <2>1, <2>3
  <2> QED
    BY <2>1, <2>2, <2>4
<1>8. g = [s \in SUBSET S |->
             IF s = {} THEN b ELSE LET x == Max(s)
                                   IN Moved(g[s \ {x}], from, batch[x][1], batch[x][2])]
  BY <1>6, <1>7
<1>9. iter = [s \in SUBSET S |->
             IF s = {} THEN b ELSE LET x == Max(s)
                                   IN Moved(iter[s \ {x}], from, batch[x][1], batch[x][2])]
  BY <1>8
<1> HIDE DEF iter
<1>10. ASSUME NEW k \in 1..n
       PROVE  iter[1..k] = Moved(iter[1..(k - 1)], from, batch[k][1], batch[k][2])
  <2>1. 1..k \in SUBSET S /\ k \in 1..k
    BY <1>4
  <2>2. Max(1..k) = k /\ (1..k) \ {k} = 1..(k - 1)
    BY <1>4, LastIndex
  <2> QED
    BY <1>9, <2>1, <2>2
<1>11. iter[1..0] = b
  BY <1>9
<1>12. \A k \in 0..n : iter[1..k] \in V
  <2> DEFINE A == {k \in Nat : k \in 0..n => iter[1..k] \in V}
  <2>1. 0 \in A
    BY <1>11
  <2>2. ASSUME NEW k \in Nat, k \in A
        PROVE  k + 1 \in A
    <3>1. SUFFICES ASSUME k + 1 \in 0..n
                   PROVE  iter[1..(k + 1)] \in V
      OBVIOUS
    <3>2. k + 1 \in 1..n /\ k \in 0..n /\ (k + 1) - 1 = k
      BY <3>1
    <3>3. iter[1..(k + 1)] = Moved(iter[1..k], from, batch[k + 1][1], batch[k + 1][2])
      BY <1>10, <3>2
    <3>4. iter[1..k] \in V /\ batch[k + 1][1] \in Accounts /\ batch[k + 1][2] \in Int
      BY <1>2, <2>2, <3>2
    <3>5. PICK c \in [Accounts -> Int], to \in Accounts, m \in Int :
            c = iter[1..k] /\ to = batch[k + 1][1] /\ m = batch[k + 1][2]
      BY <3>4
    <3>6. Moved(c, from, to, m) \in [Accounts -> Int]
      BY MovedValues
    <3> QED
      BY <3>3, <3>5, <3>6
  <2> HIDE DEF A
  <2>3. \A k \in Nat : k \in A
    BY <2>1, <2>2, NatSet
  <2> QED
    BY <2>3 DEF A
<1> DEFINE B == [k \in 0..n |-> iter[1..k]]
<1>13. \A k \in 0..n : B[k] = iter[1..k]
  OBVIOUS
<1>14. n \in 0..n /\ 0 \in 0..n /\ \A k \in 1..n : k \in 0..n /\ k - 1 \in 0..n
  BY <1>4
<1> HIDE DEF B
<1>15. B[0] = b /\ B[n] = PaidOut(b, from, batch)
  BY <1>1, <1>11, <1>13, <1>14
<1>16. \A k \in 0..n : B[k] \in [Accounts -> Int]
  BY <1>12, <1>13
<1>17. \A k \in 1..n : B[k] = Moved(B[k - 1], from, batch[k][1], batch[k][2])
  BY <1>10, <1>13, <1>14
<1> HIDE DEF n
<1> QED
  BY <1>15, <1>16, <1>17 DEF n

(* A batch whose total the payer holds pays like one transfer.             *)
LEMMA BatchSpends ==
  ASSUME NEW batch \in Seq(Accounts \X Int), NEW b \in [Accounts -> Nat], NEW from \in Accounts,
         \A i \in 1..Len(batch) : batch[i][2] > 0, b[from] >= Total(batch)
  PROVE  Spends(b, PaidOut(b, from, batch), from)
<1> DEFINE n == Len(batch)
<1>1. b \in [Accounts -> Int] /\ n \in Nat
  OBVIOUS
<1>2. PICK T : /\ T[0] = 0 /\ T[n] = Total(batch)
               /\ \A k \in 0..n : T[k] \in Int
               /\ \A k \in 1..n : T[k] = T[k - 1] + batch[k][2]
  BY TotalInOrder
<1>3. PICK B : /\ B[0] = b /\ B[n] = PaidOut(b, from, batch)
               /\ \A k \in 0..n : B[k] \in [Accounts -> Int]
               /\ \A k \in 1..n : B[k] = Moved(B[k - 1], from, batch[k][1], batch[k][2])
  BY <1>1, PaidInOrder
<1>4. \A k \in 1..n : batch[k][1] \in Accounts /\ batch[k][2] \in Int /\ batch[k][2] > 0
  OBVIOUS
<1> HIDE DEF n
<1> DEFINE Paid(k) == /\ \A x \in Accounts \ {from} : B[k][x] >= b[x]
                      /\ B[k][from] + T[k] >= b[from]
           A == {k \in Nat : k \in 0..n => Paid(k)}
<1>5. 0 \in A
  <2>1. b[from] \in Int /\ \A x \in Accounts : b[x] >= b[x]
    BY <1>1
  <2> QED
    BY <1>2, <1>3, <2>1
<1>6. ASSUME NEW k \in Nat, k \in A
      PROVE  k + 1 \in A
  <2>1. SUFFICES ASSUME k + 1 \in 0..n
                 PROVE  Paid(k + 1)
    OBVIOUS
  <2>2. k + 1 \in 1..n /\ k \in 0..n /\ (k + 1) - 1 = k
    BY <1>1, <2>1
  <2>3. PICK to \in Accounts, m \in Int : m > 0 /\ to = batch[k + 1][1] /\ m = batch[k + 1][2]
    BY <1>4, <2>2
  <2>4. B[k + 1] = Moved(B[k], from, to, m) /\ T[k + 1] = T[k] + m
    BY <1>2, <1>3, <2>2, <2>3
  <2>5. PICK c \in [Accounts -> Int] : c = B[k]
    BY <1>3, <2>2
  <2>6. Paid(k)
    BY <1>6, <2>2
  <2> DEFINE d == Moved(c, from, to, m)
  <2>8. \A x \in Accounts : x # from /\ x # to => d[x] = c[x]
    BY MovedValues
  <2>9. from # to => d[from] = c[from] - m /\ d[to] = c[to] + m
    BY MovedValues
  <2>10. from = to => d[to] = c[to]
    BY MovedValues
  <2>11. B[k + 1] = d
    BY <2>4, <2>5
  <2> HIDE DEF d, Paid, A
  <2>12. \A x \in Accounts \ {from} : d[x] >= c[x]
    BY <2>3, <2>8, <2>9
  <2>13. d[from] + m >= c[from] /\ d[from] \in Int
    BY <2>3, <2>9, <2>10
  <2>14. T[k] \in Int /\ b[from] \in Int /\ \A x \in Accounts : b[x] \in Int /\ c[x] \in Int
    BY <1>1, <1>2, <2>2
  <2>15. /\ \A x \in Accounts \ {from} : c[x] >= b[x]
         /\ c[from] + T[k] >= b[from]
    BY <2>5, <2>6 DEF Paid
  <2>16. \A x \in Accounts \ {from} : d[x] \in Int
    BY <2>8, <2>9, <2>3, <2>14
  <2>17. \A x \in Accounts \ {from} : d[x] >= b[x]
    BY <2>12, <2>14, <2>15, <2>16
  <2>18. d[from] + T[k + 1] >= b[from]
    <3>1. PICK df \in Int, cf \in Int, tk \in Int, bf \in Int :
            df = d[from] /\ cf = c[from] /\ tk = T[k] /\ bf = b[from]
      BY <2>13, <2>14
    <3>2. T[k + 1] = tk + m /\ df + m >= cf /\ cf + tk >= bf
      BY <2>4, <2>13, <2>15, <3>1
    <3>3. df + (tk + m) >= bf
      BY <3>2
    <3> QED
      BY <3>1, <3>2, <3>3
  <2> QED
    BY <2>11, <2>17, <2>18 DEF Paid
<1> HIDE DEF A
<1>7. Paid(n)
  <2>1. \A k \in Nat : k \in A
    BY ONLY <1>5, <1>6, NatSet
  <2>2. n \in 0..n
    BY <1>1
  <2> QED
    BY <1>1, <2>1, <2>2 DEF A
<1>8. B[n] \in [Accounts -> Int] /\ T[n] \in Int
  BY <1>1, <1>2, <1>3
<1>9. \A x \in Accounts : B[n][x] \in Nat
  <2>1. B[n][from] >= 0
    <3>1. B[n][from] \in Int /\ b[from] \in Int /\ b[from] >= T[n] /\ B[n][from] + T[n] >= b[from]
      BY <1>1, <1>2, <1>7, <1>8
    <3> QED
      BY <1>8, <3>1
  <2>2. \A x \in Accounts \ {from} : B[n][x] >= 0
    BY <1>7, <1>8
  <2> QED
    BY <1>8, <2>1, <2>2
<1>10. B[n] \in [Accounts -> Nat]
  BY <1>8, <1>9
<1> QED
  BY <1>3, <1>7, <1>10 DEF Spends

-----------------------------------------------------------------------------
(* Balances *)

(* Who may have paid: an address, with a pulse it signed, or the contract, *)
(* with its owner's signature and no effect on the core.                   *)
PaidBy(from) ==
  \/ from \in Addrs /\ Pulse({from})
  \/ from = Self /\ \E auth \in SUBSET Addrs : OwnerSigned(auth) /\ NoEffect(auth)

(* Every step of the rails leaves the balances alone or is one payment, in *)
(* one token, from one account that pays by the rules.                     *)
BalancesMove ==
  \/ balance' = balance
  \/ \E t \in Tokens, from \in Accounts :
       /\ PaidBy(from)
       /\ \E c : Spends(balance[t], c, from) /\ balance' = [balance EXCEPT ![t] = c]

LEMMA TransferMoves ==
  ASSUME PayTypeOK, NEW t \in Tokens, NEW from \in Accounts, NEW to \in Accounts, NEW n \in Amounts,
         n > 0, balance[t][from] >= n, PaidBy(from),
         balance' = [balance EXCEPT ![t] = Moved(@, from, to, n)]
  PROVE  BalancesMove
<1>1. balance[t] \in [Accounts -> Nat] /\ n \in Int
  BY PaymentAssumption DEF PayTypeOK
<1>2. Spends(balance[t], Moved(balance[t], from, to, n), from)
  BY <1>1, MovedSpends
<1>3. balance' = [balance EXCEPT ![t] = Moved(balance[t], from, to, n)]
  BY DEF PayTypeOK
<1>4. QED
  BY <1>2, <1>3 DEF BalancesMove

LEMMA BatchMoves ==
  ASSUME PayTypeOK, NEW t \in Tokens, NEW from \in Addrs, NEW batch \in Batches,
         BatchTipToken(t, from, batch)
  PROVE  BalancesMove
<1>1. balance[t] \in [Accounts -> Nat] /\ from \in Accounts
  BY DEF PayTypeOK, Accounts
<1>2. batch \in Seq(Accounts \X Int)
  <2>1. batch \in Seq(Accounts \X Amounts) /\ Amounts \subseteq Int
    BY PaymentAssumption
  <2>2. Len(batch) \in Nat /\ batch \in [1..Len(batch) -> Accounts \X Amounts]
    BY <2>1, LenProperties
  <2>3. Accounts \X Amounts \subseteq Accounts \X Int
    BY <2>1
  <2>4. batch \in [1..Len(batch) -> Accounts \X Int]
    BY <2>2, <2>3
  <2> QED
    BY <2>2, <2>4
<1>3. /\ \A i \in 1..Len(batch) : batch[i][2] > 0
      /\ Pulse({from})
  BY DEF BatchTipToken
<1>4. balance[t][from] >= Total(batch)
  BY DEF BatchTipToken, Total
<1>5. balance' = [balance EXCEPT ![t] = PaidOut(@, from, batch)]
  BY DEF BatchTipToken, PaidOut
<1>6. balance' = [balance EXCEPT ![t] = PaidOut(balance[t], from, batch)]
  BY <1>5 DEF PayTypeOK
<1>7. Spends(balance[t], PaidOut(balance[t], from, batch), from)
  BY <1>1, <1>2, <1>3, <1>4, BatchSpends
<1>8. PaidBy(from)
  BY <1>3 DEF PaidBy
<1>9. QED
  BY <1>1, <1>6, <1>7, <1>8 DEF BalancesMove

LEMMA StepMoves ==
  ASSUME PayTypeOK, [PayNext]_allVars
  PROVE  BalancesMove
<1>1. CASE Payment
  <2>1. PICK from \in Addrs, n \in Amounts :
          \/ \E t \in Tokens, to \in Accounts : TipToken(t, from, to, n) \/ TipTokenFrom(t, from, to, n)
          \/ \E t \in Tokens : Approve(t, from, n)
    <3>1. native \in Tokens
      BY DEF PayTypeOK
    <3>2. QED
      BY <1>1, <3>1, Zenon DEF Payment
  <2>2. from \in Accounts
    BY DEF Accounts
  <2>3. ASSUME NEW t \in Tokens, NEW to \in Accounts, TipToken(t, from, to, n) \/ TipTokenFrom(t, from, to, n)
        PROVE  BalancesMove
    <3>1. /\ n > 0 /\ balance[t][from] >= n /\ Pulse({from})
          /\ balance' = [balance EXCEPT ![t] = Moved(@, from, to, n)]
      BY <2>3, Zenon DEF TipToken, TipTokenFrom
    <3>2. PaidBy(from)
      BY <3>1 DEF PaidBy
    <3>3. QED
      BY <2>2, <3>1, <3>2, TransferMoves
  <2>4. ASSUME NEW t \in Tokens, Approve(t, from, n)
        PROVE  BalancesMove
    BY <2>4 DEF Approve, BalancesMove
  <2>5. QED
    BY <2>1, <2>3, <2>4
<1>2. CASE BatchPayment
  BY <1>2, BatchMoves, Zenon DEF BatchPayment
<1>3. CASE OwnerPayment
  <2>1. PICK auth \in SUBSET Addrs, t \in Tokens :
          \/ \E to \in Accounts, n \in Amounts : WithdrawToken(auth, t, to, n)
          \/ SetNativeTokenAddress(auth, t)
    BY <1>3, Zenon DEF OwnerPayment
  <2>2. Self \in Accounts
    BY DEF Accounts
  <2>3. ASSUME NEW to \in Accounts, NEW n \in Amounts, WithdrawToken(auth, t, to, n)
        PROVE  BalancesMove
    <3>1. /\ n > 0 /\ balance[t][Self] >= n /\ OwnerSigned(auth) /\ NoEffect(auth)
          /\ balance' = [balance EXCEPT ![t] = Moved(@, Self, to, n)]
      BY <2>3, Zenon DEF WithdrawToken
    <3>2. PaidBy(Self)
      BY <3>1, Zenon DEF PaidBy
    <3>3. QED
      BY <2>2, <3>1, <3>2, TransferMoves
  <2>4. CASE SetNativeTokenAddress(auth, t)
    BY <2>4 DEF SetNativeTokenAddress, BalancesMove
  <2>5. QED
    BY <2>1, <2>3, <2>4
<1>4. CASE UNCHANGED payVars
  BY <1>4 DEF payVars, BalancesMove
<1>5. QED
  BY <1>1, <1>2, <1>3, <1>4, Zenon DEF PayNext, allVars

LEMMA NativeStep ==
  ASSUME PayTypeOK, [PayNext]_allVars
  PROVE  native' \in Tokens
<1>1. Payment => UNCHANGED native
  BY Zenon DEF Payment, TipToken, TipTokenFrom, Approve
<1>2. BatchPayment => UNCHANGED native
  BY DEF BatchPayment, BatchTipToken
<1>3. OwnerPayment => native' \in Tokens
  BY DEF OwnerPayment, WithdrawToken, SetNativeTokenAddress, PayTypeOK
<1>4. UNCHANGED payVars => UNCHANGED native
  BY DEF payVars
<1>5. QED
  BY <1>1, <1>2, <1>3, <1>4 DEF PayNext, allVars, PayTypeOK

LEMMA TypesInit == PayInit => PayTypeOK
BY PaymentAssumption DEF PayInit, PayTypeOK

LEMMA TypesStep ==
  ASSUME PayTypeOK, [PayNext]_allVars
  PROVE  PayTypeOK'
<1>1. native' \in Tokens
  BY NativeStep
<1>2. AllowanceTyped'
  BY AllowanceStep DEF PayTypeOK, AllowanceTyped
<1>3. balance' \in [Tokens -> [Accounts -> Nat]]
  <2>1. CASE balance' = balance
    BY <2>1 DEF PayTypeOK
  <2>2. ASSUME NEW t \in Tokens, NEW from \in Accounts, NEW c,
               Spends(balance[t], c, from), balance' = [balance EXCEPT ![t] = c]
        PROVE  balance' \in [Tokens -> [Accounts -> Nat]]
    BY <2>2 DEF Spends, PayTypeOK
  <2>3. QED
    BY <2>1, <2>2, StepMoves DEF BalancesMove
<1>4. QED
  BY <1>1, <1>2, <1>3 DEF PayTypeOK, AllowanceTyped

(* Balances and allowances never go negative, and the native token is      *)
(* always one of the token contracts.                                      *)
THEOREM PaymentsTyped == PaySpec => []PayTypeOK
<1>1. PayTypeOK /\ [PayNext]_allVars => PayTypeOK'
  BY TypesStep
<1>2. QED
  BY <1>1, TypesInit, PTL DEF PaySpec

(* An account whose balance falls is the one that pays by the rules.       *)
LEMMA PayersPayByRule ==
  ASSUME PayTypeOK, [PayNext]_allVars,
         NEW t \in Tokens, NEW x \in Accounts, balance'[t][x] < balance[t][x]
  PROVE  PaidBy(x)
<1>1. balance \in [Tokens -> [Accounts -> Nat]]
  BY DEF PayTypeOK
<1>2. balance' # balance
  BY <1>1
<1>3. PICK u \in Tokens, from \in Accounts :
        /\ PaidBy(from)
        /\ \E c : Spends(balance[u], c, from) /\ balance' = [balance EXCEPT ![u] = c]
  BY <1>2, StepMoves DEF BalancesMove
<1>4. PICK c : Spends(balance[u], c, from) /\ balance' = [balance EXCEPT ![u] = c]
  BY <1>3
<1>5. c \in [Accounts -> Nat] /\ \A y \in Accounts \ {from} : c[y] >= balance[u][y]
  BY <1>4 DEF Spends
<1>6. u = t /\ balance'[t] = c
  BY <1>1, <1>4
<1>7. x = from
  BY <1>1, <1>5, <1>6
<1>8. QED
  BY <1>3, <1>7

(* Nobody's tokens are spent without their signature, and the contract's   *)
(* own only with its owner's.                                              *)
THEOREM DebitsConsented == PaySpec => DebitsNeedConsent
<1>1. ASSUME PayTypeOK, [PayNext]_allVars,
             NEW t \in Tokens, NEW x \in Accounts, balance'[t][x] < balance[t][x]
      PROVE  x \in signed' \/ (x = Self /\ OwnerSigned(signed'))
  <2>1. PaidBy(x)
    BY <1>1, PayersPayByRule
  <2>2. CASE Pulse({x})
    BY <2>2 DEF Pulse
  <2>3. ASSUME x = Self, NEW auth \in SUBSET Addrs, OwnerSigned(auth), NoEffect(auth)
        PROVE  x = Self /\ OwnerSigned(signed')
    BY <2>3 DEF OwnerSigned, NoEffect
  <2>4. QED
    BY <2>1, <2>2, <2>3 DEF PaidBy
<1>2. PayTypeOK /\ [PayNext]_allVars =>
        [\A t \in Tokens, x \in Accounts : balance'[t][x] < balance[t][x] =>
           x \in signed' \/ (x = Self /\ OwnerSigned(signed'))]_allVars
  BY <1>1
<1>3. QED
  BY <1>2, PaymentsTyped, PTL DEF PaySpec, DebitsNeedConsent

(* Every payment by an address fires exactly one pulse, of a running       *)
(* contract, and a withdrawal fires none.                                  *)
THEOREM PaymentsPulse == PaySpec => PaidMeansPulsed
<1>1. ASSUME PayTypeOK, [PayNext]_allVars,
             NEW t \in Tokens, NEW x \in Accounts, balance'[t][x] < balance[t][x]
      PROVE  IF x = Self THEN count' = count ELSE count' = count + 1 /\ ~paused
  <2>1. PaidBy(x)
    BY <1>1, PayersPayByRule
  <2>2. CASE x \in Addrs /\ Pulse({x})
    <3>1. x # Self
      BY <2>2, ConstAssumption
    <3>2. count' = count + 1 /\ ~paused
      BY <2>2 DEF Pulse, FirePulses
    <3>3. QED
      BY <3>1, <3>2
  <2>3. ASSUME x = Self, NEW auth \in SUBSET Addrs, OwnerSigned(auth), NoEffect(auth)
        PROVE  x = Self /\ count' = count
    BY <2>3 DEF NoEffect, pulses
  <2>4. QED
    BY <2>1, <2>2, <2>3 DEF PaidBy
<1>2. PayTypeOK /\ [PayNext]_allVars =>
        [\A t \in Tokens, x \in Accounts : balance'[t][x] < balance[t][x] =>
           IF x = Self THEN count' = count ELSE count' = count + 1 /\ ~paused]_allVars
  BY <1>1
<1>3. QED
  BY <1>2, PaymentsTyped, PTL DEF PaySpec, PaidMeansPulsed

-----------------------------------------------------------------------------
(* Pulls *)

(* A pull takes the amount from the allowance and moves it, with a pulse.  *)
LEMMA PullMoves ==
  ASSUME PayTypeOK, NEW t \in Tokens, NEW a \in Addrs, NEW to \in Accounts, NEW n \in Amounts,
         TipTokenFrom(t, a, to, n)
  PROVE  /\ a \in signed' /\ count' = count + 1 /\ ~paused
         /\ Went(t, a, allowance[t][a] - allowance'[t][a])
<1>1. a \in Accounts /\ n \in Int /\ allowance[t][a] \in Int /\ balance[t] \in [Accounts -> Int]
  <2>1. a \in Accounts /\ n \in Int
    BY PaymentAssumption DEF Accounts
  <2>2. allowance[t][a] \in Nat /\ balance[t] \in [Accounts -> Nat]
    BY DEF PayTypeOK
  <2>3. QED
    BY <2>1, <2>2
<1>2. a \in signed' /\ count' = count + 1 /\ ~paused
  BY DEF TipTokenFrom, Pulse, FirePulses
<1>3. allowance[t][a] - allowance'[t][a] = n
  <2>1. allowance' = [allowance EXCEPT ![t][a] = allowance[t][a] - n]
    BY DEF TipTokenFrom
  <2>2. allowance'[t][a] = allowance[t][a] - n
    BY <2>1 DEF PayTypeOK
  <2>3. QED
    BY <1>1, <2>2
<1>4. PICK b \in [Accounts -> Int] : b = balance[t]
  BY <1>1
<1>5. PICK c : c = Moved(b, a, to, n)
  OBVIOUS
<1>6. balance' = [balance EXCEPT ![t] = c]
  BY <1>4, <1>5 DEF TipTokenFrom, PayTypeOK
<1>7. \A u \in Tokens : balance'[u] = IF u = t THEN c ELSE balance[u]
  BY <1>6 DEF PayTypeOK
<1>8. \A x \in Accounts : c[x] - b[x] = CASE x = a /\ to # a  -> -n
                                          [] x = to /\ to # a -> n
                                          [] OTHER -> 0
  <2>1. /\ \A x \in Accounts : x # a /\ x # to => c[x] = b[x]
        /\ a # to => c[a] = b[a] - n /\ c[to] = b[to] + n
        /\ a = to => c[to] = b[to]
    BY <1>1, <1>5, MovedValues
  <2>2. \A x \in Accounts : b[x] \in Int
    OBVIOUS
  <2>3. QED
    BY <1>1, <2>1, <2>2
<1>9. \A u \in Tokens, x \in Accounts : balance[u][x] \in Int
  BY DEF PayTypeOK
<1>10. ASSUME NEW u \in Tokens, NEW x \in Accounts
       PROVE  balance'[u][x] - balance[u][x] = CASE u = t /\ x = a /\ to # a  -> -n
                                                 [] u = t /\ x = to /\ to # a -> n
                                                 [] OTHER -> 0
  <2>1. CASE u = t
    BY <1>4, <1>7, <1>8, <2>1
  <2>2. CASE u # t
    BY <1>7, <1>9, <2>2
  <2>3. QED
    BY <2>1, <2>2
<1>11. Went(t, a, n)
  BY <1>10 DEF Went
<1>12. QED
  BY <1>2, <1>3, <1>11

(* An allowance falls only with its holder's signature, and unless the     *)
(* holder set it, exactly what it fell by left the holder's balance for    *)
(* one account, with one pulse: through tips, batches, withdrawals, pulls  *)
(* and every call of the core.                                             *)
THEOREM AllowancePulled == PaySpec => AllowanceIsPulled
<1> DEFINE Fell(t, a) ==
      /\ a \in signed'
      /\ \/ UNCHANGED <<balance, count>>
         \/ /\ count' = count + 1 /\ ~paused
            /\ Went(t, a, allowance[t][a] - allowance'[t][a])
<1>1. ASSUME PayTypeOK, [PayNext]_allVars,
             NEW t \in Tokens, NEW a \in Addrs, allowance'[t][a] < allowance[t][a]
      PROVE  Fell(t, a)
  <2>1. allowance' # allowance
    BY <1>1 DEF PayTypeOK
  <2>2. PICK u \in Tokens, b \in Addrs, n \in Amounts :
          \/ Approve(u, b, n)
          \/ \E to \in Accounts : TipTokenFrom(u, b, to, n)
    BY <1>1, <2>1, AllowanceWriters
  <2>3. u = t /\ b = a
    <3>1. \E m : allowance' = [allowance EXCEPT ![u][b] = m]
      BY <2>2, Zenon DEF Approve, TipTokenFrom
    <3>2. allowance \in [Tokens -> [Addrs -> Nat]]
      BY <1>1 DEF PayTypeOK
    <3>3. QED
      BY <1>1, <3>1, <3>2
  <2>4. CASE Approve(t, a, n)
    BY <2>4 DEF Approve, NoEffect, pulses
  <2>5. ASSUME NEW to \in Accounts, TipTokenFrom(t, a, to, n)
        PROVE  Fell(t, a)
    BY <1>1, <2>5, PullMoves
  <2>6. QED
    BY <2>2, <2>3, <2>4, <2>5
<1>2. PayTypeOK /\ [PayNext]_allVars =>
        [\A t \in Tokens, a \in Addrs : allowance'[t][a] < allowance[t][a] => Fell(t, a)]_allVars
  BY <1>1
<1>3. QED
  BY <1>2, PaymentsTyped, PTL DEF PaySpec, AllowanceIsPulled
=============================================================================
