-------------------------- MODULE PulseContractProofs --------------------------
(***************************************************************************)
(* Theorems about PulseContract, for every value of its constants.         *)
(***************************************************************************)
EXTENDS PulseContract, TLAPS

USE DEF meta, pulses, quorum, limits, vars, Accounts, OwnerSigned, EffectiveLimit

(* The conjunction that is inductive: types, and for each storage key what *)
(* the guards of its writers guarantee.                                    *)
IInv ==
  /\ TypeOK
  /\ CommitteeWellFormed
  /\ AuditTrail
  /\ UninitializedIsPristine
  /\ killed => version = MaxU32

LEMMA InitEstablishes == Init => IInv
<1> SUFFICES ASSUME Init PROVE IInv
  OBVIOUS
<1> USE ConstAssumption DEF Init
<1>1. TypeOK
  <2>1. <<>> \in Seq(Addrs)
    BY ONLY SMT
  <2>2. signers \in Seq(Addrs)
    BY ONLY Init, <2>1 DEF Init
  <2>3. addrLimit \in [Addrs -> Nat] /\ lastFrom \in [Addrs -> 0..MaxTime]
    OBVIOUS
  <2>4. version \in 1..MaxU32 /\ cap \in 0..MaxU32 /\ now \in 1..MaxTime
    OBVIOUS
  <2>5. count \in 0..MaxU32 /\ record \in 0..MaxU32 /\ received \in 0..MaxU32
        /\ lastPulseAt \in 0..MaxTime
    OBVIOUS
  <2>6. QED
    BY <2>2, <2>3, <2>4, <2>5 DEF TypeOK
<1>2. CommitteeWellFormed /\ AuditTrail /\ UninitializedIsPristine
  BY DEF CommitteeWellFormed, AuditTrail, UninitializedIsPristine
<1>3. QED
  BY <1>1, <1>2 DEF IInv

(* Next is a disjunction under two quantifiers; this names its cases once. *)
LEMMA NextCases ==
  ASSUME Next
  PROVE  \/ \E auth \in SUBSET Addrs :
              \/ \E o \in Addrs : Initialize(auth, o)
              \/ \E o \in Addrs : TransferOwnership(auth, o)
              \/ \E v \in 1..MaxU32 : UpgradeVersion(auth, v)
              \/ \E list \in SignerLists : \E k \in 0..Len(list) : SetSigners(auth, list, k)
              \/ \E p \in BOOLEAN : SetPaused(auth, p)
              \/ \E p \in BOOLEAN : EmergencySetPaused(auth, p)
              \/ Kill(auth)
              \/ \E c \in CapChoices : SetMaxPulseCount(auth, c)
              \/ \E s \in Intervals : SetDefaultRateLimit(auth, s)
              \/ \E a \in Addrs, s \in Intervals : SetAddressRateLimit(auth, a, s)
              \/ Pulse(auth)
              \/ \E n \in 1..MaxU32 : BatchPulse(auth, n)
              \/ \E n \in Announced : OnPulseReceived(auth, n)
              \/ \E a \in Addrs : PulseFrom(auth, a)
              \/ NoEffect(auth)
         \/ LedgerCloses
BY Zenon DEF Next, AdminCall, PulseCall, BroadcastPulse, TimeLockedPulse, RateLimitedPulse

LEMMA NextPreserves == IInv /\ [Next]_vars => IInv'
<1> SUFFICES ASSUME IInv, [Next]_vars
             PROVE  IInv'
  OBVIOUS
<1> USE ConstAssumption DEF IInv, TypeOK, CommitteeWellFormed, AuditTrail, UninitializedIsPristine
<1>1. ASSUME NEW auth \in SUBSET Addrs, NEW o \in Addrs, Initialize(auth, o)
      PROVE  IInv'
  BY <1>1 DEF Initialize
<1>2. ASSUME NEW auth \in SUBSET Addrs, NEW o \in Addrs, TransferOwnership(auth, o)
      PROVE  IInv'
  BY <1>2 DEF TransferOwnership
<1>3. ASSUME NEW auth \in SUBSET Addrs, NEW v \in 1..MaxU32, UpgradeVersion(auth, v)
      PROVE  IInv'
  BY <1>3 DEF UpgradeVersion
<1>4. ASSUME NEW auth \in SUBSET Addrs, NEW list \in SignerLists, NEW k \in 0..Len(list),
             SetSigners(auth, list, k)
      PROVE  IInv'
  <2>1. list \in Seq(Addrs) /\ k \in Nat
    OBVIOUS
  <2>2. owner \in Addrs /\ initialized
    BY <1>4 DEF SetSigners
  <2>3. QED
    BY <1>4, <2>1, <2>2 DEF SetSigners
<1>5. ASSUME NEW auth \in SUBSET Addrs, NEW p \in BOOLEAN, SetPaused(auth, p)
      PROVE  IInv'
  BY <1>5 DEF SetPaused
<1>6. ASSUME NEW auth \in SUBSET Addrs, NEW p \in BOOLEAN, EmergencySetPaused(auth, p)
      PROVE  IInv'
  BY <1>6 DEF EmergencySetPaused
<1>7. ASSUME NEW auth \in SUBSET Addrs, Kill(auth)
      PROVE  IInv'
  BY <1>7 DEF Kill
<1>8. ASSUME NEW auth \in SUBSET Addrs, NEW c \in CapChoices, SetMaxPulseCount(auth, c)
      PROVE  IInv'
  BY <1>8 DEF SetMaxPulseCount
<1>9. ASSUME NEW auth \in SUBSET Addrs, NEW s \in Intervals, SetDefaultRateLimit(auth, s)
      PROVE  IInv'
  BY <1>9 DEF SetDefaultRateLimit
<1>10. ASSUME NEW auth \in SUBSET Addrs, NEW a \in Addrs, NEW s \in Intervals,
              SetAddressRateLimit(auth, a, s)
       PROVE  IInv'
  BY <1>10 DEF SetAddressRateLimit
<1>11. ASSUME NEW auth \in SUBSET Addrs, Pulse(auth)
       PROVE  IInv'
  BY <1>11 DEF Pulse, FirePulses, CanCount
<1>12. ASSUME NEW auth \in SUBSET Addrs, NEW n \in 1..MaxU32, BatchPulse(auth, n)
       PROVE  IInv'
  BY <1>12 DEF BatchPulse, FirePulses, CanCount
<1>13. ASSUME NEW auth \in SUBSET Addrs, NEW n \in Announced, OnPulseReceived(auth, n)
       PROVE  IInv'
  BY <1>13 DEF OnPulseReceived
<1>14. ASSUME NEW auth \in SUBSET Addrs, NEW a \in Addrs, PulseFrom(auth, a)
       PROVE  IInv'
  <2>1. lastFrom' \in [Addrs -> 0..MaxTime]
    <3>1. \/ lastFrom' = lastFrom
          \/ lastFrom' = [lastFrom EXCEPT ![a] = now]
      BY <1>14 DEF PulseFrom
    <3>2. lastFrom \in [Addrs -> 0..MaxTime] /\ now \in 0..MaxTime
      OBVIOUS
    <3>3. QED
      BY ONLY <3>1, <3>2, SMT
  <2>2. count' \in 0..MaxU32 /\ lastPulseAt' \in 0..MaxTime
    BY <1>14 DEF PulseFrom, FirePulses, CanCount
  <2>3. initialized \/ lastFrom' = lastFrom
    BY <1>14 DEF PulseFrom
  <2>4. QED
    BY <1>14, <2>1, <2>2, <2>3 DEF PulseFrom
<1>15. ASSUME NEW auth \in SUBSET Addrs, NoEffect(auth)
       PROVE  IInv'
  BY <1>15 DEF NoEffect
<1>16. ASSUME LedgerCloses
       PROVE  IInv'
  BY <1>16 DEF LedgerCloses
<1>17. CASE UNCHANGED vars
  BY <1>17
<1>18. QED
  BY <1>1, <1>2, <1>3, <1>4, <1>5, <1>6, <1>7, <1>8, <1>9, <1>10, <1>11, <1>12,
     <1>13, <1>14, <1>15, <1>16, <1>17, NextCases

-----------------------------------------------------------------------------
(* Invariants *)

(* Every reachable state of the contract satisfies the strengthening IInv. *)
THEOREM Invariance == Spec => []IInv
<1>1. Init => IInv
  BY InitEstablishes
<1>2. IInv /\ [Next]_vars => IInv'
  BY NextPreserves
<1>3. QED
  BY <1>1, <1>2, PTL DEF Spec

(* Types: the u32 counter and version never leave their range, whatever    *)
(* sequence of calls, signers and amounts (lib.rs has no wrapping write).  *)
THEOREM TypesKept == Spec => []TypeOK
<1>1. IInv => TypeOK
  BY DEF IInv
<1>2. QED
  BY <1>1, Invariance, PTL

(* No sequence of set_signers calls, with lists of any length, leaves a    *)
(* committee with a repeated signer or an unreachable threshold.           *)
THEOREM CommitteeSound == Spec => []CommitteeWellFormed
<1>1. IInv => CommitteeWellFormed
  BY DEF IInv
<1>2. QED
  BY <1>1, Invariance, PTL

(* The persistent VERSION record and the version in META_KEY agree but for *)
(* the first version and a killed contract.                                *)
THEOREM AuditTrailKept == Spec => []AuditTrail
<1>1. IInv => AuditTrail
  BY DEF IInv
<1>2. QED
  BY <1>1, Invariance, PTL

(* Before initialize or transfer_ownership no owner-gated entry point has  *)
(* left any trace in storage.                                              *)
THEOREM PristineBeforeOwner == Spec => []UninitializedIsPristine
<1>1. IInv => UninitializedIsPristine
  BY DEF IInv
<1>2. QED
  BY <1>1, Invariance, PTL

-----------------------------------------------------------------------------
(* Action properties.  The one fact behind the counter, the pause and the  *)
(* cooldown: the calls split into those that fire a pulse and those that   *)
(* leave the pulse data and the rate-limit histories alone.                *)

LEMMA PulsesOnlyFired ==
  ASSUME TypeOK, [Next]_vars
  PROVE  \/ UNCHANGED <<pulses, lastFrom>>
         \/ /\ \E n \in 1..MaxU32 : FirePulses(n)
            /\ UNCHANGED <<cap, lastFrom>>
         \/ /\ FirePulses(1)
            /\ UNCHANGED <<cap, addrLimit, defaultLimit>>
            /\ \E a \in Addrs :
                 /\ lastFrom' = [lastFrom EXCEPT ![a] = now]
                 /\ lastFrom[a] > 0 => now - lastFrom[a] >= EffectiveLimit(a)
<1> USE ConstAssumption
<1>1. 1 \in 1..MaxU32
  OBVIOUS
<1>2. CASE UNCHANGED vars
  BY <1>2
<1>3. CASE Next
  <2>1. ASSUME NEW auth \in SUBSET Addrs, Pulse(auth)
        PROVE  (\E n \in 1..MaxU32 : FirePulses(n)) /\ UNCHANGED <<cap, lastFrom>>
    BY <2>1, <1>1, Zenon DEF Pulse
  <2>2. ASSUME NEW auth \in SUBSET Addrs, NEW n \in 1..MaxU32, BatchPulse(auth, n)
        PROVE  (\E m \in 1..MaxU32 : FirePulses(m)) /\ UNCHANGED <<cap, lastFrom>>
    BY <2>2, Zenon DEF BatchPulse
  <2>3. ASSUME NEW auth \in SUBSET Addrs, NEW a \in Addrs, PulseFrom(auth, a)
        PROVE  /\ FirePulses(1)
               /\ UNCHANGED <<cap, addrLimit, defaultLimit>>
               /\ \/ UNCHANGED lastFrom
                  \/ /\ lastFrom' = [lastFrom EXCEPT ![a] = now]
                     /\ lastFrom[a] > 0 => now - lastFrom[a] >= EffectiveLimit(a)
    BY <2>3 DEF PulseFrom
  <2>4. ASSUME NEW auth \in SUBSET Addrs,
               NEW o, NEW v, NEW list, NEW k, NEW p, NEW c, NEW s, NEW a, NEW n,
               \/ Initialize(auth, o) \/ TransferOwnership(auth, o)
               \/ UpgradeVersion(auth, v) \/ SetSigners(auth, list, k)
               \/ SetPaused(auth, p) \/ EmergencySetPaused(auth, p) \/ Kill(auth)
               \/ SetMaxPulseCount(auth, c) \/ SetDefaultRateLimit(auth, s)
               \/ SetAddressRateLimit(auth, a, s) \/ OnPulseReceived(auth, n)
               \/ NoEffect(auth) \/ LedgerCloses
        PROVE  UNCHANGED <<pulses, lastFrom>>
    BY <2>4 DEF Initialize, TransferOwnership, UpgradeVersion, SetSigners, SetPaused,
       EmergencySetPaused, Kill, SetMaxPulseCount, SetDefaultRateLimit,
       SetAddressRateLimit, OnPulseReceived, NoEffect, LedgerCloses
  <2>5. QED
    BY <1>1, <1>3, <2>1, <2>2, <2>3, <2>4, NextCases
<1>4. QED
  BY <1>2, <1>3

(* No entry point, whatever the batch size, moves the counter back or past *)
(* the cap in force.                                                       *)
THEOREM CapHolds == Spec => CapNeverPassed
<1>1. TypeOK /\ [Next]_vars =>
        (count' # count => count' > count /\ count' <= cap /\ cap' = cap)
  BY PulsesOnlyFired, ConstAssumption DEF FirePulses, CanCount, TypeOK
<1>2. QED
  BY <1>1, TypesKept, PTL DEF Spec, CapNeverPassed

(* While the contract is paused, no entry point fires a pulse.             *)
THEOREM PauseHolds == Spec => PauseFreezesPulses
<1>1. TypeOK /\ [Next]_vars => (paused => UNCHANGED <<pulses, lastFrom>>)
  BY PulsesOnlyFired, Zenon DEF FirePulses
<1>2. QED
  BY <1>1, TypesKept, PTL DEF Spec, PauseFreezesPulses

(* Any two recorded pulses of one address are spaced by its limit.         *)
THEOREM CooldownHolds == Spec => CooldownSpacing
<1>1. ASSUME TypeOK, [Next]_vars, NEW a \in Addrs, lastFrom'[a] # lastFrom[a]
      PROVE  /\ count' = count + 1
             /\ lastFrom[a] = 0 \/ lastFrom'[a] - lastFrom[a] >= EffectiveLimit(a)
  <2>1. FirePulses(1)
    BY <1>1, PulsesOnlyFired
  <2>2. PICK b \in Addrs :
          /\ lastFrom' = [lastFrom EXCEPT ![b] = now]
          /\ lastFrom[b] > 0 => now - lastFrom[b] >= EffectiveLimit(b)
    BY <1>1, PulsesOnlyFired
  <2>3. lastFrom \in [Addrs -> Nat] /\ now \in Nat
    BY <1>1, ConstAssumption DEF TypeOK
  <2>4. b = a
    BY <1>1, <2>2, <2>3
  <2>5. QED
    BY <1>1, <2>1, <2>2, <2>3, <2>4 DEF FirePulses
<1>2. TypeOK /\ [Next]_vars =>
        \A a \in Addrs : lastFrom'[a] # lastFrom[a] =>
          /\ count' = count + 1
          /\ lastFrom[a] = 0 \/ lastFrom'[a] - lastFrom[a] >= EffectiveLimit(a)
  BY <1>1
<1>3. QED
  BY <1>2, TypesKept, PTL DEF Spec, CooldownSpacing

(* Which calls write META_KEY, and under whose signatures.                 *)
LEMMA MetaWriters ==
  ASSUME TypeOK, UninitializedIsPristine, [Next]_vars
  PROVE  \/ UNCHANGED meta
         \/ ~initialized /\ paused' = FALSE /\ version' = 1
         \/ OwnerSigned(signed') /\ UNCHANGED <<paused, version>>
         \/ /\ OwnerSigned(signed') /\ UNCHANGED <<owner, paused>>
            /\ version' > version
         \/ OwnerSigned(signed') /\ UNCHANGED <<owner, version>>
         \/ OwnerSigned(signed') /\ UNCHANGED owner /\ version' = MaxU32
         \/ CommitteeSigned(signed') /\ UNCHANGED <<owner, version>>
<1> USE ConstAssumption
<1>1. CASE UNCHANGED vars
  BY <1>1
<1>2. CASE Next
  <2>1. ASSUME NEW auth \in SUBSET Addrs, NEW o \in Addrs, Initialize(auth, o)
        PROVE  ~initialized /\ paused' = FALSE /\ version' = 1
    BY <2>1 DEF Initialize
  <2>2. ASSUME NEW auth \in SUBSET Addrs, NEW o \in Addrs, TransferOwnership(auth, o)
        PROVE  \/ ~initialized /\ paused' = FALSE /\ version' = 1
               \/ OwnerSigned(signed') /\ UNCHANGED <<paused, version>>
    BY <2>2 DEF TransferOwnership, UninitializedIsPristine
  <2>3. ASSUME NEW auth \in SUBSET Addrs, NEW v \in 1..MaxU32, UpgradeVersion(auth, v)
        PROVE  OwnerSigned(signed') /\ UNCHANGED <<owner, paused>> /\ version' > version
    BY <2>3 DEF UpgradeVersion
  <2>4. ASSUME NEW auth \in SUBSET Addrs, NEW p \in BOOLEAN, SetPaused(auth, p)
        PROVE  OwnerSigned(signed') /\ UNCHANGED <<owner, version>>
    BY <2>4 DEF SetPaused
  <2>5. ASSUME NEW auth \in SUBSET Addrs, Kill(auth)
        PROVE  OwnerSigned(signed') /\ UNCHANGED owner /\ version' = MaxU32
    BY <2>5 DEF Kill
  <2>6. ASSUME NEW auth \in SUBSET Addrs, NEW p \in BOOLEAN, EmergencySetPaused(auth, p)
        PROVE  CommitteeSigned(signed') /\ UNCHANGED <<owner, version>>
    BY <2>6 DEF EmergencySetPaused, CommitteeSigned
  <2>7. ASSUME NEW auth, NEW list, NEW k, NEW c, NEW s, NEW a, NEW n,
               \/ SetSigners(auth, list, k) \/ SetMaxPulseCount(auth, c)
               \/ SetDefaultRateLimit(auth, s) \/ SetAddressRateLimit(auth, a, s)
               \/ Pulse(auth) \/ BatchPulse(auth, n) \/ OnPulseReceived(auth, n)
               \/ PulseFrom(auth, a) \/ NoEffect(auth) \/ LedgerCloses
        PROVE  UNCHANGED meta
    BY <2>7 DEF SetSigners, SetMaxPulseCount, SetDefaultRateLimit, SetAddressRateLimit,
       Pulse, BatchPulse, OnPulseReceived, PulseFrom, NoEffect, LedgerCloses
  <2>8. QED
    BY <1>2, <2>1, <2>2, <2>3, <2>4, <2>5, <2>6, <2>7, NextCases
<1>3. QED
  BY <1>1, <1>2

(* The pause switch moves only under the owner's or the committee's        *)
(* signatures.                                                             *)
THEOREM PauseAuthorized == Spec => PauseNeedsAuthority
<1>1. IInv /\ [Next]_vars =>
        (paused' # paused => OwnerSigned(signed') \/ CommitteeSigned(signed'))
  <2>1. SUFFICES ASSUME IInv, [Next]_vars, paused' # paused
                 PROVE  OwnerSigned(signed') \/ CommitteeSigned(signed')
    OBVIOUS
  <2>2. initialized \/ paused = FALSE
    BY <2>1 DEF IInv, UninitializedIsPristine
  <2>3. QED
    BY <2>1, <2>2, MetaWriters, Zenon DEF IInv
<1>2. QED
  BY <1>1, Invariance, PTL DEF Spec, PauseNeedsAuthority

(* An owner is replaced only by a call that owner signed.                  *)
THEOREM OwnershipGuarded == Spec => OwnerConsents
<1>1. IInv /\ [Next]_vars =>
        (initialized /\ owner' # owner => OwnerSigned(signed'))
  BY MetaWriters DEF IInv
<1>2. QED
  BY <1>1, Invariance, PTL DEF Spec, OwnerConsents

(* The version never goes back: is_killed stays true once it is.           *)
THEOREM VersionNeverBack == Spec => VersionMonotonic
<1>1. ASSUME IInv, [Next]_vars
      PROVE  version' >= version
  <2>1. version \in 1..MaxU32 /\ version' \in 1..MaxU32 /\ MaxU32 \in Nat
    BY <1>1, NextPreserves, ConstAssumption DEF IInv, TypeOK
  <2>2. initialized \/ version = 1
    BY <1>1 DEF IInv, UninitializedIsPristine
  <2>3. \/ version' = version \/ version' > version \/ version' = MaxU32
        \/ version' = 1 /\ ~initialized
    BY <1>1, MetaWriters, Zenon DEF IInv
  <2>4. QED
    BY ONLY <2>1, <2>2, <2>3, SMT
<1>2. ASSUME [Next]_vars, killed
      PROVE  killed'
  <2>1. CASE UNCHANGED vars
    BY <1>2, <2>1
  <2>2. CASE Next
    BY <1>2, <2>2, NextCases DEF Initialize, TransferOwnership, UpgradeVersion, SetSigners,
       SetPaused, EmergencySetPaused, Kill, SetMaxPulseCount, SetDefaultRateLimit,
       SetAddressRateLimit, Pulse, BatchPulse, OnPulseReceived, PulseFrom, NoEffect,
       LedgerCloses
  <2>3. QED
    BY <1>2, <2>1, <2>2
<1>3. IInv /\ IInv' /\ [Next]_vars =>
        version' >= version /\ (killed => killed' /\ version' = MaxU32)
  <2>1. IInv' => (killed' => version' = MaxU32)
    BY DEF IInv
  <2>2. QED
    BY <1>1, <1>2, <2>1
<1>4. QED
  BY <1>3, Invariance, PTL DEF Spec, VersionMonotonic
=============================================================================
