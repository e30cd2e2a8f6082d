---------------------------- MODULE PulseContract ----------------------------
(***************************************************************************)
(* The Soroban contract contracts/pulse/src/lib.rs without its payment     *)
(* rails (module PulsePayments adds those): ownership, pause, kill switch, *)
(* signer committee, version trail, pulse counter with its cap, per-       *)
(* address rate limits.                                                    *)
(*                                                                         *)
(* A contract call is one atomic step: the host rolls back every write of  *)
(* a call that returns Err or panics, so a rejected call is the step       *)
(* NoEffect.  A transaction carries the set auth of addresses that signed  *)
(* it; a.require_auth() is a \in auth.  The contract's own address Self    *)
(* signs nothing.  Ledger timestamps are positive; 0 stands for None.      *)
(* Caller symbols are abstracted: no guard but the emptiness check reads   *)
(* them, and a call it rejects is a NoEffect step.                         *)
(***************************************************************************)
EXTENDS Integers, Sequences, FiniteSets

CONSTANTS
  Addrs,          \* addresses that can sign transactions
  Self,           \* env.current_contract_address()
  MaxU32,         \* u32::MAX, scaled down
  MaxBatchSize,   \* MAX_BATCH_SIZE
  MaxTime,        \* bound: last ledger timestamp explored
  CapChoices,     \* arguments tried for set_max_pulse_count
  Intervals,      \* arguments tried for rate limits and cooldowns
  SignerLists,    \* arguments tried for set_signers
  Announced       \* pulse numbers other contracts report to on_pulse_received

ASSUME ConstAssumption ==
  /\ Self \notin Addrs
  /\ MaxU32 \in Nat \ {0}
  /\ MaxBatchSize \in Nat
  /\ MaxTime \in Nat \ {0}
  /\ CapChoices \subseteq 0..MaxU32
  /\ Intervals \subseteq Nat
  /\ SignerLists \subseteq Seq(Addrs)
  /\ Announced \subseteq 0..MaxU32

VARIABLES
  initialized,    \* instance storage has META_KEY
  owner, paused, version,          \* ContractMeta
  count, lastPulseAt,              \* PulseData
  cap,            \* MAX_PULSE_COUNT_KEY, u32::MAX when unset
  signers, threshold,              \* MULTISIG_KEY
  record,         \* version in the persistent VERSION record, 0 when absent
  defaultLimit,   \* DEFAULT_RATE_LIMIT_KEY
  addrLimit,      \* ADDRESS_RATE_LIMIT_KEY, per address
  lastFrom,       \* ADDRESS_LAST_PULSE_KEY, per address
  received,       \* RX_PULSE_KEY: the last pulse number received
  now,            \* ledger timestamp
  signed,         \* signatures of the last transaction (for the properties)
  killed          \* kill() has succeeded once (for the properties)

meta    == <<initialized, owner, paused, version>>
pulses  == <<count, lastPulseAt>>
quorum  == <<signers, threshold>>
limits  == <<defaultLimit, addrLimit, lastFrom>>
vars    == <<meta, pulses, cap, quorum, record, limits, received, now, signed, killed>>

Accounts == Addrs \cup {Self}

(* get_or_create_meta: without META_KEY the contract reads as owned by     *)
(* itself, running, at version 1; the variables start with those values.   *)
Init ==
  /\ initialized = FALSE /\ owner = Self /\ paused = FALSE /\ version = 1
  /\ count = 0 /\ lastPulseAt = 0
  /\ cap = MaxU32
  /\ signers = <<>> /\ threshold = 0
  /\ record = 0
  /\ defaultLimit = 0
  /\ addrLimit = [a \in Addrs |-> 0]
  /\ lastFrom = [a \in Addrs |-> 0]
  /\ received = 0
  /\ now = 1
  /\ signed = {}
  /\ killed = FALSE

-----------------------------------------------------------------------------
(* Helpers of the contract *)

OwnerSigned(auth) == owner \in auth

(* The first threshold addresses of the stored list must all sign.         *)
CommitteeSigned(auth) ==
  /\ 0 < threshold /\ threshold <= Len(signers)
  /\ \A i \in 1..threshold : signers[i] \in auth

(* An override of 0 is no override. *)
EffectiveLimit(a) == IF addrLimit[a] > 0 THEN addrLimit[a] ELSE defaultLimit

(* Seeded bug: the counter is compared with the cap before n is added.     *)
CanCountBeforeAdding(n) == count < cap

(* Seeded bug: only the u32 overflow is checked.                           *)
CanCountUncapped(n) == count + n <= MaxU32

CanCount(n) == count + n <= MaxU32 /\ count + n <= cap

(* Seeded bug: ensure_not_paused forgotten.                                *)
FirePulsesWhilePaused(n) == CanCount(n) /\ count' = count + n /\ lastPulseAt' = now

FirePulses(n) ==
  /\ ~paused
  /\ CanCount(n)
  /\ count' = count + n
  /\ lastPulseAt' = now

-----------------------------------------------------------------------------
(* Entry points *)

Initialize(auth, o) ==
  /\ ~initialized
  /\ initialized' = TRUE /\ owner' = o /\ paused' = FALSE /\ version' = 1
  /\ signed' = auth
  /\ UNCHANGED <<pulses, cap, quorum, record, limits, received, now, killed>>

(* Seeded bug: the new owner authorizes the transfer in every case.        *)
TransferOwnershipByHeir(auth, o) ==
  /\ o \in auth
  /\ initialized' = TRUE /\ owner' = o
  /\ signed' = auth
  /\ UNCHANGED <<paused, version, pulses, cap, quorum, record, limits, received, now, killed>>

(* On an uninitialized contract the new owner authorizes the transfer.     *)
TransferOwnership(auth, o) ==
  /\ IF initialized THEN OwnerSigned(auth) ELSE o \in auth
  /\ initialized' = TRUE /\ owner' = o
  /\ signed' = auth
  /\ UNCHANGED <<paused, version, pulses, cap, quorum, record, limits, received, now, killed>>

(* Seeded bug: the persistent VERSION record is not written.               *)
UpgradeVersionUnrecorded(auth, v) ==
  /\ OwnerSigned(auth)
  /\ v > version
  /\ version' = v /\ initialized' = TRUE
  /\ signed' = auth
  /\ UNCHANGED <<owner, paused, pulses, cap, quorum, record, limits, received, now, killed>>

UpgradeVersion(auth, v) ==
  /\ OwnerSigned(auth)
  /\ v > version
  /\ record' = v /\ version' = v /\ initialized' = TRUE
  /\ signed' = auth
  /\ UNCHANGED <<owner, paused, pulses, cap, quorum, limits, received, now, killed>>

(* Seeded bug: repeated signers are not refused.                           *)
SetSignersRepeated(auth, list, k) ==
  /\ OwnerSigned(auth)
  /\ 0 < k /\ k <= Len(list)
  /\ signers' = list /\ threshold' = k
  /\ signed' = auth
  /\ UNCHANGED <<meta, pulses, cap, record, limits, received, now, killed>>

SetSigners(auth, list, k) ==
  /\ OwnerSigned(auth)
  /\ 0 < k /\ k <= Len(list)
  /\ \A i, j \in 1..Len(list) : i # j => list[i] # list[j]
  /\ signers' = list /\ threshold' = k
  /\ signed' = auth
  /\ UNCHANGED <<meta, pulses, cap, record, limits, received, now, killed>>

(* emergency_pause and emergency_resume; neither looks at version.         *)
EmergencySetPaused(auth, p) ==
  /\ CommitteeSigned(auth)
  /\ paused' = p /\ initialized' = TRUE
  /\ signed' = auth
  /\ UNCHANGED <<owner, version, pulses, cap, quorum, record, limits, received, now, killed>>

(* Seeded bug: unpause without require_auth.                               *)
SetPausedByAnyone(auth, p) ==
  /\ p => OwnerSigned(auth)
  /\ paused # p
  /\ paused' = p /\ initialized' = TRUE
  /\ signed' = auth
  /\ UNCHANGED <<owner, version, pulses, cap, quorum, record, limits, received, now, killed>>

(* pause and unpause; the call that changes nothing is a NoEffect.         *)
SetPaused(auth, p) ==
  /\ OwnerSigned(auth)
  /\ paused # p
  /\ paused' = p /\ initialized' = TRUE
  /\ signed' = auth
  /\ UNCHANGED <<owner, version, pulses, cap, quorum, record, limits, received, now, killed>>

Kill(auth) ==
  /\ OwnerSigned(auth)
  /\ paused' = TRUE /\ version' = MaxU32 /\ initialized' = TRUE
  /\ killed' = TRUE
  /\ signed' = auth
  /\ UNCHANGED <<owner, pulses, cap, quorum, record, limits, received, now>>

SetMaxPulseCount(auth, c) ==
  /\ OwnerSigned(auth)
  /\ cap' = c
  /\ signed' = auth
  /\ UNCHANGED <<meta, pulses, quorum, record, limits, received, now, killed>>

SetDefaultRateLimit(auth, s) ==
  /\ OwnerSigned(auth)
  /\ defaultLimit' = s
  /\ signed' = auth
  /\ UNCHANGED <<meta, pulses, cap, quorum, record, addrLimit, lastFrom, received, now, killed>>

SetAddressRateLimit(auth, a, s) ==
  /\ OwnerSigned(auth)
  /\ addrLimit' = [addrLimit EXCEPT ![a] = s]
  /\ signed' = auth
  /\ UNCHANGED <<meta, pulses, cap, quorum, record, defaultLimit, lastFrom, received, now, killed>>

(* pulse, and the counter half of the tips. *)
Pulse(auth) ==
  /\ FirePulses(1)
  /\ signed' = auth
  /\ UNCHANGED <<meta, cap, quorum, record, limits, received, now, killed>>

(* The target contract is called after the counter has been stored; it     *)
(* cannot call back into this one, and if it fails all is rolled back.     *)
BroadcastPulse(auth) == Pulse(auth)

BatchPulse(auth, n) ==
  /\ n \in 1..MaxBatchSize
  /\ FirePulses(n)
  /\ signed' = auth
  /\ UNCHANGED <<meta, cap, quorum, record, limits, received, now, killed>>

TimeLockedPulse(auth, after, before) ==
  /\ after <= now
  /\ before # 0 => now <= before
  /\ Pulse(auth)

RateLimitedPulse(auth, cooldown) ==
  /\ lastPulseAt # 0 => now - lastPulseAt >= cooldown
  /\ Pulse(auth)

(* Seeded bug: the cooldown ignores the address's own limit.               *)
PulseFromDefaultOnly(auth, a) ==
  /\ a \in auth
  /\ lastFrom[a] > 0 => now - lastFrom[a] >= defaultLimit
  /\ lastFrom' = [lastFrom EXCEPT ![a] = now]
  /\ FirePulses(1)
  /\ signed' = auth
  /\ UNCHANGED <<meta, cap, quorum, record, defaultLimit, addrLimit, received, now, killed>>

(* The timestamp is recorded only while a limit is in force.               *)
PulseFrom(auth, a) ==
  /\ a \in auth
  /\ \/ /\ EffectiveLimit(a) = 0
        /\ UNCHANGED lastFrom
     \/ /\ EffectiveLimit(a) > 0
        /\ lastFrom[a] > 0 => now - lastFrom[a] >= EffectiveLimit(a)
        /\ lastFrom' = [lastFrom EXCEPT ![a] = now]
  /\ FirePulses(1)
  /\ signed' = auth
  /\ UNCHANGED <<meta, cap, quorum, record, defaultLimit, addrLimit, received, now, killed>>

(* No guard: it stores what it is told, paused or not.                     *)
OnPulseReceived(auth, n) ==
  /\ received' = n
  /\ signed' = auth
  /\ UNCHANGED <<meta, pulses, cap, quorum, record, limits, now, killed>>

(* A query, or a call the contract rejects: no storage changes.            *)
NoEffect(auth) ==
  /\ signed' = auth
  /\ UNCHANGED <<meta, pulses, cap, quorum, record, limits, received, now, killed>>

LedgerCloses ==
  /\ now < MaxTime
  /\ now' = now + 1
  /\ signed' = {}
  /\ UNCHANGED <<meta, pulses, cap, quorum, record, limits, received, killed>>

AdminCall(auth) ==
  \/ \E o \in Addrs : Initialize(auth, o) \/ TransferOwnership(auth, o)
  \/ \E v \in 1..MaxU32 : UpgradeVersion(auth, v)
  \/ \E list \in SignerLists : \E k \in 0..Len(list) : SetSigners(auth, list, k)
  \/ \E p \in BOOLEAN : SetPaused(auth, p) \/ EmergencySetPaused(auth, p)
  \/ Kill(auth)
  \/ \E c \in CapChoices : SetMaxPulseCount(auth, c)
  \/ \E s \in Intervals : SetDefaultRateLimit(auth, s)
  \/ \E a \in Addrs, s \in Intervals : SetAddressRateLimit(auth, a, s)

PulseCall(auth) ==
  \/ Pulse(auth) \/ BroadcastPulse(auth)
  \/ \E n \in 1..MaxU32 : BatchPulse(auth, n)
  \/ \E n \in Announced : OnPulseReceived(auth, n)
  \/ \E after \in 0..MaxTime, before \in 0..MaxTime : TimeLockedPulse(auth, after, before)
  \/ \E s \in Intervals : RateLimitedPulse(auth, s)
  \/ \E a \in Addrs : PulseFrom(auth, a)

Next ==
  \/ \E auth \in SUBSET Addrs : AdminCall(auth) \/ PulseCall(auth) \/ NoEffect(auth)
  \/ LedgerCloses

Spec == Init /\ [][Next]_vars

-----------------------------------------------------------------------------
(* Properties *)

(* Every stored value has its type: the counter and the version fit a u32, *)
(* the committee is a list of signing addresses.                           *)
TypeOK ==
  /\ initialized \in BOOLEAN /\ paused \in BOOLEAN /\ killed \in BOOLEAN
  /\ owner \in Accounts
  /\ version \in 1..MaxU32 /\ record \in 0..MaxU32
  /\ count \in 0..MaxU32 /\ cap \in 0..MaxU32 /\ received \in 0..MaxU32
  /\ lastPulseAt \in 0..MaxTime /\ now \in 1..MaxTime
  /\ signers \in Seq(Addrs) /\ threshold \in Nat
  /\ defaultLimit \in Nat
  /\ addrLimit \in [Addrs -> Nat]
  /\ lastFrom \in [Addrs -> 0..MaxTime]
  /\ signed \in SUBSET Addrs

(* AUDIT I10 (set_signers): either no committee is configured, or          *)
(* 1 <= threshold <= number of signers and no signer counts twice.         *)
CommitteeWellFormed ==
  \/ threshold = 0 /\ signers = <<>>
  \/ /\ 0 < threshold /\ threshold <= Len(signers)
     /\ \A i, j \in 1..Len(signers) : i # j => signers[i] # signers[j]

(* AUDIT I13 (upgrade_version, kill): the persistent VERSION record names  *)
(* the version in force, except before the first upgrade and after a kill. *)
AuditTrail ==
  \/ record = version
  \/ record = 0 /\ version = 1
  \/ killed /\ record <= version /\ version = MaxU32

(* A contract without META_KEY has no owner to configure it, so nothing    *)
(* owner-gated was ever written (the guards of get_or_create_meta callers).*)
UninitializedIsPristine ==
  ~initialized =>
    /\ owner = Self /\ ~paused /\ ~killed /\ version = 1 /\ record = 0
    /\ threshold = 0 /\ cap = MaxU32 /\ defaultLimit = 0
    /\ \A a \in Addrs : addrLimit[a] = 0 /\ lastFrom[a] = 0

(* AUDIT I2, I6: through every entry point the counter only grows, and     *)
(* never past the cap in force (a cap lowered below the count stops it).   *)
CapNeverPassed ==
  [][count' # count => count' > count /\ count' <= cap /\ cap' = cap]_vars

(* AUDIT I9: while the contract is paused no entry point fires a pulse or  *)
(* touches a rate-limit history.                                           *)
PauseFreezesPulses ==
  [][paused => UNCHANGED <<pulses, lastFrom>>]_vars

(* AUDIT I11, I20: the pause switch moves only with the owner's signature  *)
(* or with those of the configured committee.                              *)
PauseNeedsAuthority ==
  [][paused' # paused => OwnerSigned(signed') \/ CommitteeSigned(signed')]_vars

(* AUDIT I1: once there is an owner, only that owner can install another;  *)
(* a second initialize, a pause or a resume never moves ownership.         *)
OwnerConsents ==
  [][initialized /\ owner' # owner => OwnerSigned(signed')]_vars

(* AUDIT I13: the version never goes back, so a killed contract stays      *)
(* recorded as killed (is_killed) whatever is called afterwards.           *)
VersionMonotonic ==
  [][version' >= version /\ (killed => killed' /\ version' = MaxU32)]_vars

(* AUDIT I7 (pulse_from): whatever limits were set in between, two         *)
(* successive recorded pulses of an address are at least the limit in      *)
(* force at the second one apart, and each one moved the counter.          *)
CooldownSpacing ==
  [][\A a \in Addrs : lastFrom'[a] # lastFrom[a] =>
       /\ count' = count + 1
       /\ lastFrom[a] = 0 \/ lastFrom'[a] - lastFrom[a] >= EffectiveLimit(a)]_vars

(* kill, lib.rs:412-414: "Permanently disable the contract ... All         *)
(* mutating functions will fail afterwards."  A killed contract stays      *)
(* paused.  The code does not keep this: unpause and emergency_resume do   *)
(* not look at is_killed.                                                  *)
KillIsFinal == killed => paused
=============================================================================
