\* Owner, pause, kill, committee, version trail, cap and rate limits.
CONSTANTS
  alice = alice
  bob = bob
  Addrs = {alice, bob}
  Self = Self
  MaxU32 = 3
  MaxBatchSize = 2
  MaxTime = 3
  CapChoices = {1, 3}
  Intervals = {0, 2}
  SignerLists <- MCSignerLists
  Announced = {1}
SPECIFICATION Spec
INVARIANTS
  TypeOK
  CommitteeWellFormed
  AuditTrail
PROPERTIES
  CapNeverPassed
  PauseFreezesPulses
  PauseNeedsAuthority
  OwnerConsents
  CooldownSpacing
