\* Tips, batch tips, allowance pulls and withdrawals on top of the core.
CONSTANTS
  alice = alice
  bob = bob
  Addrs = {alice, bob}
  Self = Self
  MaxU32 = 2
  MaxBatchSize = 2
  MaxTime = 1
  CapChoices = {}
  Intervals = {0}
  SignerLists <- MCSignerLists
  Tokens = {xlm, usdc}
  DefaultNative = xlm
  Amounts <- MCAmounts
  Batches <- MCBatches
  Supply = 1
  MaxAmount = 3
  Announced = {}
SPECIFICATION PaySpec
INVARIANTS
  PayTypeOK
PROPERTIES
  DebitsNeedConsent
  PaidMeansPulsed
  AllowanceIsPulled
  PaymentsImplementCore
