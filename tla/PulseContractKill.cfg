\* kill is documented as final; unpause and emergency_resume undo its pause.
CONSTANTS
  alice = alice
  bob = bob
  Addrs = {alice, bob}
  Self = Self
  MaxU32 = 2
  MaxBatchSize = 2
  MaxTime = 2
  CapChoices = {1}
  Intervals = {0}
  SignerLists <- MCSignerLists
  Announced = {1}
SPECIFICATION Spec
INVARIANT
  KillIsFinal
