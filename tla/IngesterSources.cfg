CONSTANTS
  MaxTx = 3
  MaxLapses = 3
  LedgerOf <- Ledgers
  MaxLedger = 5
  Window = 3
  Limit = 3
  Polls = {1, 2}
  MaxFaults = 1
  w1 = w1  w2 = w2   alice = alice 
  Wallets = {w1, w2}
  Accounts = {alice}
  AccountOf <- Watched
  Calls = {1, 2}
  ReloadInterval = 1
  WriteInterval = 2
  MaxClock = 2
  MaxMishaps = 1
SPECIFICATION Spec
INVARIANTS OneCurrentStream SorobanNothingSkipped WalletWritesSpaced
PROPERTIES CaptureGoesOn
CHECK_DEADLOCK FALSE
