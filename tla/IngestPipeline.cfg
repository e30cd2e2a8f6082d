\* Two captures of one event, faults, crashes, a shutdown.
CONSTANTS
  a = a
  b = b
  p1 = p1
  Tokens = {p1}
  Jobs = {a, b}
  NoJob = NoJob
  TokenOf <- MCTokenOf
  Attempts = 3
  Concurrency = 2
  MaxStalled = 1
  MaxFaults = 3
  MaxCrashes = 2
  MaxShutdowns = 1
SPECIFICATION Spec
INVARIANTS
  TypeOK
  CompletedIsStored
  DeadLettersEarned
PROPERTIES
  HandedOffOnce
  CapturedIsDecided
CHECK_DEADLOCK FALSE
