\* A graceful shutdown between insert and add leaves an event that is never queued.
CONSTANTS
  a = a
  b = b
  p1 = p1
  Tokens = {p1}
  Jobs = {a}
  NoJob = NoJob
  TokenOf <- MCTokenOf
  Attempts = 3
  Concurrency = 2
  MaxStalled = 1
  MaxFaults = 0
  MaxCrashes = 0
  MaxShutdowns = 1
SPECIFICATION Spec
PROPERTY
  StoredIsQueued
CHECK_DEADLOCK FALSE
