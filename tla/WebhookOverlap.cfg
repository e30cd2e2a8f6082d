\* Two ticks in progress at once, two replay requests, edits, a crash.
CONSTANTS
  s1 = s1
  s2 = s2
  Subs = {s1}
  NumDeliveries = 1
  Owner <- OneOwner
  Ticks = {t1, t2}
  Replayers = {r1, r2}
  PageSize = 1
  MaxConcurrent = 1
  DefaultRetries = 3
  Budgets = {1, 3}
  MaxEdits = 2
  MaxCrashes = 1
  MaxErrors = 1
SPECIFICATION Spec
INVARIANTS
  TypeOK
  AttemptsAreCharged
  WithinSomeBudget
  CompletionStamped
  FailedCounterSound
PROPERTIES
  QueuedIsSettled
  LifecycleKept
CHECK_DEADLOCK FALSE
