\* One tick at a time on three deliveries of two subscriptions, a page of two.
CONSTANTS
  s1 = s1
  s2 = s2
  Subs = {s1, s2}
  NumDeliveries = 3
  Owner <- TwoOwners
  Ticks = {t1}
  Replayers = {r1}
  PageSize = 2
  MaxConcurrent = 1
  DefaultRetries = 3
  Budgets = {1, 3}
  MaxEdits = 1
  MaxCrashes = 1
  MaxErrors = 1
SPECIFICATION Spec
PROPERTIES
  QueuedIsSettled
CHECK_DEADLOCK FALSE
