\* Overlapping ticks post a delivery more often than its retry budget.
CONSTANTS
  s1 = s1
  s2 = s2
  Subs = {s1}
  NumDeliveries = 1
  Owner <- OneOwner
  Ticks = {t1, t2}
  Replayers = {}
  PageSize = 1
  MaxConcurrent = 1
  DefaultRetries = 3
  Budgets = {3}
  MaxEdits = 0
  MaxCrashes = 0
  MaxErrors = 0
SPECIFICATION Spec
INVARIANT
  RetriesWithinBudget
CHECK_DEADLOCK FALSE
