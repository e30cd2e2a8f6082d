CONSTANTS
  payment = payment  contract = contract
  Events = {1, 2, 3}
  Category <- TwoCategories
  Filter = {payment}
  Slots = {1, 2}
  PageSize = 1
  DayLength = 2
  Settings <- FeedSettings
  MaxDelay = 1
  RetentionDb = "delegate"
  BatchSize = 1
  MaxErrors = 1
  MaxStops = 1
SPECIFICATION Spec
INVARIANTS StreamsAccountedFor NothingSkipped
PROPERTIES FeedCatchesUp StatsNeverShrink
CHECK_DEADLOCK FALSE
