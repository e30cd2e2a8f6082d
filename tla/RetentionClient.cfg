CONSTANTS
  payment = payment  contract = contract
  Events = {1, 2}
  Category <- TwoCategories
  Filter = {payment}
  Slots = {1}
  PageSize = 1
  DayLength = 2
  Settings <- StatsSettings
  MaxDelay = 1
  RetentionDb = "client"
  BatchSize = 1
  MaxErrors = 0
  MaxStops = 0
SPECIFICATION Spec
PROPERTIES RetentionConverges
CHECK_DEADLOCK FALSE
