CONSTANTS
  \* the live feed: two connections for a limit of one
  c1 = c1
  c2 = c2
  Conns = {c1, c2}
  MaxConnections = 1
  MaxAttempts = 1
  MaxPublished = 2
  None = None
  MaxBuffer = 2
  MaxKept = 1
  MaxSimulated = 2
  \* the windowed rows
  RowHeight = 3
  RowGap = 1
  Overscan = 1
  MinViewport = 5
  MaxItems = 6
  MaxHeight = 7
  \* the search page
  q1 = q1
  q2 = q2
  Queries <- MCQueries
  Short = Short
  Absent = Absent
  PageSize = 2
  InitialMatches <- MCInitialMatches
  MaxMatches = 4
  Stamp <- MCStamp
  MaxSearches = 3
  \* the pages with lists
  MaxRows = 3
  ListLimit = 2
  MaxListRequests = 3
  NotLoaded = NotLoaded
  \* the delivery log
  w1 = w1
  w2 = w2
  Webhooks = {w1, w2}
  Collapsed = Collapsed
  MaxLogLoads = 4
  \* the pages with figures
  r1 = r1
  r2 = r2
  Ranges = {r1, r2}
  Sample = Sample
  MaxLoads = 5
  Notes = {1, 2}
  \* the settings
  ch = ch
  ev = ev
  Channels = {ch}
  Options = {ch, ev}
  DefaultPrefs = {ch}
  MaxCalls = 4
  \* the wallet and the balances
  Nobody = Nobody
  Key = Key
  Funds = 2
  MaxClicks = 2
  MaxAsks = 3
  Unknown = Unknown
  MaxFunds = 1
  MaxBalanceLoads = 3
  \* the rate limiter
  Requests = {1, 2, 3}
  MaxRequests = 1
  Window = 2
  Cooldown = 1
  HasRedis = TRUE
  NoEntry = NoEntry
  MaxTime = 3
  \* the figures: an hour is 2, a day 4
  Hour = 2
  Day = 4
  Spans = {8}
  CacheTtl = 2
  kind = kind
  Kinds = {kind}
  Delays = {0, 3}
  NoFigures = NoFigures
  FirstNow = 14
  MaxSeriesNow = 16
  MaxEventRows = 2
  MaxFigures = 2
SPECIFICATION Spec
INVARIANTS AnswersFit ListsAgree FeedShows PaidAsShown LimiterBudget
PROPERTIES SpinnersStop
CHECK_DEADLOCK FALSE
