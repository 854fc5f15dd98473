SPECIFICATION LifecycleSpec
CONSTANTS
  DeskContracts = {d1, d2}
  MaxDeskUnits = 2
  AuthModes = {"token", "login"}
  TokenLife = 3
  PerSecond = 1
  PerMinute = 2
  Minute = 2
  MaxRetries = 2
  LastSlot = 7
  Outcomes <- MCOutcomes
  Lookback = 3
  MinTrades = 2
  ReduceBelow <- MCReduceBelow
  PauseBelow <- MCPauseBelow
  DisableBelow <- MCDisableBelow
  PauseFor = 2
  LastMinute = 4
  MaxRunning = 2
  Underlyings = {"NIFTY", "TCS"}
  Calendars <- MCCalendars
  HighActions = {"block_new", "continue"}
  Before = 1
  After = 1
  LastTime = 4
  MaxEdits = 3
  Commands = {c1, c2}
  Models = {m1, m2}
  FamilyOf <- MCFamilyOf
  BarsPerDay = 4
  Open = 1
  Coarse = 2
  Prices = {10, 14}
  MaxJump = 3
  MaxAge = 1
  MaxSkew = 1
  MaxFailures = 2
  MaxBars = 3
  FirstTime = 2
  LastClock = 7
  MaxQuotes = 3
  FrameBars <- MCFrameBars
  Tick = 2
  LowestPrice = 2
  HalfSpread = 1
  Slippage = 1
  Fee = 1
  Capital = 200
  RiskFraction = 10
  CapitalFraction = 4
  LotSize = 2
  Risks = {0, 2}
  Rewards = {2}
  Holdings = {0, 1}
  Delays = {0, 2}
  FillModels = {"next_bar_open", "current_close"}
  MaxSimultaneous = 2
  SessionEnds = {2}
  ExpiryBar = 9
  LastBar = 3
  DayLength = 6
  SessionLength = 3
  Days = 5
  MaxMissing = 1
  Warmup = 1
  Horizons = {1, 2}
  Embargoes = {0, 1, 2, 4}
  Steps = {1, 2}
  TrainDays = 1
  ValidationDays = 1
  TestDays = 1
  Families = {"forest", "boosting"}
  FoldResults <- MCFoldResults
  FoldTrades = {0, 20}
  MinWindows = 3
  MinReplayTrades = 30
SYMMETRY MCSymmetry
CHECK_DEADLOCK FALSE
INVARIANT ClosedBarsEnded
