SPECIFICATION DecisionSpec
CONSTANTS
  Quotes <- MCQuotes
  Limits = {108, 144}
  References = {r1, r2}
  MaxLots = 2
  MaxBrokerOrders = 2
  MaxUnits = 3
  StartingCash = 1000
  FixedSlippage = 12
  Tick = 12
  Contracts <- MCContracts
  UnderlyingOf <- MCUnderlyingOf
  GroupOf <- MCGroupOf
  OptionOf <- MCOptionOf
  DeltaOf <- MCDeltaOf
  VegaOf <- MCVegaOf
  LotSize = 2
  RiskBudget = 120
  MaxPositionValue = 400
  Deployable = 900
  MaxPerInstrument = 500
  MaxPerUnderlying = 600
  MaxCorrelated = 700
  MaxPerSector = 700
  MaxDelta = 350
  MaxVega = 60
  SelectorMaxSpread = 2
  MaxSpread = 2
  SlippageFraction = 25
  MaxSlippage = 1
  MinVolume = 500
  FreezeQuantity = 100
  MaxMarginUse = 70
  Brokerage = 1
  LegRate = 1
  MinRiskReward = 150
  MinExpectedValue = 0
  MarketQuotes <- MCMarketQuotes
  Opportunities <- MCOpportunities
  Margins <- MCMargins
  Multipliers = {50, 100}
  MaxTracked = 2
  MaxNet = 6
  Regimes = {"trending", "range"}
  Strategies <- MCStrategies
  FitOf <- MCFitOf
  MinRegimeConfidence = 40
  MaxEntropy = 80
  MaxForecastAge = 5
  DimensionWeight <- MCDimensionWeight
  MinDimensions = 2
  ConflictPenalty = 50
  VetoLimit <- MCVetoLimit
  FamilyOf <- MCFamilyOf
  Weights = {90}
  Price = 100
  StopDistance <- MCStopDistance
  DiscountAt <- MCDiscountAt
  Servings <- MCServings
  Readings <- MCReadings
  Distributions <- MCDistributions
  MinAgreement = 50
  MinAgreeing = 2
  MinConfidence = 55
  MinProbability = 58
  MinConviction = 40
  StrategyWeight = 50
  ModelWeight = 50
  Influence = 50
  ScannerWeights <- MCScannerWeights
  Execution <- MCExecution
  RewardToRisk = 150
  MinOpportunity = 60
SYMMETRY MCSymmetry
CHECK_DEADLOCK FALSE
INVARIANTS TypeOK AccountFollowsFills  AnalysisOnlyRestricts
PROPERTIES LimitHonoured  DissentOnlyHinders
