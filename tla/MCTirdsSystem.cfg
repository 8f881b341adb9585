\* Both programs on one symbol: clean-ups, a crash of the loader at any step,
\* and evaluations one after the other.
CONSTANTS
  aapl = aapl
  spy = spy
  sma = sma
  SymbolList <- mcOneSymbol
  Indicators = {sma}
  MarketTTL <- mcMarketTTL
  CalcTTL <- mcCalcTTL
  Interval <- mcInterval
  MaxCycle = 0
  MaxGen = 3
  StreamEnabled = FALSE
  Kinds = {}
  EconSeries = {}
  Tickers = {}
  Capacity = 1
  StreamTTL = 1
  MaxMessages = 0
  CleanupInterval <- mcCleanup
  MaxTime = 3
  MaxCrashes = 1
  Proposal = aapl
  References = {}
  SectorFunds = {}
  Domains = {}
  EvalTime <- mcEvalTime
SPECIFICATION SystemSpec
INVARIANTS
  SystemTypeOK
  DecisionIsFresh
  IndicatorsFollowBars
  SnapshotIsPaired
CHECK_DEADLOCK FALSE
