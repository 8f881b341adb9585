\* Two symbols through several refresh cycles, no stream, no cleanup.
CONSTANTS
  aapl = aapl
  spy = spy
  sma = sma
  news = news
  social = social
  cpi = cpi
  SymbolList <- mcTwoSymbols
  Indicators = {sma}
  MarketTTL = 2
  CalcTTL = 2
  Interval = 1
  MaxCycle = 1
  MaxGen = 2
  StreamEnabled = FALSE
  Kinds = {}
  EconSeries = {}
  Tickers = {}
  Capacity = 1
  StreamTTL = 1
  MaxMessages = 0
  CleanupInterval = 9
  MaxTime = 3
  MaxCrashes = 0
SPECIFICATION Spec
INVARIANTS
  FailuresAreIsolated
CHECK_DEADLOCK FALSE
