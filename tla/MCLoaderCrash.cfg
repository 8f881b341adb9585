\* One symbol, clean-ups and restarts at any step.
CONSTANTS
  aapl = aapl
  spy = spy
  sma = sma
  news = news
  social = social
  cpi = cpi
  SymbolList <- mcOneSymbol
  Indicators = {sma}
  MarketTTL = 4
  CalcTTL = 3
  Interval = 1
  MaxCycle = 1
  MaxGen = 2
  StreamEnabled = FALSE
  Kinds = {}
  EconSeries = {}
  Tickers = {}
  Capacity = 1
  StreamTTL = 1
  MaxMessages = 0
  CleanupInterval = 1
  MaxTime = 7
  MaxCrashes = 1
SPECIFICATION Spec
INVARIANTS
  BarsAgreeWithQuote
  NoGap
  GarbageIsBounded
  OneLastCycle
PROPERTIES
  LiveRowsStay
  PairsSpec
CHECK_DEADLOCK FALSE
