\* All three tasks with timers that are always due, and messages on one
\* topic and one economic series through a channel that overflows.
CONSTANTS
  aapl = aapl
  spy = spy
  sma = sma
  news = news
  social = social
  cpi = cpi
  SymbolList <- mcOneSymbol
  Indicators = {}
  MarketTTL = 2
  CalcTTL = 2
  Interval = 0
  MaxCycle = 1
  MaxGen = 0
  StreamEnabled = TRUE
  Kinds = {news}
  EconSeries = {cpi}
  Tickers = {aapl}
  Capacity = 2
  StreamTTL = 1
  MaxMessages = 3
  CleanupInterval = 0
  MaxTime = 0
  MaxCrashes = 0
SPECIFICATION FairSpec
INVARIANTS
  TypeOK
  LatestMessageWins
  ReturnsOnlyWhenCancelled
PROPERTIES
  StreamGoesForward
  CancelEndsRun
CHECK_DEADLOCK FALSE
