\* The prompts' promise about domain_data, with a proposal for one symbol and
\* a reference symbol.
CONSTANTS
  aapl = aapl
  spy = spy
  sma = sma
  SymbolList <- mcTwoSymbols
  Indicators = {sma}
  MarketTTL <- mcMarketTTL
  CalcTTL <- mcCalcTTL
  Interval <- mcInterval
  MaxCycle = 0
  MaxGen = 1
  StreamEnabled = FALSE
  Kinds = {}
  EconSeries = {}
  Tickers = {}
  Capacity = 1
  StreamTTL = 1
  MaxMessages = 0
  CleanupInterval <- mcCleanup
  MaxTime = 1
  MaxCrashes = 0
  Proposal = aapl
  References = {spy}
  SectorFunds = {}
  Domains <- mcDomains
  EvalTime <- mcEvalTime
SPECIFICATION SystemSpec
PROPERTY DocumentedDataArrives
CHECK_DEADLOCK FALSE
