\* The README's promise that entries are filtered by expires_at on read.
CONSTANTS
  c1 = c1
  c2 = c2
  k1 = k1
  k2 = k2
  aapl = aapl
  Null = Null
  Clients = {c1}
  Keys = {k1}
  SymbolOf <- mcOneSymbol
  RowTTLs <- mcTTLs
  MemTTL = 3
  MaxDelay = 0
  MaxTime = 4
  MaxWrites = 1
SPECIFICATION Spec
INVARIANT ServedRowsAreLive
