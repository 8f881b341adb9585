\* Two concurrent callers of one key against a pipeline that rewrites it.
CONSTANTS
  c1 = c1
  c2 = c2
  k1 = k1
  k2 = k2
  aapl = aapl
  Null = Null
  Clients = {c1, c2}
  Keys = {k1}
  SymbolOf <- mcOneSymbol
  RowTTLs <- mcTTLs
  MemTTL = 1
  MaxDelay = 1
  MaxTime = 4
  MaxWrites = 2
SYMMETRY mcClientSymmetry
SPECIFICATION Spec
INVARIANTS
  TypeOK
  BoundedStaleness
  SnapshotNotBehindGets
PROPERTIES
  StaleSpec
  MonotonicReads
