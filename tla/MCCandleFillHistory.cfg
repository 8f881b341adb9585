\* Whether a day that was fetched once needs no fetching any more.
CONSTANTS
  LastDay = 2
  Holidays = {}
  FullDay = 2
  Lookback = 1
SPECIFICATION Spec
INVARIANT HistoryIsComplete
CHECK_DEADLOCK FALSE
