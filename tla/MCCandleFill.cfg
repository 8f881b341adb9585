\* Four days, one a holiday, two candles a day, a window of three days.
CONSTANTS
  LastDay = 4
  Holidays = {2}
  FullDay = 2
  Lookback = 2
SPECIFICATION Spec
INVARIANTS
  TypeOK
  NoHoles
PROPERTY FilesStay
CHECK_DEADLOCK FALSE
