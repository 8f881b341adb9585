\* The documented meaning of total_timeout_seconds.
CONSTANTS
  Agents = 1
  Prompted <- mcAllPrompted
  SpecialistTimeout <- mcSpecialistTimeout15
  TotalTimeout <- mcTotalTimeout15
  Responses <- mcAsAskedResponse
  Answers <- mcAsAsked
  MaxTime = 12
SPECIFICATION Spec
INVARIANT TotalTimeoutIsTotal
CHECK_DEADLOCK FALSE
