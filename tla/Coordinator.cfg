SPECIFICATION HistorySpec
CONSTANTS
  Tolerance = 2
  MaxInterval = 8
  MaxExponent = 3
  PollInterval = 1
  HealthInterval = 4
  PushTimeout = 2
  Threshold = 2
  MaxFailures = 6
INVARIANTS
  TypeOK
  IntervalMatchesMode
  DemotionIsFlagged
  RingClockMatches
  AvailabilityMatchesReads
