SPECIFICATION Spec
CONSTANTS
  Tolerance = 1
  MaxInterval = 7
  MaxExponent = 2
  PollInterval = 2
  HealthInterval = 5
  PushTimeout = 1
  Threshold = 2
  MaxFailures = 4
  RingTimeout = 6
  MinOnCall = 5
  MaxRings = 1
  ReadTime = 1
  Garbled = FALSE
  PushWired = TRUE
  MaxPushes = 1
  MaxReloads = 0
INVARIANTS
  OneEventPerRing
