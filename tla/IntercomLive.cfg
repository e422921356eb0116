SPECIFICATION FairSpec
CONSTANTS
  Tolerance = 1
  MaxInterval = 2
  MaxExponent = 1
  PollInterval = 1
  HealthInterval = 2
  PushTimeout = 0
  Threshold = 0
  MaxFailures = 3
  RingTimeout = 1
  MinOnCall = 1
  MaxRings = 1
  ReadTime = 1
  Garbled = FALSE
  PushWired = TRUE
  MaxPushes = 1
  MaxReloads = 1
PROPERTIES
  StateConverges
  DeadIsReported
  RecoversFromOutage
