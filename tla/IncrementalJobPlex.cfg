SPECIFICATION FairSpec
CONSTANTS
  a = a
  b = b
  Items <- Two
  Delays <- OneDelay
  PlexMode = TRUE
  CleanupEnabled = FALSE
  Incomplete <- OnlyB
  Stubborn <- OnlyB
  Workers = 2
  Threshold = 2
  FullInterval = 1
  MaxMarker <- AThrice
  MaxConf = 1
  MaxNow = 2
  MaxFaults = 1
INVARIANTS
  OwnWriteRecorded
PROPERTIES
  Converges
