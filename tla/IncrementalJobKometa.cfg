SPECIFICATION Spec
CONSTANTS
  a = a
  b = b
  Items <- Two
  Delays <- OneDelay
  PlexMode = FALSE
  CleanupEnabled = TRUE
  Incomplete <- Nobody
  Stubborn <- Nobody
  Workers = 2
  Threshold = 1
  FullInterval = 1
  MaxMarker <- Twice
  MaxConf = 2
  MaxNow = 2
  MaxFaults = 2
SYMMETRY Swap
INVARIANTS
  RecordedIsOutput
  AppliedOrSelectable
PROPERTIES
  CertifiedFullScan
