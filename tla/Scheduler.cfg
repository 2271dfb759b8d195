SPECIFICATION FairSpec
CONSTANTS
  Day = 3
  Twice = {0, 1}
  Once = {0}
  Configs <- Settings
  Invalid = Invalid
  History = 2
  MaxAge = 1
  MaxTime = 3
  MaxEdits = 2
  MaxStarts = 2
  MaxOthers = 1
INVARIANTS
  SlotServed
  StartupCovers
  ConfigFollowed
PROPERTY
  DueRuns
CHECK_DEADLOCK FALSE
