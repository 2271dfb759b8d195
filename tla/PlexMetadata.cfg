SPECIFICATION FairSpec
CONSTANTS
  item = item
  season = season
  v = v
  u = u
  g = g
  h = h
  Empty = Empty
  None = None
  Objects = {item, season}
  Values = {v, u}
  Tags = {g, h}
  Offered <- OfferedDef
  Policies = {"fill_missing", "managed"}
  LockWrites = TRUE
  Limit = 1
  Retries = 2
  MaxChanges = 2
  MaxFaults = 1
INVARIANTS
  WritesTracked
PROPERTIES
  UserValueKept
  UserTagsKept
  UserLockKept
  Served
