SPECIFICATION QFairSpec
CONSTANTS
  u1 = u1
  u2 = u2
  Units = {u1, u2}
  Retention = 2
  MaxFaults = 3
INVARIANTS
  Restorable
PROPERTIES
  NothingDestroyed
  RetentionEnds
