SPECIFICATION LaneFairSpec
CONSTANTS
  c1 = c1
  c2 = c2
  c3 = c3
  Callers <- Three
  Kind <- EveryKind
  Initial = 1
  Ceiling = 3
  Window = 2
  Threshold = 2
  Cooldown = 1
  Cooldowns <- ShortOrLong
  MaxNow = 5
  MaxOps = 6
INVARIANTS
  NoLostWakeup
  SavedCooldownHonoured
PROPERTIES
  CircuitGuards
  EveryWaiterLeaves
