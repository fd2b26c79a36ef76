SPECIFICATION Spec
CONSTANTS
  None = None
  Comps = {"serve", "seat", "desk", "memory", "presence", "identity", "kit", "app", "payout"}
  Live = FALSE
INVARIANTS
  MinerKeepsItsWord
  JudgeIsFair
  NothingLost
  OwnerDecides
PROPERTIES
  NeverTwiceNorOver
CHECK_DEADLOCK FALSE
