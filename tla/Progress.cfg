SPECIFICATION FairSpec
CONSTANTS
  None = None
  Comps = {"serve", "seat", "desk", "memory", "presence", "payout", "gateway", "capacity", "kit", "feed"}
  Live = TRUE
PROPERTIES
  ObligationsMet
  Settles
  KeepsUp
CHECK_DEADLOCK FALSE
