SPECIFICATION Spec
CONSTANTS
  None = None
  Comps = {"gateway", "faucet", "capacity", "partition", "commits", "feed", "points", "jury"}
  Live = FALSE
INVARIANTS
  AllowancesHold
  FeedTruthful
  VerdictsPaidFairly
PROPERTIES
  ReportsKept
CHECK_DEADLOCK FALSE
