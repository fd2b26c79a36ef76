SPECIFICATION Spec
CONSTANTS
  j1 = j1  j2 = j2
  m1 = m1  m2 = m2  m3 = m3
  NoMiner = NoMiner
  Jobs <- TwoJobs
  Miners <- Two
  Fees = {20}
  Stakes = {10}
  InitialStake <- EqualStakes
  ParamSets <- FullHold
  Refusable = {}
  SeedOutcomes = {TRUE}
  auditDeferStride = 2
  auditMaxPerBlock = 1
  jobExpiryRetryBlocks = 2
  EpochBlocks = 4
  AuditFallbackFloor = 1
  redoQuorumFloor = 1
  MaxHeight = 6
  MaxAuthors = 1
  Leavers <- Nobody
SYMMETRY Symmetry
INVARIANTS
  FullBatchSound
