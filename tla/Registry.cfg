SPECIFICATION Spec
CONSTANTS
  j1 = j1  j2 = j2
  m1 = m1  m2 = m2  m3 = m3
  NoMiner = NoMiner
  Jobs <- OneJob
  Miners <- Three
  Fees = {20}
  Stakes = {10}
  InitialStake <- EqualStakes
  ParamSets <- Switched
  Refusable = {"owner"}
  SeedOutcomes = {TRUE}
  auditDeferStride = 2
  auditMaxPerBlock = 2
  jobExpiryRetryBlocks = 2
  EpochBlocks = 3
  AuditFallbackFloor = 2
  redoQuorumFloor = 2
  MaxHeight = 6
  MaxAuthors = 1
  Leavers <- JustOne
SYMMETRY Staying
INVARIANTS
  TypeOK
  RetainedBondLocked
  RetentionSettledOnce
