SPECIFICATION Spec
CONSTANTS
  j1 = j1  j2 = j2
  m1 = m1  m2 = m2  m3 = m3
  NoMiner = NoMiner
  Jobs <- OneJob
  Miners <- Three
  Fees = {20}
  Stakes = {10}
  InitialStake <- EqualStakes
  ParamSets <- Governed
  Refusable = {}
  SeedOutcomes = {TRUE, FALSE}
  auditDeferStride = 2
  auditMaxPerBlock = 2
  jobExpiryRetryBlocks = 2
  EpochBlocks = 4
  AuditFallbackFloor = 2
  redoQuorumFloor = 2
  MaxHeight = 12
  MaxAuthors = 1
  Leavers <- Nobody
SYMMETRY Symmetry
INVARIANTS
  NothingStranded
  AuditsSound
  RetentionDeadline
  CountersBacked
PROPERTIES
  SlashServesClient
