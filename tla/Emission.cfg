SPECIFICATION Spec
CONSTANTS
  Word = 16777216
  GenesisReserveU = 100
  InitialSupply = 130
  InitialBalances = {20, 100}
  AllowUnbacked = TRUE
  ParamSets <- Governed
  MaxEpochBlocks = 8
  Burns = {20}
  Claims = {30}
  Gifts = {30}
  MaxHeight = 4
  MaxRestarts = 1
INVARIANTS
  DemandCountedOnce
  ReserveAccounted
  DemandRemembered
PROPERTIES
  EmissionPace
  NextEpochInReach
  SurplusNeverShrinks
