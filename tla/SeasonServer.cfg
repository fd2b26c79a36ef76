SPECIFICATION FairSpec
CONSTANTS
  None = None
  Absent = Absent
  NoDay = NoDay
  Fatal = Fatal
  m1 = m1
  m2 = m2
  Miners <- MCMiners
  Graders = {g1, g2}
  Addrs = {a1, a2}
  Kits = {1, 2}
  JobMiner <- MCJobMiner
  DayBlocks = 3
  Start = 1
  EndHeight = 4
  MaxHeight = 6
  Sample = 1
  GradesToVoid = 2
  Every = 1
  Quota = 1
  Tries = 2
  LastSet = 3
  KitSet = 3
  Final17 = 2
  FinalNow = 2
  Lag = 1
  Budgets <- MCBudgets
INVARIANTS
  EvidenceSound
  LimitsHold

  
CHECK_DEADLOCK FALSE
