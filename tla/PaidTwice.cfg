SPECIFICATION Spec
CONSTANTS
  m1 = m1
  m2 = m2
  m3 = m3
  RuleSets <- MCRuleSets
  Miners <- MCMiners
  None = None
  NoDay = NoDay
  NoReport = NoReport
  NoAddress = NoAddress
  DaysPerWeek = 1
  Batch = 1
  DayFacts <- MCDayFacts
  From <- MCFrom
  Doubled = {2}
  DoubledFrom = 1
  Unpayable = {3}
  AmendIds = {1, 2}
  MaxDays = 2
  MaxManual = 2
  MaxRepublished = 1
  MaxUnfrozen = 1
  MaxFaults = 1
  LandsInWindow = TRUE
INVARIANT PartPaidOnce
CHECK_DEADLOCK FALSE
