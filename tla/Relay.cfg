SPECIFICATION Spec
CONSTANTS
  t1 = t1
  t2 = t2
  m1 = m1
  m2 = m2
  op1 = op1
  op2 = op2
  c1 = c1
  j1 = j1
  a = a
  b = b
  nobody = nobody
  Threads = {t1, t2}
  Kinds = {"pub", "req", "reveal"}
  RequestSets <- MCRequestSets
  Miners = {m1, m2}
  Addresses = {op1, op2, c1}
  Nobody = nobody
  Latecomers = {m1}
  Operator <- MCOperator
  Payer <- MCPayer
  Committee <- MCCommittee
  Price = 1
  Fee <- MCFee
  KitFloor = 1
  SignMode = "enforce"
  Tokened = TRUE
  Attested = {m1}
  AttestRequire = TRUE
  Cost <- MCCost
  KindBudget = 2
  Retention = 1
  RegistryExpiry = 2
  RegistryRetry = 1
  MaxTime = 2
  MaxRequests = 3
  MaxCrashes = 1
SYMMETRY Symmetric
INVARIANTS
  StoreConsistent
PROPERTIES
  SenderTreatedRight
  BudgetRespected
  EvidenceKept
CHECK_DEADLOCK FALSE
