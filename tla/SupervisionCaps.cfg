\* Two agents of one operator: transfers, pulls and withdrawals against caps.
SPECIFICATION Spec
SYMMETRY FleetSymmetry
CONSTANTS
  o1 = o1
  o2 = o2
  a1 = a1
  a2 = a2
  t1 = t1
  t2 = t2
  w1 = w1
  w2 = w2
  c1 = c1
  c2 = c2
  c3 = c3
  c4 = c4
  NULL = NULL
  Operator <- OneOperator
  Agent <- TwoAgents
  Caps <- SomeCaps
  Freezes <- None
  Flags <- None
  Grant <- Grants
  Amount <- Amounts
  HOUR_MS = 1
  DAY_MS = 2
  MaxTime = 2
  MaxOutflow = 150
  MaxAuths = 1
  MaxStatements = 0
  CustodyKey <- TwoKeys
  InitialCoins <- OneCoin
  Deposits <- OneDeposit
  Withdrawals <- OneWithdrawal
  burn_policy <- Policy
  burn_policy_next = NULL
  recovery_window = 9
  MaxCrashes = 0
  MaxFailures = 0
INVARIANTS
  PullBound
PROPERTIES
  CapsHold
CHECK_DEADLOCK FALSE
