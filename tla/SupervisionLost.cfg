\* A follow-up that raises, then prune, then a restart.
SPECIFICATION Spec
CONSTANTS
  o1 = o1
  o2 = o2
  a1 = a1
  a2 = a2
  t1 = t1
  t2 = t2
  w1 = w1
  w2 = w2
  c1 = c1
  c2 = c2
  c3 = c3
  c4 = c4
  NULL = NULL
  Operator <- OneOperator
  Agent <- OneAgent
  Caps <- None
  Freezes <- None
  Flags <- None
  Grant <- None
  Amount <- Amounts
  HOUR_MS = 1
  DAY_MS = 2
  MaxTime = 1
  MaxOutflow = 0
  MaxAuths = 0
  MaxStatements = 1
  CustodyKey <- FourKeys
  InitialCoins <- TwoCoins
  Deposits <- SomeDeposits
  Withdrawals <- SomeWithdrawals
  burn_policy <- Policy
  burn_policy_next = NULL
  recovery_window = 0
  MaxCrashes = 1
  MaxFailures = 1
INVARIANTS
  NoMoneyLost
CHECK_DEADLOCK FALSE
