\* Deposits and withdrawals with crashes at every step and a change of policy.
SPECIFICATION FairSpec
CONSTANTS
  o1 = o1
  o2 = o2
  a1 = a1
  a2 = a2
  t1 = t1
  t2 = t2
  w1 = w1
  w2 = w2
  c1 = c1
  c2 = c2
  c3 = c3
  c4 = c4
  NULL = NULL
  Operator <- OneOperator
  Agent <- OneAgent
  Caps <- None
  Freezes <- Either
  Flags <- OnlySet
  Grant <- None
  Amount <- Amounts
  HOUR_MS = 1
  DAY_MS = 2
  MaxTime = 1
  MaxOutflow = 0
  MaxAuths = 0
  MaxStatements = 1
  CustodyKey <- FourKeys
  InitialCoins <- TwoCoins
  Deposits <- SomeDeposits
  Withdrawals <- SomeWithdrawals
  burn_policy <- Policy
  burn_policy_next <- Announced
  recovery_window = 0
  MaxCrashes = 1
  MaxFailures = 0
INVARIANTS
  TypeOK
  CustodyReal
  NoMoneyLost
  StatementsFinal
PROPERTIES
  CustodialSpec
  StagedSettled
CHECK_DEADLOCK FALSE
