\* A claim that captured its instant before the expiry and waited past it.
SPECIFICATION Spec
CONSTANTS
  h1 = h1
  h2 = h2
  h3 = h3
  h4 = h4
  k1 = k1
  k2 = k2
  x = x
  r = r
  junk = junk
  NULL = NULL
  Hash <- MCHash
  Key <- MCKey
  Witness <- MCWitness
  Secret <- MCSecret
  Bodies <- MCHtlc
  IssueBatches <- MCHtlcIssue
  burn_policy <- MCPolicy
  burn_policy_next = NULL
  recovery_window = 2
  max_lock_expiry = 2
  IntMax = 150
  MaxTime = 4
  MaxPending = 2
PROPERTIES
  LocksEvaluatedAtCommit
