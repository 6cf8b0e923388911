\* Malformed, racing and repeated batches, a change of burn policy, retention.
SPECIFICATION Spec
SYMMETRY KeySymmetry
CONSTANTS
  h1 = h1
  h2 = h2
  h3 = h3
  h4 = h4
  k1 = k1
  k2 = k2
  x = x
  r = r
  junk = junk
  NULL = NULL
  Hash <- MCHash
  Key <- MCKey
  Witness <- MCWitness
  Secret <- MCSecret
  Bodies <- MCBatches
  IssueBatches <- MCBatchIssue
  burn_policy <- MCPolicy
  burn_policy_next <- MCNext
  recovery_window = 1
  max_lock_expiry = 2
  IntMax = 200
  MaxTime = 2
  MaxPending = 2
INVARIANTS
  SupplyInvariant
  SingleSpend
PROPERTIES
  CashSpec
