\* One locked entry, its claim and its refund racing the expiry and each other.
SPECIFICATION Spec
SYMMETRY KeySymmetry
CONSTANTS
  h1 = h1
  h2 = h2
  h3 = h3
  h4 = h4
  k1 = k1
  k2 = k2
  x = x
  r = r
  junk = junk
  NULL = NULL
  Hash <- MCHash
  Key <- MCKey
  Witness <- MCWitness
  Secret <- MCSecret
  Bodies <- MCHtlc
  IssueBatches <- MCHtlcIssue
  burn_policy <- MCPolicy
  burn_policy_next = NULL
  recovery_window = 2
  max_lock_expiry = 2
  IntMax = 150
  MaxTime = 4
  MaxPending = 2
INVARIANTS
  TypeOK
  CountersStorable
  RecordBacked
  SpendRecordTruthful
  FundingReplayable
PROPERTIES
  UnspentKept
  KeptForWindow
