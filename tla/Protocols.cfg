\* The mint's process, the protocols over its locks and the programs around it.
SPECIFICATION UnionSpec
CONSTANTS
  Server = {s1, s2}
  Handler = {h1, h2}
  Key = {k1, k2}
  NULL = NULL
  SEQ_BLOCK = 2
  Overlap = FALSE
  MaxIssued = 1
  MaxTime = 1
  MaxSeq = 4
  MaxCrashes = 1
  \* The locks
  Grace = 1
  RedeemMargin = 2
  Latency = 1
  \* Swap
  Estimate = 2
  PollingInterval = 1
  Precision = 0
  Ahead = {0, 4}
  Expiry <- Horizons
  Windows = {3, 26}
  SwapEnd = 30
  \* Channel
  N = 4
  Capacity = 2
  Garbage = {3}
  Deadline = 6
  SettleMargin = 1
  MinLifetime = 3
  ChannelEnd = 7
  \* Escrow
  Arbiters = {1, 2, 3}
  Faulty = {3}
  K = 2
  R = 1
  Evidence = {"e", "f"}
  DecisionDeadline = 2
  Expiries = {3, 5}
  EscrowEnd = 6
  \* CommitThenAccept
  AcceptBy = 3
  Terms = {4, 6, 7}
  HandoverTime = 2
  AcceptEnd = 8
  \* Launcher
  None = None
  Process = {s1, s2}
  Options <- CommandLines
  KeyFiles <- KeyFilesFound
  RacingFirstStart = FALSE
  MaxStarts = 3
  \* MintControl
  Gui = {h1, h2}
  MintProcess = {s1, s2}
  MaxCalls = 3
  MaxKills = 1
  \* Wallet
  Proc = {w1}
  Coins = {1, 2, 3, 4, 5, 6, 7}
  Held = {1, 2}
  Foreign = {3}
  Calls = {"pay", "receive", "receive_batch", "handle_refused"}
  MAX_ATTEMPTS = 2
  Lingering = FALSE
  MaxOps = 3
  MaxDeaths = 1
  MaxPolicy = 1
SYMMETRY Alike
INVARIANTS
  SnapshotsMonotone
  ActivityHonest
  NothingStranded
  
  RefusedRetired
  BothOrNeither
  
  
  AcceptedIsPaid
  LaunchesStand
  NoMintLost
  SecretsDurable
PROPERTIES
  PaidStringsLive
CHECK_DEADLOCK FALSE
