SPECIFICATION MCSpec
CONSTANTS
  Witness = {w1, w2}
  Relayer = {r1, r2}
  Hash = {h1}
  NoHash = NoHash
  minValidVotes = 2
  approvalThresholdBps = 5000
  VotingPeriod = 1
  minBroadcastInterval = 2
  broadcastWindow = 1
  ratePerUser = 2
  initialUserCount = 1
  MaxUint = 20
  UserCount = {0, 3}
  Amount = {2, 19}
  GasCost = {1}
  RefundCap = {1}
  MaxTime = 4
  MaxProposals = 2
  MaxBroadcasts = 2
  MaxFunds = 1
  Version = {v1, v2}
  Package = {k1, k2}
  NoVersion = noversion
  NoPackage = nopackage
  Operator = {op1, op2}
  Planned = {v1}
  MaxNonce = 2
  MaxFaults = 1
INVARIANTS
  VotesCounted
  DecidedByVotes
  EffectsMatch
  ProposedInWindow
  CreditsCovered
  SubmittedIsPublished
PROPERTIES
  ImplementsAccrual
  HistoryKept
SYMMETRY Symmetry
CHECK_DEADLOCK FALSE
