SPECIFICATION WRSpec
CONSTANTS
  a1 = a1
  localWorker1 = localWorker1
  NoOne = NoOne
  NoApproval = NoApproval
  Conns = {c1, c2}
  WorkerIds = {localWorker1}
  WorkerIdOf <- SharedWorkerId
  Items <- OneItem
  Priority <- OnePriority
  MaxAttempts <- OneAttempts
  Cost <- OneCost
  Limits = {}
  MaxPeriod = 1
  MaxClaims = 3
  Gate <- OneLocal
  ApprovalOf <- OneUnapproved
  Approvals = {}
  Reusable = {}
  Deciders = {}
  Zone <- InUtc
  MaxUses = 9
  MaxFaults = 2
PROPERTY LastAttemptAnswers
