SPECIFICATION WRSpec
CONSTANTS
  a1 = a1
  localWorker1 = localWorker1
  NoOne = NoOne
  NoApproval = NoApproval
  Conns = {c1}
  WorkerIds = {c1}
  WorkerIdOf <- MCWorkerIdOf
  Items <- OneItem
  Priority <- OnePriority
  MaxAttempts <- OneAttempts
  Cost <- OneCost
  Limits = {}
  MaxPeriod = 1
  MaxClaims = 4
  Gate <- OneLocal
  ApprovalOf <- OneUnapproved
  Approvals = {}
  Reusable = {}
  Deciders = {}
  Zone <- InUtc
  MaxUses = 9
  MaxFaults = 3
INVARIANT AttemptsBounded
