SPECIFICATION WRSpec
CONSTANTS
  a1 = a1
  localWorker1 = localWorker1
  NoOne = NoOne
  NoApproval = NoApproval
  Conns = {c1, c2}
  WorkerIds = {c1, c2}
  WorkerIdOf <- MCWorkerIdOf
  Items <- TwoItems
  Priority <- TwoPriority
  MaxAttempts <- SharedAttempts
  Cost <- SharedCost
  Limits = {}
  MaxPeriod = 1
  MaxClaims = 2
  Gate <- SharedGates
  ApprovalOf <- SharedApprovals
  Approvals = {a1}
  Reusable = {}
  Deciders = {d1}
  Zone <- InUtc
  MaxUses = 9
  MaxFaults = 0
INVARIANT SingleUse
