SPECIFICATION FairSpec
CONSTANTS
  a1 = a1
  localWorker1 = localWorker1
  NoOne = NoOne
  NoApproval = NoApproval
  Conns = {c1, c2}
  WorkerIds = {c1, c2}
  WorkerIdOf <- MCWorkerIdOf
  Items <- TwoItems
  Priority <- TwoPriority
  MaxAttempts <- TwoAttempts
  Cost <- TwoCost
  Limits = {1}
  MaxPeriod = 1
  MaxClaims = 9
  Gate <- TwoGates
  ApprovalOf <- NoneNamed
  Approvals = {}
  Reusable = {}
  Deciders = {}
  Zone <- InUtc
  MaxUses = 9
  MaxFaults = 1
INVARIANTS
  ReplaySuppressed
  SuccessIsEarned
  KillSwitchBrakes
PROPERTY EveryItemSettles
