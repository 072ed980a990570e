SPECIFICATION WRSpec
CONSTANTS
  a1 = a1
  localWorker1 = localWorker1
  NoOne = NoOne
  NoApproval = NoApproval
  Conns = {c1}
  WorkerIds = {c1}
  WorkerIdOf <- MCWorkerIdOf
  Items <- TwoItems
  Priority <- TwoPriority
  MaxAttempts <- TwoAttempts
  Cost <- TwoCost
  Limits = {1}
  MaxPeriod = 1
  MaxClaims = 4
  Gate <- TwoGates
  ApprovalOf <- TwoApprovals
  Approvals = {a1}
  Reusable = {}
  Deciders = {d1, d2}
  Zone <- InUtc
  MaxUses = 9
  MaxFaults = 2
INVARIANTS
  SingleUse
  ReceiptIsTheAnswer
  EachEffectIsAuthorised
PROPERTIES
  SettledIsFinal
  NeverRevived
