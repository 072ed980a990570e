SPECIFICATION WQSpec
CONSTANTS
  NoOne = NoOne
  Conns = {c1, c2}
  WorkerIds = {c1, c2}
  WorkerIdOf <- MCWorkerIdOf
  Items <- MCItems
  Priority <- MCPriority
  MaxAttempts <- MCMaxAttempts
  Cost <- MCCost
  Limits <- MCLimits
  MaxPeriod = 2
  MaxClaims = 2
SYMMETRY ConnSymmetry
INVARIANTS
  WQTypeOK
  LedgerConserved
  ChargedOnce
  DeadLetterAfterMaxAttempts
PROPERTIES
  ImplementsCostLedger
