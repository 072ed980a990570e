SPECIFICATION BTFairSpec
CONSTANTS
  a1 = a1
  a2 = a2
  k1 = k1
  NoOne = NoOne
  NoApproval = NoApproval
  Conns = {p1}
  Approvals = {a1, a2}
  Reusable = {a1}
  Deciders = {}
  Zone <- InUtc
  MaxUses = 1
  Rows <- TwoRows
  MaxTries <- FewTries
  RowOf <- EachItsOwn
  TargetOf <- OneTarget
  Requesters = {}
  Keys = {k1}
  KeyOf <- OneKey
  MaxFaults = 1
INVARIANTS
  BTTypeOK
  FailedIsExhausted
  WriteNotRetried
PROPERTIES
  UploadsOnce
  TransferEnds
