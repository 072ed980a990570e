SPECIFICATION BRSpec
CONSTANTS
  a1 = a1
  a2 = a2
  a3 = a3
  f1 = f1
  f2 = f2
  NoOne = NoOne
  NoApproval = NoApproval
  Conns = {p1}
  Approvals = {a1, a3}
  Reusable = {}
  Deciders = {d1}
  Zone <- InUtc
  MaxUses = 1
  Rows <- TwoRows
  MaxTries <- FewTries
  RowOf <- LastForTwo
  TargetOf <- EachItsOwn
  Requesters = {q1}
  Files = {f1, f2}
  MaxFaults = 1
SYMMETRY PathSymmetry
INVARIANTS
  FailedForCause
  PlaintextNotRetried
PROPERTIES
  RestoresOnce
