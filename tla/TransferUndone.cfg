SPECIFICATION BTSpec
CONSTANTS
  a1 = a1
  a2 = a2
  k1 = k1
  NoOne = NoOne
  NoApproval = NoApproval
  Conns = {p1, p2}
  Approvals = {a1}
  Reusable = {}
  Deciders = {d1}
  Zone <- InUtc
  MaxUses = 1
  Rows <- OneRow
  MaxTries <- TwoTries
  RowOf <- ForOne
  TargetOf <- OneTarget
  Requesters = {q1}
  Keys = {k1}
  KeyOf <- OneKey
  MaxFaults = 1
PROPERTY HeldIsFinal
