SPECIFICATION AlSpec
CONSTANTS
  a1 = a1
  a2 = a2
  NoOne = NoOne
  NoApproval = NoApproval
  Conns = {p1, p2}
  Approvals = {a1}
  Reusable = {}
  Deciders = {d1}
  Zone <- InUtc
  MaxUses = 1
  Rows <- OneRow
  MaxTries <- TwoTries
  RowOf <- ForOne
  TargetOf <- EachItsOwn
  Requesters = {q1}
  Codes = {"KILL_SWITCH_ACTIVE"}
  MaxReopens = 0
  MaxResets = 0
  MaxFaults = 1
PROPERTY DeliveredIsFinal
