SPECIFICATION AlFairSpec
CONSTANTS
  a1 = a1
  a2 = a2
  NoOne = NoOne
  NoApproval = NoApproval
  Conns = {p1}
  Approvals = {a1, a2}
  Reusable = {}
  Deciders = {d1}
  Zone <- InUtc
  MaxUses = 1
  Rows <- OneRow
  MaxTries <- TwoTries
  RowOf <- ForOne
  TargetOf <- EachItsOwn
  Requesters = {q1}
  Codes = {"KILL_SWITCH_ACTIVE", "ALERT_DELIVERY_FAILED"}
  MaxReopens = 1
  MaxResets = 1
  MaxFaults = 1
PROPERTIES
  ConditionReported
  DeliverySettles
  UnseenNotResolved
