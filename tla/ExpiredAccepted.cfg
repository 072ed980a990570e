SPECIFICATION ApSpec
CONSTANTS
  Conns = {c1, c2}
  Approvals = {a1, a2}
  Reusable = {a2}
  Deciders = {d1, d2}
  Zone <- InAsia
  MaxUses = 2
  NoApproval = NoApproval
PROPERTY AcceptedInForce
