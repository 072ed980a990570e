SPECIFICATION InSpec
CONSTANTS
  p1 = p1
  p2 = p2
  g1 = g1
  g2 = g2
  day = day
  delivery = delivery
  import = import
  altered = altered
  note = note
  r1 = r1
  r2 = r2
  Workers = {p1, p2}
  Gateways = {g1, g2}
  Requests = {r1, r2}
  Commands = {day, delivery, import, altered, note}
  Calls <- Calls5
  Schedules = {day}
  KindOf <- Kinds5
  KeyOf <- Keys5
  MaxAttempts = 2
  MaxItems = 2
  MaxFaults = 1
  MaxLapses = 1
SYMMETRY MCSymmetry
CHECK_DEADLOCK FALSE
INVARIANTS
  OneItemPerRequest
  AnswersAreRegistered
  DeliveredWhole
