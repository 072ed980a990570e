SPECIFICATION PfSpec
CONSTANTS
  good = good
  poor = poor
  hand = hand
  NoPlan = NoPlan
  NoJob = NoJob
  NoOne = NoOne
  p1 = p1
  p2 = p2
  Workers = {p1, p2}
  Ids = {1, 2}
  Plans = {good, poor, hand}
  Score <- Scores
  Fit <- Fits
  Unmeasured = {}
  Parts <- OnePart
  Jobs <- OfficeJobs
  MaxCuts = 1
  MaxLapses = 1
INVARIANTS
  PausedForCause
  PausesAreGoverned
PROPERTIES
  PausesAreKept
SYMMETRY MCSymmetry
CHECK_DEADLOCK FALSE
