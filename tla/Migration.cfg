SPECIFICATION MgSpec
CONSTANTS
  NoFile = NoFile
  Releases = {"baseline", "candidate"}
  Top = 3
  Latest <- TwoAhead
  First = 1
  MaxWrites = 2
  MaxCrashes = 2
  MaxDeploys = 2
  MaxRetries = 2
INVARIANTS
  NothingDestroyed
  RollbackPossible
  RunsOnEverything
CHECK_DEADLOCK FALSE
