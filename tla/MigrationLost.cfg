SPECIFICATION MgSpec
CONSTANTS
  NoFile = NoFile
  Releases = {"baseline", "candidate"}
  Top = 3
  Latest <- TwoAhead
  First = 1
  MaxWrites = 2
  MaxCrashes = 0
  MaxDeploys = 2
  MaxRetries = 2
INVARIANT RunsOnAllButRolledBack
CHECK_DEADLOCK FALSE
