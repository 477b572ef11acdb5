SPECIFICATION Spec
CONSTANTS
  nvd = nvd
  ghsa = ghsa
  r1 = r1
  r2 = r2
  Sources <- OneSource
  Runs <- TwoRuns
  BaseInterval <- EveryMinute
  TokenGated <- OneSource
  AdminOps <- DisableOnly
  Overlap = TRUE
  MaxInterval = 4
  MaxFailures = 4
  MaxFaults = 0
  MaxCrashes = 0
PROPERTIES
  CleanExitResetsBackoff
