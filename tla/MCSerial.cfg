SPECIFICATION Spec
CONSTANTS
  nvd = nvd
  ghsa = ghsa
  r1 = r1
  r2 = r2
  Sources <- TwoSources
  Runs <- TwoRuns
  BaseInterval <- Uneven
  TokenGated <- OneSource
  AdminOps <- DisableOnly
  Overlap = FALSE
  MaxInterval = 4
  MaxFailures = 4
  MaxFaults = 0
  MaxCrashes = 1
INVARIANTS
  BacksOffWhenDue
PROPERTIES
  ImplementsBackoff
