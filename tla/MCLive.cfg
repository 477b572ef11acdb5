SPECIFICATION FairSpec
CONSTANTS
  nvd = nvd
  ghsa = ghsa
  r1 = r1
  r2 = r2
  Sources <- OneSource
  Runs <- OneRun
  BaseInterval <- EveryMinute
  TokenGated <- OneSource
  AdminOps <- AllOps
  Overlap = TRUE
  MaxInterval = 2
  MaxFailures = 3
  MaxFaults = 1
  MaxCrashes = 1
PROPERTIES
  ScheduledForever
  RunsEnd
  QuietWhenDisabled
