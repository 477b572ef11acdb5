SPECIFICATION HistorySpec
CONSTANTS
  nvd = nvd
  ghsa = ghsa
  r1 = r1
  r2 = r2
  Sources <- OneSource
  Runs <- TwoRuns
  BaseInterval <- EveryOtherMinute
  TokenGated <- OneSource
  AdminOps <- DisableOnly
  Overlap = TRUE
  MaxInterval = 3
  MaxFailures = 3
  MaxFaults = 1
  MaxCrashes = 0
SYMMETRY RunSymmetry
INVARIANTS
  TypeOK
  IntervalBounds
  RunningRowsAreLive
PROPERTIES
  EnabledOnlyByOperator
  PollsAreSpaced
