SPECIFICATION Spec
CONSTANTS
  Entries = {1, 2}
  Runs = {r1, r2}
  PageSize = 1
  Attempts = 2
  Lookback = 1
  MaxTime = 2
  MaxGlitches = 1
SYMMETRY Symmetric
INVARIANTS
  TypeOK
  ChangesAheadOfRunsAreKept
PROPERTY
  FetchAdvances
