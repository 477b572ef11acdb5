SPECIFICATION ReaderSpec
CONSTANTS
  nvd = nvd  ghsa = ghsa  kev = kev
  cve1 = cve1  cve2 = cve2  ghsa1 = ghsa1  ghsa2 = ghsa2
  High = High  Medium = Medium  Unknown = Unknown  Critical = Critical  NoSeverity = NoSeverity
  Nvd = Nvd  GithubAdvisory = GithubAdvisory  Kev = Kev  ActivelyExploited = ActivelyExploited
  Ransomware = Ransomware  pip = pip  Cwe79 = Cwe79  NoInfo = NoInfo  CweIds = {Cwe79}
  Low = Low  None = None  OnlyMarkup = OnlyMarkup  NoMetric = NoMetric  NoDate = NoDate  Today = 4
  TextA = TextA  TextB = TextB  TextC = TextC  NoText = NoText  ScoreA = ScoreA  NoScore = NoScore
  NoRow = NoRow  NoThreat = NoThreat
  Migrated <- Old1Rows
  Databases <- AnyInstallation
  Preferred = nvd
  Uuid <- ByAge
  Filters <- ThreeLists
  Limit = 1
  Bookmarks = {}
  NoLink = NoLink
  Sources = {nvd, ghsa, kev}
  Rank <- MCRank
  Identifiers <- AllIds
  Events <- TwoCves
  Workers = {w1}
  MaxThreats = 3
INVARIANT KevIsCritical
INVARIANT Replayable
INVARIANT PagesMissOnlyMoves
PROPERTY ScoresAreNvds
PROPERTY ImplementsCatalogue
