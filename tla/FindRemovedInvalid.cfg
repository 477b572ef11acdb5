SPECIFICATION Spec
CONSTANTS
  NoCvss = NoCvss
  KevTag = KevTag  ActivelyExploitedTag = ActivelyExploitedTag  RansomwareTag = RansomwareTag
  tomcat = tomcat  payment = payment  minecraft = minecraft  swift = swift  cwe79 = cwe79
  Invalid = Invalid  Absent = Absent  NoScore = NoScore
  Daily = daily  daily = daily
  ThreatContents <- TwoThreatContents
  ProfileContents <- TwoProfileContents
  Threats = {t1}
  Sectors = {s1}
  Jobs = {daily, job1}
  Reloads = {reload1}
  ChunkSize = 1
  MaxFaults = 1
PROPERTY OnlyMissingAreRemoved
