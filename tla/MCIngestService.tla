--------------------------- MODULE MCIngestService ---------------------------
(* Instances of IngestService and its readers: one CVE (or two), what the    *)
(* feeds of the three collectors hold of it, and what the database holds     *)
(* when it comes from before migration 0003.                                 *)
EXTENDS ThreatReader, Upgrade, TLC

CONSTANTS
  cve1, cve2, ghsa1, ghsa2,    \* the identifiers
  pip, Cwe79, NoInfo, TextA, TextB, TextC, ScoreA

MCRank == [s \in {nvd, ghsa, kev} |-> IF s = nvd THEN 0 ELSE IF s = ghsa THEN 1 ELSE 2]

NvdEntry(id, metrics, weaknesses) ==
  [id |-> id, description |-> TextA, metrics |-> metrics, weaknesses |-> weaknesses,
   published |-> 1]

HighScore == [v31 |-> [score |-> ScoreA, label |-> "HIGH"], v30 |-> NoMetric, v2 |-> NoMetric]
NoMetrics == [v31 |-> NoMetric, v30 |-> NoMetric, v2 |-> NoMetric]

Advisory(id, cves, date) ==
  [id |-> id, identifiers |-> {[type |-> "CVE", value |-> c] : c \in cves},
   summary |-> TextB, description |-> OnlyMarkup, label |-> "MODERATE",
   packages |-> {[ecosystem |-> pip, name |-> TextC]}, weaknesses |-> {}, published |-> date]

KevEntry(id) ==
  [id |-> id, name |-> TextC, description |-> TextC, ransomware |-> "KNOWN", added |-> 2]

First1    == NvdEntry(cve1, HighScore, {Cwe79, NoInfo})
\* The same CVE once NVD has re-analysed it and withdrawn score and weakness.
Modified1 == NvdEntry(cve1, NoMetrics, {NoInfo})
Second    == NvdEntry(cve2, HighScore, {Cwe79, NoInfo})
Joining   == Advisory(ghsa2, {cve1, cve2}, 3)
Undated   == Advisory(ghsa1, {cve1}, NoDate)

TwoCves   == Collected({First1, Modified1, Second}, {Joining, Undated}, {KevEntry(cve2)})
Racing    == Collected({First1}, {Advisory(ghsa1, {cve1}, 0), Advisory(ghsa2, {cve1}, 3)}, {})
RacingNvd == Collected({First1, Modified1}, {}, {KevEntry(cve1)})

AllIds == {cve1, cve2, ghsa1, ghsa2}

\* NVD's first entry as the old schema had it, collected a day after publication.
Old1 == [xid |-> cve1, title |-> TextA, description |-> TextA, cvss |-> ScoreA,
         severity |-> High, cwes |-> {Cwe79}, published |-> 1, created |-> 2]

NewInstallation == {Upgraded(<<>>)}
AnyInstallation == {Upgraded(<<>>), Upgraded(<<Old1>>)}
Old1Rows        == {MigratedEvent(Old1)}

\* Threat.id is random: here the younger of two threats is listed first.
ByAge == [t \in Ids |-> t]

AllThreats  == [severity |-> {}, since |-> 0, source |-> NoRow]
SevereOnly  == [severity |-> {Critical, High}, since |-> 0, source |-> NoRow]
NvdSince2   == [severity |-> {}, since |-> 2, source |-> nvd]
ThreeLists  == {AllThreats, SevereOnly, NvdSince2}

Symmetric == Permutations(Workers)
=============================================================================
