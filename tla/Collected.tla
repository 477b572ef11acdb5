------------------------------ MODULE Collected ------------------------------
(***************************************************************************)
(* to_event of the three collectors (collectors/): the event that          *)
(* IngestService is given for an entry of a feed.                          *)
(*                                                                         *)
(* A text is a model value that stands for the text and its first 150      *)
(* characters alike; of the languages of an NVD description only the one   *)
(* that is taken is there.  Sequences of products, weaknesses, packages    *)
(* and identifiers are sets.  last_modified_at, CPEs and references, which *)
(* nothing reads back, are left out.                                       *)
(***************************************************************************)
EXTENDS Canonical

CONSTANTS
  nvd, ghsa, kev,               \* source_name of the collectors
  Nvd, GithubAdvisory, ActivelyExploited, Ransomware,  \* the tags they give, and Kev
  High, Medium, Low, None,      \* the other severities
  OnlyMarkup,                   \* a text of which clean_text leaves nothing
  CweIds,                       \* the weaknesses whose names begin with "CWE-"
  NoMetric, NoDate,             \* what is missing in an entry
  Today

Clean(text) == IF text = OnlyMarkup THEN NoText ELSE text

Or(text, id) == IF text = NoText THEN id ELSE text

NvdSeverity(label) ==
  LET map == [CRITICAL |-> Critical, HIGH |-> High, MEDIUM |-> Medium, LOW |-> Low,
              NONE |-> None]
  IN IF label \in DOMAIN map THEN map[label] ELSE Unknown

GhsaSeverity(label) ==
  LET map == [CRITICAL |-> Critical, HIGH |-> High, MODERATE |-> Medium, LOW |-> Low]
  IN IF label \in DOMAIN map THEN map[label] ELSE NoSeverity

Unscored == [score |-> NoScore, label |-> "NONE GIVEN"]

\* The metric of the latest CVSS version there is, be it without a score.
Metric(metrics) ==
  IF metrics.v31 # NoMetric THEN metrics.v31
  ELSE IF metrics.v30 # NoMetric THEN metrics.v30
  ELSE IF metrics.v2 # NoMetric THEN metrics.v2 ELSE Unscored

NvdEvent(p) ==
  [source |-> nvd, xid |-> p.id, ids |-> {p.id},
   title |-> Or(Clean(p.description), p.id), summary |-> Clean(p.description),
   cvss |-> Metric(p.metrics).score, severity |-> NvdSeverity(Metric(p.metrics).label),
   tags |-> {Nvd}, cwes |-> p.weaknesses \cap CweIds, published |-> p.published]

Ecosystems(p) == {q.ecosystem : q \in {r \in p.packages : r.ecosystem # NoText /\ r.name # NoText}}

GhsaEvent(p) ==
  [source |-> ghsa, xid |-> p.id,
   ids |-> {p.id} \cup {i.value : i \in {j \in p.identifiers : j.type = "CVE"}},
   title |-> Clean(p.summary), summary |-> Clean(p.description),
   cvss |-> NoScore, severity |-> GhsaSeverity(p.label),
   tags |-> {GithubAdvisory} \cup Ecosystems(p), cwes |-> p.weaknesses,
   published |-> p.published]

KevEvent(p) ==
  [source |-> kev, xid |-> p.id, ids |-> {p.id},
   title |-> Or(Clean(p.name), p.id), summary |-> Clean(p.description),
   cvss |-> NoScore, severity |-> NoSeverity,
   tags |-> {Kev, ActivelyExploited} \cup (IF p.ransomware = "KNOWN" THEN {Ransomware} ELSE {}),
   cwes |-> {}, published |-> IF p.added = NoDate THEN Today ELSE p.added]

\* An entry without its date raises CollectorParseError: there is no event.
Dated(payloads) == {p \in payloads : p.published # NoDate}

\* The events of what the three feeds hold.
Collected(nvdEntries, ghsaEntries, kevEntries) ==
  {NvdEvent(p) : p \in Dated(nvdEntries)} \cup {GhsaEvent(p) : p \in Dated(ghsaEntries)}
    \cup {KevEvent(p) : p \in kevEntries}
=============================================================================
