--------------------------- MODULE CollectedProofs ---------------------------
(* What the conversions of the collectors guarantee to ingestion, and what   *)
(* recompute_canonical makes of the events they produce.                     *)
EXTENDS Collected, TLAPS

\* Every event has its own external id among the identifiers it is looked up by,
\* and is of the kind IngestService takes (EventsAssumption), whatever the feeds
\* hold: to_event lets no entry without a date through.
THEOREM EventsFitIngest ==
  ASSUME NEW Identifiers, NEW N, NEW G, NEW K,
         {nvd, ghsa, kev} \subseteq Sources, Today \in Int,
         \A p \in N : p.id \in Identifiers /\ p.published \in Int \cup {NoDate},
         \A p \in G : /\ p.id \in Identifiers /\ p.published \in Int \cup {NoDate}
                      /\ \A i \in p.identifiers : i.type = "CVE" => i.value \in Identifiers,
         \A p \in K : p.id \in Identifiers /\ p.added \in Int \cup {NoDate}
  PROVE  \A e \in Collected(N, G, K) :
           /\ e.source \in Sources /\ e.xid \in e.ids
           /\ e.ids \subseteq Identifiers /\ e.published \in Int
<1>1. ASSUME NEW p \in Dated(N)
      PROVE  LET e == NvdEvent(p)
             IN /\ e.source \in Sources /\ e.xid \in e.ids
                /\ e.ids \subseteq Identifiers /\ e.published \in Int
  BY <1>1 DEF Dated, NvdEvent
<1>2. ASSUME NEW p \in Dated(G)
      PROVE  LET e == GhsaEvent(p)
             IN /\ e.source \in Sources /\ e.xid \in e.ids
                /\ e.ids \subseteq Identifiers /\ e.published \in Int
  BY <1>2 DEF Dated, GhsaEvent
<1>3. ASSUME NEW p \in K
      PROVE  LET e == KevEvent(p)
             IN /\ e.source \in Sources /\ e.xid \in e.ids
                /\ e.ids \subseteq Identifiers /\ e.published \in Int
  BY <1>3 DEF KevEvent
<1> QED
  BY <1>1, <1>2, <1>3 DEF Collected

\* What _upsert_threat_source stores of an event.
Holds(row, e) == row # NoRow /\ row.event = e /\ row.tags = e.tags

\* A threat that has a row of CISA KEV is recomputed as critical, whatever NVD and
\* the advisories say of it: every KEV event carries the tag that is looked for.
THEOREM KevRowMakesCritical ==
  ASSUME NEW rows, NEW p, kev \in Sources, Holds(rows[kev], KevEvent(p))
  PROVE  Severity(rows) = Critical
<1>1. kev \in Present(rows)
  BY DEF Holds, Present
<1>2. Kev \in rows[kev].tags
  BY DEF Holds, KevEvent
<1> QED
  BY <1>1, <1>2 DEF Severity, Tags

\* Recomputing a record that has been recomputed from the same rows changes nothing,
\* even where it keeps what the columns held before.
THEOREM RecomputeIdempotent ==
  ASSUME NEW rows, NEW threat
  PROVE  Canonical(Canonical(threat, rows), rows) = Canonical(threat, rows)
<1> DEFINE c == Canonical(threat, rows)
<1>1. Title(c, rows) = c.title
  BY DEF Canonical, Title
<1>2. Summary(c, rows) = c.summary
  BY DEF Canonical, Summary
<1>3. (IF Cwes(rows) = {} THEN c.cwes ELSE Cwes(rows)) = c.cwes
  BY DEF Canonical
<1> QED
  BY <1>1, <1>2, <1>3 DEF Canonical

\* The first of a set of sources that contains one of the least rank is that one.
LEMMA FirstIsLeast ==
  ASSUME NEW S \in SUBSET Sources, NEW n \in S,
         \A s \in Sources : Rank[n] <= Rank[s]
  PROVE  First(S) = n
<1>1. \A s \in S : (\A t \in S : Rank[s] <= Rank[t]) => s = n
  BY RankAssumption
<1>2. \A t \in S : Rank[n] <= Rank[t]
  OBVIOUS
<1> QED
  BY <1>1, <1>2 DEF First

\* NVD, first in _PRIORITY_ORDER, decides the title of every threat it has a row
\* of, since its events are never without one; and the severity, even to unknown,
\* unless the threat is on the KEV list.
THEOREM NvdDecides ==
  ASSUME NEW rows, NEW threat, NEW p,
         nvd \in Sources, \A s \in Sources : Rank[nvd] <= Rank[s],
         Holds(rows[nvd], NvdEvent(p)), p.id # NoText,
         NoSeverity \notin {Critical, High, Medium, Low, None, Unknown}
  PROVE  /\ Title(threat, rows) = NvdEvent(p).title
         /\ Kev \notin Tags(rows) => Severity(rows) = NvdEvent(p).severity
<1>1. nvd \in Present(rows) /\ rows[nvd].event = NvdEvent(p)
  BY DEF Holds, Present
<1>2. NvdEvent(p).title # NoText
  BY DEF NvdEvent, Or
<1>3. nvd \in WithTitle(rows) /\ WithTitle(rows) \in SUBSET Sources
  BY <1>1, <1>2 DEF WithTitle, Present
<1>4. First(WithTitle(rows)) = nvd
  BY <1>3, FirstIsLeast
<1>5. Title(threat, rows) = NvdEvent(p).title
  BY <1>1, <1>3, <1>4 DEF Title
<1>6. NvdEvent(p).severity # NoSeverity
  <2> DEFINE label == Metric(p.metrics).label
  <2>1. NvdSeverity(label) \in {Critical, High, Medium, Low, None, Unknown}
    BY DEF NvdSeverity
  <2> QED
    BY <2>1 DEF NvdEvent
<1>7. nvd \in WithSeverity(rows) /\ WithSeverity(rows) \in SUBSET Sources
  BY <1>1, <1>6 DEF WithSeverity, Present
<1>8. First(WithSeverity(rows)) = nvd
  BY <1>7, FirstIsLeast
<1>9. Kev \notin Tags(rows) => Severity(rows) = NvdEvent(p).severity
  BY <1>1, <1>7, <1>8 DEF Severity, SeverityUnbumped
<1> QED
  BY <1>5, <1>9
=============================================================================
