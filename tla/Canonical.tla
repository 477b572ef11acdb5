----------------------------- MODULE Canonical -----------------------------
(***************************************************************************)
(* recompute_canonical (services/ingest.py): the columns of a threat as a  *)
(* function of what its sources say and of what the columns held before.   *)
(*                                                                         *)
(* rows[s] is what source s says of the threat, or NoRow.  A row holds the *)
(* time the source published it first, the latest event (its raw_data) and *)
(* the event's tags.  Texts, scores and tags are model values; a CVSS      *)
(* score, vector and version always travel together, so cvss stands for    *)
(* the three.  Tags and CWE identifiers are kept as sets: their order in   *)
(* the column is that of the SELECT.                                       *)
(***************************************************************************)
EXTENDS Integers

CONSTANTS
  Sources,      \* the registered sources
  Rank,         \* their places in _PRIORITY_ORDER
  NoText, NoScore, NoSeverity,  \* "" or None in an event's raw_data
  Unknown, Critical,            \* two of the severities
  Kev,          \* the tag "kev"
  NoRow

ASSUME RankAssumption ==
  /\ Rank \in [Sources -> Nat]
  /\ \A s, t \in Sources : Rank[s] = Rank[t] => s = t

Present(rows) == {s \in Sources : rows[s] # NoRow}

\* The loop over _PRIORITY_ORDER that stops at the first source in S.
First(S) == CHOOSE s \in S : \A t \in S : Rank[s] <= Rank[t]

WithTitle(rows)    == {s \in Present(rows) : rows[s].event.title # NoText}
WithSummary(rows)  == {s \in Present(rows) : rows[s].event.summary # NoText}
WithScore(rows)    == {s \in Present(rows) : rows[s].event.cvss # NoScore}
WithSeverity(rows) == {s \in Present(rows) : rows[s].event.severity # NoSeverity}

Title(threat, rows) ==
  IF WithTitle(rows) = {} THEN threat.title ELSE rows[First(WithTitle(rows))].event.title

Summary(threat, rows) ==
  IF WithSummary(rows) = {} THEN threat.summary
                            ELSE rows[First(WithSummary(rows))].event.summary

Last(S) == CHOOSE s \in S : \A t \in S : Rank[t] <= Rank[s]

CvssOfLast(rows) ==
  IF Present(rows) = {} THEN NoScore ELSE rows[Last(Present(rows))].event.cvss

Cvss(rows) ==
  IF WithScore(rows) = {} THEN NoScore ELSE rows[First(WithScore(rows))].event.cvss

Tags(rows) == UNION {rows[s].tags : s \in Present(rows)}

Cwes(rows) == UNION {rows[s].event.cwes : s \in Present(rows)}

SeverityUnbumped(rows) ==
  IF WithSeverity(rows) = {} THEN Unknown ELSE rows[First(WithSeverity(rows))].event.severity

\* `unknown` is a severity like any other here: NVD's hides GHSA's.
Severity(rows) == IF Kev \in Tags(rows) THEN Critical ELSE SeverityUnbumped(rows)

Published(rows) ==
  CHOOSE p \in {rows[s].first : s \in Present(rows)} :
    \A s \in Present(rows) : p <= rows[s].first

Canonical(threat, rows) ==
  [title     |-> Title(threat, rows),
   summary   |-> Summary(threat, rows),
   cvss      |-> Cvss(rows),
   severity  |-> Severity(rows),
   tags      |-> Tags(rows),
   cwes      |-> IF Cwes(rows) = {} THEN threat.cwes ELSE Cwes(rows),
   published |-> Published(rows)]

\* The columns _create_threat gives a threat before they are recomputed.
FromEvent(e) ==
  [title |-> e.title, summary |-> e.summary, cvss |-> e.cvss,
   severity |-> IF e.severity = NoSeverity THEN Unknown ELSE e.severity,
   tags |-> e.tags, cwes |-> {}, published |-> e.published]
=============================================================================
