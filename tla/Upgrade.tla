------------------------------- MODULE Upgrade -------------------------------
(***************************************************************************)
(* Migration 0003 (alembic/versions/0003_m3a_cross_source_schema.py): the  *)
(* catalogue that an installation with one source is turned into.          *)
(*                                                                         *)
(* Until then a threat was an NVD entry, unique by its external id, and    *)
(* its own columns were the only interpretation of raw_data: the new       *)
(* source row takes raw_data over as NVD had sent it, in which             *)
(* recompute_canonical finds neither title nor summary, score, severity or *)
(* weakness.  The migration is one transaction and holds the table         *)
(* locked; indicators for CPEs are left out, as everywhere.                *)
(***************************************************************************)
EXTENDS IngestService, Collected

\* What recompute_canonical can read of the raw_data of an old threat.
MigratedEvent(o) ==
  [source |-> nvd, xid |-> o.xid, ids |-> {o.xid}, title |-> NoText, summary |-> NoText,
   cvss |-> NoScore, severity |-> NoSeverity, tags |-> {Nvd}, cwes |-> {},
   published |-> o.created]

\* first_seen_at is the time the old threat was created, not its publication.
MigratedRow(o) ==
  [first |-> o.created, xid |-> o.xid, event |-> MigratedEvent(o), tags |-> {Nvd}]

MigratedColumns(o) ==
  [title |-> o.title, summary |-> o.description, cvss |-> o.cvss, severity |-> o.severity,
   tags |-> {}, cwes |-> o.cwes, published |-> o.published]

MigratedIndicators(old) == {<<t, old[t].xid>> : t \in DOMAIN old}

Upgraded(old) ==
  [threats    |-> DOMAIN old,
   rows       |-> [t \in Ids |-> [s \in Sources |->
                    IF t \in DOMAIN old /\ s = nvd THEN MigratedRow(old[t]) ELSE NoRow]],
   indicators |-> MigratedIndicators(old),
   columns    |-> [t \in Ids |->
                    IF t \in DOMAIN old THEN MigratedColumns(old[t]) ELSE NoThreat]]
-----------------------------------------------------------------------------
\* Has no source but the migration said anything of t?
Untouched(t) == \A s \in Present(rows[t]) : rows[t][s].event \in Migrated

\* Recomputing the record of a threat, which is how the design means to repair it
\* (m3a-multi-source-cross-dedup-design.md:227), finds nothing to change: score, severity,
\* tags and publication are what the sources' rows say, and so are title, summary and
\* CWEs where some row has them.  (Where none has them any more they are what they were,
\* ingest.py:308-309, 322: two threats with the same rows may differ in them, after
\* different events.  With one worker.  It is not so of a migrated threat of which no
\* source has said anything since; see the README.)
Replayable ==
  \A t \in threats : ~Untouched(t) => Canonical(columns[t], rows[t]) = columns[t]

\* A score is lost only to NVD, when it withdraws it, or when the row that NVD's
\* score once came from is a migrated one, which does not show it any more.
ScoresAreNvds ==
  [][\A t \in threats :
       columns[t].cvss # NoScore /\ columns'[t].cvss = NoScore =>
         \/ rows'[t][nvd] # rows[t][nvd]
         \/ rows[t][nvd] # NoRow /\ rows[t][nvd].event \in Migrated]_vars
=============================================================================
