---------------------------- MODULE IngestService ----------------------------
(***************************************************************************)
(* IngestService.process (services/ingest.py): workers, one for each run   *)
(* in flight, ingest events of several sources into the catalogue.  One    *)
(* call is one database transaction at READ COMMITTED: each statement sees *)
(* what others have committed before it, and the transaction's own writes, *)
(* which others see once it commits.                                       *)
(*                                                                         *)
(* Its statements, in order: the lookup by identifiers (and the INSERT of  *)
(* a new threat), the SELECT of the source's row, the flush that inserts   *)
(* or updates it together with the indicators, the SELECTs of              *)
(* recompute_canonical, the COMMIT with the UPDATE of the threat.  Any of  *)
(* them may raise (lost connection, deadlock, two transactions inserting   *)
(* one new CWE): the transaction is rolled back and the event is counted   *)
(* as failed.  Only `cve` and `ghsa` indicators are identifiers; the other *)
(* kinds are stored and never looked up here, so they are left out, as are *)
(* last_seen_at and the cross_references note on ambiguous matches.        *)
(***************************************************************************)
EXTENDS Canonical, FiniteSets

CONSTANTS
  Events,      \* events the feeds may deliver, again and again
  Identifiers, \* the CVE and GHSA identifiers
  Workers,     \* the transactions that may be open at once
  MaxThreats,  \* bound on the number of threats
  NoThreat,    \* the columns of a threat that does not exist
  Migrated,    \* what rows that come from before migration 0003 hold for an event
  Databases    \* the catalogues there may be at the start

ASSUME EventsAssumption ==
  /\ Events # {}
  /\ \A e \in Events : /\ e.source \in Sources /\ e.xid \in e.ids
                       /\ e.ids \subseteq Identifiers /\ e.published \in Int

ASSUME BoundAssumption == MaxThreats \in Nat \ {0}

Ids == 1 .. MaxThreats

Row == [first : Int, xid : Identifiers, event : Events \cup Migrated,
        tags : {e.tags : e \in Events \cup Migrated}]

ASSUME NoRowAssumption == NoRow \notin Row

\* Well formed, and each threat is known by the identifiers of its rows.
ASSUME DatabasesAssumption ==
  \A d \in Databases :
    /\ d.threats \subseteq Ids
    /\ d.rows \in [Ids -> [Sources -> Row \cup {NoRow}]]
    /\ d.indicators \subseteq d.threats \X Identifiers
    /\ DOMAIN d.columns = Ids
    /\ \A t \in Ids : \A s \in Sources :
         d.rows[t][s] # NoRow =>
           \A i \in d.rows[t][s].event.ids \cup {d.rows[t][s].xid} : <<t, i>> \in d.indicators

VARIABLES
  threats,     \* committed threats, numbered in order of created_at
  rows,        \* committed threat_source rows
  indicators,  \* committed threat_indicator rows
  columns,     \* committed columns of the threats
  pc,          \* which statement each worker has executed last
  txn          \* each worker's local variables and uncommitted writes

vars == <<threats, rows, indicators, columns, pc, txn>>

AnyEvent == CHOOSE e \in Events : TRUE

Begun(e, t, fresh) ==
  [event |-> e, target |-> t, fresh |-> fresh,
   loaded |-> NoRow, before |-> NoThreat, computed |-> NoThreat]

NoTxn == Begun(AnyEvent, 1, FALSE)

\* A new installation, one that was migrated, or one that is restarted.
Init ==
  /\ \E d \in Databases : /\ threats = d.threats
                          /\ rows = d.rows
                          /\ indicators = d.indicators
                          /\ columns = d.columns
  /\ pc = [w \in Workers |-> "idle"]
  /\ txn = [w \in Workers |-> NoTxn]
-----------------------------------------------------------------------------
\* Every id in use, by a committed threat or by one about to be inserted.
Used == threats \cup {txn[w].target : w \in {v \in Workers : txn[v].fresh}}

\* A new threat is younger than every other: created_at is the time at which
\* its transaction began.
Younger == {n \in Ids : \A t \in Used : t < n}

MatchesBySource(e) ==
  {t \in threats : rows[t][e.source] # NoRow /\ \E i \in e.ids : <<t, i>> \in indicators}

\* _lookup_threat_ids_by_indicators
Matches(e) == {t \in threats : \E i \in e.ids : <<t, i>> \in indicators}

NewestOf(S) == {n \in S : \A k \in S : k <= n}

\* _pick_oldest: the only match when there is one.
OldestOf(S) == {n \in S : \A k \in S : n <= k}

Committed == <<threats, rows, indicators, columns>>

\* BEGIN, the lookup and, when nothing matches, the INSERT of the threat.
Lookup(w) ==
  /\ pc[w] = "idle"
  /\ \E e \in Events :
       \/ \E t \in OldestOf(Matches(e)) :
            txn' = [txn EXCEPT ![w] = Begun(e, t, FALSE)]
       \/ /\ Matches(e) = {}
          /\ \E t \in OldestOf(Younger) :
               txn' = [txn EXCEPT ![w] = Begun(e, t, TRUE)]
  /\ pc' = [pc EXCEPT ![w] = "found"]
  /\ UNCHANGED Committed

\* The committed row that w's event is to insert or update.
Current(w) == rows[txn[w].target][txn[w].event.source]

\* The SELECT of _upsert_threat_source.
SelectRow(w) ==
  /\ pc[w] = "found"
  /\ txn' = [txn EXCEPT ![w] = [event |-> @.event, target |-> @.target, fresh |-> @.fresh,
                                loaded |-> Current(w),
                                before |-> NoThreat, computed |-> NoThreat]]
  /\ pc' = [pc EXCEPT ![w] = "selected"]
  /\ UNCHANGED Committed

RollBack(w) ==
  /\ pc' = [pc EXCEPT ![w] = "idle"]
  /\ txn' = [txn EXCEPT ![w] = NoTxn]
  /\ UNCHANGED Committed

Writing(w) == pc[w] \in {"flushed", "computed"}

SameRow(v, w) ==
  txn[v].target = txn[w].target /\ txn[v].event.source = txn[w].event.source

\* Another transaction has inserted an indicator that w inserts too.
SameIndicator(v, w) ==
  \E i \in txn[v].event.ids \cap txn[w].event.ids :
    txn[v].target = txn[w].target /\ <<txn[w].target, i>> \notin indicators

\* Does another transaction hold a lock that w's flush needs?
Locked(w) == \E v \in Workers \ {w} : Writing(v) /\ (SameRow(v, w) \/ SameIndicator(v, w))

FlushUnchecked(w) ==
  /\ pc[w] = "selected" /\ ~Locked(w)
  /\ pc' = [pc EXCEPT ![w] = "flushed"]
  /\ UNCHANGED <<txn, Committed>>

\* The flush waits for the locks.  An INSERT of a row that was committed after
\* the SELECT violates the primary key (threat_id, source_id).
FlushRow(w) ==
  /\ pc[w] = "selected" /\ ~Locked(w)
  /\ IF txn[w].loaded = NoRow /\ Current(w) # NoRow
     THEN RollBack(w)
     ELSE /\ pc' = [pc EXCEPT ![w] = "flushed"]
          /\ UNCHANGED <<txn, Committed>>

InsertedUnderSource(e) ==
  [first |-> e.published, xid |-> e.source, event |-> e, tags |-> e.tags]

Inserted(e) == [first |-> e.published, xid |-> e.xid, event |-> e, tags |-> e.tags]

\* What recompute_canonical would read were the row flushed only after it.
InMemoryUnflushed(w) == IF txn[w].loaded = NoRow THEN Inserted(txn[w].event) ELSE txn[w].loaded

\* The row in w's memory.  external_id and first_seen_at are only inserted.
InMemory(w) ==
  LET e == txn[w].event
      loaded == txn[w].loaded
  IN IF loaded = NoRow THEN Inserted(e)
     ELSE [first |-> loaded.first, xid |-> loaded.xid, event |-> e, tags |-> e.tags]

\* The row in the database: an UPDATE has only the columns that differ from
\* what w has loaded.
Written(w) ==
  LET e == txn[w].event
      loaded == txn[w].loaded
  IN IF loaded = NoRow THEN Inserted(e)
     ELSE [first |-> Current(w).first, xid |-> Current(w).xid,
           event |-> IF loaded.event = e THEN Current(w).event ELSE e,
           tags  |-> IF loaded.tags = e.tags THEN Current(w).tags ELSE e.tags]

\* The SELECTs of recompute_canonical: w's own row, and the others' as committed.
Recompute(w) ==
  LET t == txn[w].target
      e == txn[w].event
      before == IF txn[w].fresh THEN FromEvent(e) ELSE columns[t]
      seen == [rows[t] EXCEPT ![e.source] = InMemory(w)]
  IN /\ pc[w] = "flushed"
     /\ txn' = [txn EXCEPT ![w] = [event |-> e, target |-> t, fresh |-> txn[w].fresh,
                                   loaded |-> txn[w].loaded, before |-> before,
                                   computed |-> Canonical(before, seen)]]
     /\ pc' = [pc EXCEPT ![w] = "computed"]
     /\ UNCHANGED Committed

\* The rows of the association table threat_cwe are inserted and deleted one
\* by one; one that is already there, or already gone, is an error.
Added(w)   == txn[w].computed.cwes \ txn[w].before.cwes
Removed(w) == txn[w].before.cwes \ txn[w].computed.cwes

CwesConflict(w) ==
  LET current == columns[txn[w].target].cwes
  IN ~txn[w].fresh /\ (Added(w) \cap current # {} \/ ~(Removed(w) \subseteq current))

\* The UPDATE of the threat has only the columns that were changed in memory.
FlushColumns(w) ==
  LET current == columns[txn[w].target]
      before == txn[w].before
      computed == txn[w].computed
  IN IF txn[w].fresh THEN computed
     ELSE [c \in DOMAIN computed |->
            IF c = "cwes" THEN (current.cwes \cup Added(w)) \ Removed(w)
            ELSE IF computed[c] = before[c] THEN current[c] ELSE computed[c]]

CommitRow(w) == rows' = [rows EXCEPT ![txn[w].target][txn[w].event.source] = Written(w)]

IndicatorsOfNew(w) ==
  IF txn[w].fresh THEN {<<txn[w].target, i>> : i \in txn[w].event.ids} ELSE {}

\* _upsert_indicators: ON CONFLICT DO NOTHING
IndicatorsOf(w) == {<<txn[w].target, i>> : i \in txn[w].event.ids}

Commit(w) ==
  /\ pc[w] = "computed" /\ ~CwesConflict(w)
  /\ threats' = threats \cup {txn[w].target}
  /\ CommitRow(w)
  /\ indicators' = indicators \cup IndicatorsOf(w)
  /\ columns' = [columns EXCEPT ![txn[w].target] = FlushColumns(w)]
  /\ pc' = [pc EXCEPT ![w] = "idle"]
  /\ txn' = [txn EXCEPT ![w] = NoTxn]

Fail(w) == pc[w] # "idle" /\ RollBack(w)

Next == \E w \in Workers :
  \/ Lookup(w) \/ SelectRow(w) \/ FlushRow(w) \/ Recompute(w) \/ Commit(w) \/ Fail(w)

Spec == Init /\ [][Next]_vars
-----------------------------------------------------------------------------
\* The types of what the catalogue and the transactions hold; a threat's
\* columns are what Canonical makes of the rows, and are not typed here.
TypeOK ==
  /\ threats \subseteq Ids
  /\ rows \in [Ids -> [Sources -> Row \cup {NoRow}]]
  /\ indicators \subseteq threats \X Identifiers
  /\ DOMAIN columns = Ids
  /\ pc \in [Workers -> {"idle", "found", "selected", "flushed", "computed"}]
  /\ DOMAIN txn = Workers
  /\ \A w \in Workers : /\ txn[w].event \in Events /\ txn[w].target \in Ids
                         /\ txn[w].loaded \in Row \cup {NoRow}

\* Whatever a source says of a threat, the threat can be found by every
\* identifier that source gave it, however transactions interleave or fail.
FindableByEveryId ==
  \A t \in Ids : \A s \in Sources :
    rows[t][s] # NoRow => \A i \in rows[t][s].event.ids : <<t, i>> \in indicators

\* Once a source has a row for a threat the row stays, under the identifier and
\* with the publication date it was inserted with: no transaction, inserting
\* from a stale SELECT, overwrites what another one has inserted.
FirstSeenStays ==
  [][\A t \in Ids : \A s \in Sources :
       rows[t][s] # NoRow => /\ rows'[t][s] # NoRow
                             /\ rows'[t][s].first = rows[t][s].first
                             /\ rows'[t][s].xid = rows[t][s].xid]_vars

KnownBy(i) == {t \in threats : <<t, i>> \in indicators}

\* The identifier a source's row was inserted with stays one that the threat is
\* known by, although a later event of the source (the second advisory of a CVE,
\* the NVD entry of another CVE of the threat) has overwritten the row.
KnownByRowId ==
  \A t \in Ids : \A s \in Sources :
    rows[t][s] # NoRow => <<t, rows[t][s].xid>> \in indicators

\* An identifier belongs to a single threat, the deduplication across sources;
\* see the finding.
OneThreatPerIdentifier == \A i \in Identifiers : Cardinality(KnownBy(i)) <= 1

\* Transactions that race past the lookup create a threat each, but the damage
\* stops there: later events find one of them and create no more.
DuplicatesBounded ==
  \A i \in Identifiers : Cardinality(KnownBy(i)) <= Cardinality(Workers)

\* A threat that some source has put on the KEV list is critical.
KevIsCritical ==
  \A t \in threats : Kev \in Tags(rows[t]) => columns[t].severity = Critical

\* One worker ingests each event as if in a single step, or leaves no trace.
TheCatalogue == INSTANCE Catalogue
ImplementsCatalogue == TheCatalogue!Spec
=============================================================================
