----------------------------- MODULE Catalogue -----------------------------
(***************************************************************************)
(* What the catalogue of threats promises: an event is ingested in one     *)
(* step.  It goes to the oldest threat known by any of its identifiers, or *)
(* to a new one; the threat is known by all its identifiers from then on;  *)
(* and its columns are the canonical record of everything its sources say. *)
(* IngestService implements this when events are ingested one at a time    *)
(* (see the run ingest_catalogue), and not when they are ingested          *)
(* concurrently (see the findings).                                        *)
(***************************************************************************)
EXTENDS Canonical

CONSTANTS Events, MaxThreats, NoThreat, Databases

VARIABLES
  threats,     \* the threats; they are numbered in order of creation
  rows,        \* what each source says of each threat
  indicators,  \* pairs of a threat and an identifier it is known by
  columns      \* the columns of each threat

vars == <<threats, rows, indicators, columns>>

Ids == 1 .. MaxThreats

Init ==
  \E d \in Databases : /\ threats = d.threats
                       /\ rows = d.rows
                       /\ indicators = d.indicators
                       /\ columns = d.columns

Matches(e) == {t \in threats : \E i \in e.ids : <<t, i>> \in indicators}

Least(S) == CHOOSE n \in S : \A k \in S : n <= k

\* The row of source s after it has said e: the first publication date stays.
Said(row, e) == [first |-> IF row = NoRow THEN e.published ELSE row.first,
                 xid   |-> IF row = NoRow THEN e.xid ELSE row.xid,
                 event |-> e,
                 tags  |-> e.tags]

IngestInto(t, e, before) ==
  /\ threats' = threats \cup {t}
  /\ rows' = [rows EXCEPT ![t][e.source] = Said(@, e)]
  /\ indicators' = indicators \cup {<<t, i>> : i \in e.ids}
  /\ columns' = [columns EXCEPT ![t] = Canonical(before, rows'[t])]

IngestOld(e) ==
  /\ Matches(e) # {}
  /\ LET t == Least(Matches(e)) IN IngestInto(t, e, columns[t])

IngestNew(e, t) == Matches(e) = {} /\ IngestInto(t, e, FromEvent(e))

Ingest(e) ==
  \/ IngestOld(e)
  \/ Ids \ threats # {} /\ IngestNew(e, Least(Ids \ threats))

\* As Ingest, but the new threat may be one that is older than others.
IngestAnyAge(e) == IngestOld(e) \/ \E t \in Ids \ threats : IngestNew(e, t)

Next == \E e \in Events : Ingest(e)

Spec == Init /\ [][Next]_vars
=============================================================================
