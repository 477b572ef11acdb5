------------------------- MODULE IngestServiceProofs -------------------------
(***************************************************************************)
(* Proofs about IngestService for every set of events, workers and sources.*)
(* The invariant Safe says what a transaction may rely on between its      *)
(* SELECT of the source's row and its COMMIT: a row it has loaded is still *)
(* there, a row it has found missing is still missing once the flush is    *)
(* through, and nobody else is writing the same row.                       *)
(***************************************************************************)
EXTENDS IngestService, TLAPS

LoadedStays(w) ==
  pc[w] \in {"selected", "flushed", "computed"} /\ txn[w].loaded # NoRow => Current(w) # NoRow

MissingStays(w) == Writing(w) /\ txn[w].loaded = NoRow => Current(w) = NoRow

Exclusive == \A v, w \in Workers : v # w /\ Writing(v) /\ Writing(w) => ~SameRow(v, w)

Safe ==
  /\ TypeOK
  /\ \A w \in Workers : LoadedStays(w) /\ MissingStays(w)
  /\ Exclusive
  /\ FindableByEveryId
  /\ KnownByRowId

\* An event of the feeds is what a worker holds when it is idle.
LEMMA AnyEventIsOne == AnyEvent \in Events
  BY EventsAssumption DEF AnyEvent

LEMMA BeginsWell ==
  /\ NoTxn.event = AnyEvent /\ NoTxn.target = 1 /\ NoTxn.loaded = NoRow
  /\ \A e \in Events, t \in Ids, f \in BOOLEAN :
       Begun(e, t, f).event = e /\ Begun(e, t, f).target = t /\ Begun(e, t, f).loaded = NoRow
  BY DEF NoTxn, Begun

LEMMA InitSafe == Init => Safe
<1> SUFFICES ASSUME Init PROVE Safe
  OBVIOUS
<1>1. \A w \in Workers : /\ txn[w].event = AnyEvent /\ txn[w].target = 1
                         /\ txn[w].loaded = NoRow /\ pc[w] = "idle"
  BY BeginsWell DEF Init
<1>a. PICK d \in Databases : /\ threats = d.threats /\ rows = d.rows
                            /\ indicators = d.indicators /\ columns = d.columns
  BY DEF Init
<1>2. TypeOK
  <2>1. 1 \in Ids
    BY BoundAssumption DEF Ids
  <2> QED
    BY <1>1, <1>a, <2>1, AnyEventIsOne, DatabasesAssumption DEF Init, TypeOK
<1>3. (\A w \in Workers : LoadedStays(w) /\ MissingStays(w)) /\ Exclusive
  BY <1>1 DEF LoadedStays, MissingStays, Exclusive, Writing
<1>4. FindableByEveryId /\ KnownByRowId
  BY <1>a, DatabasesAssumption DEF FindableByEveryId, KnownByRowId
<1> QED
  BY <1>2, <1>3, <1>4 DEF Safe

\* A step of w that writes nothing, does not begin writing, and leaves w with
\* a transaction whose loaded row, if any, is the committed one.
LEMMA QuietStep ==
  ASSUME NEW w \in Workers, Safe, UNCHANGED Committed,
         NEW p, pc' = [pc EXCEPT ![w] = p], p \in {"idle", "found", "selected"},
         NEW x, txn' = [txn EXCEPT ![w] = x],
         x.event \in Events, x.target \in Ids,
         x.loaded \in {NoRow, rows[x.target][x.event.source]}
  PROVE  Safe'
<1>1. /\ \A v \in Workers \ {w} : txn'[v] = txn[v] /\ pc'[v] = pc[v]
      /\ txn'[w] = x /\ pc'[w] = p
  BY DEF Safe, TypeOK
<1>2. x.loaded \in Row \cup {NoRow}
  BY EventsAssumption DEF Safe, TypeOK
<1>3. TypeOK'
  BY <1>1, <1>2 DEF Safe, TypeOK, Committed
<1>4. ASSUME NEW v \in Workers PROVE LoadedStays(v)' /\ MissingStays(v)'
  <2>1. CASE v = w
    BY <1>1, <2>1 DEF LoadedStays, MissingStays, Writing, Current, Committed
  <2>2. CASE v # w
    BY <1>1, <2>2 DEF Safe, LoadedStays, MissingStays, Writing, Current, Committed
  <2> QED
    BY <2>1, <2>2
<1>5. Exclusive'
  BY <1>1 DEF Safe, Exclusive, Writing, SameRow
<1>6. FindableByEveryId' /\ KnownByRowId'
  BY DEF Safe, FindableByEveryId, KnownByRowId, Committed
<1> QED
  BY <1>3, <1>4, <1>5, <1>6 DEF Safe

LEMMA LookupSafe == ASSUME Safe, NEW w \in Workers, Lookup(w) PROVE Safe'
<1>1. PICK e \in Events : \E t \in Ids, f \in BOOLEAN : txn' = [txn EXCEPT ![w] = Begun(e, t, f)]
  BY DEF Lookup, Safe, TypeOK, OldestOf, Matches, Younger
<1>2. PICK t \in Ids, f \in BOOLEAN : txn' = [txn EXCEPT ![w] = Begun(e, t, f)]
  BY <1>1
<1>3. /\ Begun(e, t, f).event \in Events /\ Begun(e, t, f).target \in Ids
      /\ Begun(e, t, f).loaded = NoRow
  BY BeginsWell
<1> QED
  BY <1>2, <1>3, QuietStep DEF Lookup

LEMMA SelectRowSafe == ASSUME Safe, NEW w \in Workers, SelectRow(w) PROVE Safe'
<1> DEFINE x == [event |-> txn[w].event, target |-> txn[w].target, fresh |-> txn[w].fresh,
                 loaded |-> Current(w), before |-> NoThreat, computed |-> NoThreat]
<1>1. txn' = [txn EXCEPT ![w] = x]
  BY DEF SelectRow
<1>2. x.event \in Events /\ x.target \in Ids
  BY DEF Safe, TypeOK
<1>3. x.loaded = rows[x.target][x.event.source]
  BY DEF Current
<1> HIDE DEF x
<1> QED
  BY <1>1, <1>2, <1>3, QuietStep DEF SelectRow

LEMMA RollBackSafe == ASSUME Safe, NEW w \in Workers, RollBack(w) PROVE Safe'
<1>1. NoTxn.event \in Events /\ NoTxn.target \in Ids /\ NoTxn.loaded = NoRow
  BY BeginsWell, AnyEventIsOne, BoundAssumption DEF Ids
<1> QED
  BY <1>1, QuietStep DEF RollBack

LEMMA FlushRowSafe == ASSUME Safe, NEW w \in Workers, FlushRow(w) PROVE Safe'
<1>1. CASE txn[w].loaded = NoRow /\ Current(w) # NoRow
  BY <1>1, RollBackSafe DEF FlushRow
<1>2. CASE ~(txn[w].loaded = NoRow /\ Current(w) # NoRow)
  <2>1. /\ pc' = [pc EXCEPT ![w] = "flushed"] /\ UNCHANGED <<txn, Committed>>
        /\ pc[w] = "selected" /\ ~Locked(w)
    BY <1>2 DEF FlushRow
  <2>2. TypeOK'
    BY <2>1 DEF Safe, TypeOK, Committed
  <2>3. \A v \in Workers : LoadedStays(v)' /\ MissingStays(v)'
    BY <1>2, <2>1 DEF Safe, TypeOK, LoadedStays, MissingStays, Writing, Current, Committed
  <2>4. Exclusive'
    BY <2>1 DEF Safe, TypeOK, Exclusive, Writing, SameRow, Locked
  <2>5. FindableByEveryId' /\ KnownByRowId'
    BY <2>1 DEF Safe, FindableByEveryId, KnownByRowId, Committed
  <2> QED
    BY <2>2, <2>3, <2>4, <2>5 DEF Safe
<1> QED
  BY <1>1, <1>2

LEMMA RecomputeSafe == ASSUME Safe, NEW w \in Workers, Recompute(w) PROVE Safe'
<1>1. PICK b, c : txn' = [txn EXCEPT ![w] =
          [event |-> txn[w].event, target |-> txn[w].target, fresh |-> txn[w].fresh,
           loaded |-> txn[w].loaded, before |-> b, computed |-> c]]
  BY DEF Recompute
<1>2. \A v \in Workers : /\ txn'[v].event = txn[v].event /\ txn'[v].target = txn[v].target
                         /\ txn'[v].loaded = txn[v].loaded
  BY <1>1 DEF Safe, TypeOK
<1>3. pc' = [pc EXCEPT ![w] = "computed"] /\ pc[w] = "flushed" /\ UNCHANGED Committed
  BY DEF Recompute
<1>4. DOMAIN txn' = Workers
  BY <1>1 DEF Safe, TypeOK
<1>5. TypeOK'
  BY <1>2, <1>3, <1>4 DEF Safe, TypeOK, Committed
<1>6. \A v \in Workers : LoadedStays(v)' /\ MissingStays(v)'
  BY <1>2, <1>3 DEF Safe, TypeOK, LoadedStays, MissingStays, Writing, Current, Committed
<1>7. Exclusive'
  BY <1>2, <1>3 DEF Safe, TypeOK, Exclusive, Writing, SameRow
<1>8. FindableByEveryId' /\ KnownByRowId'
  BY <1>3 DEF Safe, FindableByEveryId, KnownByRowId, Committed
<1> QED
  BY <1>5, <1>6, <1>7, <1>8 DEF Safe

\* What a committing transaction leaves in the database: its own row changes,
\* and no other; the row keeps first_seen_at and external_id if it had them.
LEMMA CommitEffect ==
  ASSUME Safe, NEW w \in Workers, Commit(w)
  PROVE  /\ Written(w) \in Row /\ Written(w) # NoRow
         /\ rows'[txn[w].target][txn[w].event.source] = Written(w)
         /\ \A t \in Ids, s \in Sources :
              t # txn[w].target \/ s # txn[w].event.source => rows'[t][s] = rows[t][s]
         /\ Current(w) # NoRow => /\ Written(w).first = Current(w).first
                                  /\ Written(w).xid = Current(w).xid
<1> DEFINE e == txn[w].event
<1>1. txn[w].target \in Ids /\ e \in Events /\ e.source \in Sources
  BY EventsAssumption DEF Safe, TypeOK
<1>2. Current(w) \in Row \cup {NoRow}
  BY <1>1 DEF Safe, TypeOK, Current
<1>3. CASE txn[w].loaded = NoRow
  <2>1. Written(w) = Inserted(e) /\ Current(w) = NoRow
    BY <1>3 DEF Written, Safe, MissingStays, Commit, Writing
  <2>2. Inserted(e) \in Row
    BY <1>1, EventsAssumption DEF Inserted, Row
  <2> QED
    BY <1>1, <2>1, <2>2, NoRowAssumption DEF Commit, CommitRow, Safe, TypeOK, Row
<1>4. CASE txn[w].loaded # NoRow
  <2>1. Current(w) \in Row
    BY <1>2, <1>4 DEF Safe, LoadedStays, Commit
  <2>2. Current(w).event \in Events \cup Migrated /\ Current(w).tags \in {f.tags : f \in Events \cup Migrated}
    BY <2>1 DEF Row
  <2>3. /\ Written(w) \in Row
        /\ Written(w).first = Current(w).first /\ Written(w).xid = Current(w).xid
    BY <1>1, <1>4, <2>1, <2>2 DEF Written, Row
  <2> QED
    BY <1>1, <2>3, NoRowAssumption DEF Commit, CommitRow, Safe, TypeOK, Row
<1> QED
  BY <1>3, <1>4

LEMMA CommitFindable == ASSUME Safe, NEW w \in Workers, Commit(w) PROVE FindableByEveryId'
<1> SUFFICES ASSUME NEW t \in Ids, NEW s \in Sources, rows'[t][s] # NoRow,
                    NEW i \in rows'[t][s].event.ids
             PROVE  <<t, i>> \in indicators'
  BY DEF FindableByEveryId
<1>1. indicators' = indicators \cup IndicatorsOf(w)
  BY DEF Commit
<1>2. CASE t # txn[w].target \/ s # txn[w].event.source
  BY <1>1, <1>2, CommitEffect DEF Safe, FindableByEveryId
<1>3. CASE t = txn[w].target /\ s = txn[w].event.source
  <2>1. rows'[t][s] = Written(w)
    BY <1>3, CommitEffect
  <2>2. CASE Written(w).event = txn[w].event
    BY <1>1, <1>3, <2>1, <2>2 DEF IndicatorsOf
  <2>3. CASE Written(w).event # txn[w].event
    <3>1. txn[w].loaded # NoRow /\ Written(w).event = Current(w).event
      BY <2>3 DEF Written, Inserted
    <3>2. Current(w) # NoRow /\ Current(w) = rows[t][s]
      BY <1>3, <3>1 DEF Safe, LoadedStays, Commit, Current
    <3> QED
      BY <1>1, <2>1, <3>1, <3>2 DEF Safe, FindableByEveryId
  <2> QED
    BY <2>2, <2>3
<1> QED
  BY <1>2, <1>3

LEMMA CommitKnown == ASSUME Safe, NEW w \in Workers, Commit(w) PROVE KnownByRowId'
<1> SUFFICES ASSUME NEW t \in Ids, NEW s \in Sources, rows'[t][s] # NoRow
             PROVE  <<t, rows'[t][s].xid>> \in indicators'
  BY DEF KnownByRowId
<1>1. indicators' = indicators \cup IndicatorsOf(w)
  BY DEF Commit
<1>2. CASE t # txn[w].target \/ s # txn[w].event.source
  BY <1>1, <1>2, CommitEffect DEF Safe, KnownByRowId
<1>3. CASE t = txn[w].target /\ s = txn[w].event.source
  <2>1. rows'[t][s] = Written(w) /\ Current(w) = rows[t][s]
    BY <1>3, CommitEffect DEF Current
  <2>2. CASE Current(w) # NoRow
    BY <1>1, <2>1, <2>2, CommitEffect DEF Safe, KnownByRowId
  <2>3. CASE Current(w) = NoRow
    <3>1. Written(w) = Inserted(txn[w].event)
      BY <2>3 DEF Safe, LoadedStays, Commit, Written
    <3>2. txn[w].event \in Events
      BY DEF Safe, TypeOK
    <3> QED
      BY <1>1, <1>3, <2>1, <3>1, <3>2, EventsAssumption DEF Inserted, IndicatorsOf
  <2> QED
    BY <2>2, <2>3
<1> QED
  BY <1>2, <1>3

LEMMA CommitTypes == ASSUME Safe, NEW w \in Workers, Commit(w) PROVE TypeOK'
<1>1. txn[w].target \in Ids /\ txn[w].event \in Events /\ txn[w].event.ids \subseteq Identifiers
      /\ txn[w].event.source \in Sources
  BY EventsAssumption DEF Safe, TypeOK
<1>2. threats' \subseteq Ids /\ indicators' \subseteq threats' \X Identifiers
  BY <1>1 DEF Safe, TypeOK, Commit, IndicatorsOf
<1>3. rows' \in [Ids -> [Sources -> Row \cup {NoRow}]]
  BY <1>1, CommitEffect DEF Safe, TypeOK, Commit, CommitRow
<1>4. DOMAIN columns' = Ids /\ DOMAIN txn' = Workers
  BY DEF Safe, TypeOK, Commit
<1>5. pc' \in [Workers -> {"idle", "found", "selected", "flushed", "computed"}]
  BY DEF Safe, TypeOK, Commit
<1>6. \A v \in Workers : /\ txn'[v].event \in Events /\ txn'[v].target \in Ids
                         /\ txn'[v].loaded \in Row \cup {NoRow}
  BY BeginsWell, AnyEventIsOne, BoundAssumption DEF Safe, TypeOK, Commit, Ids
<1> QED
  BY <1>2, <1>3, <1>4, <1>5, <1>6 DEF TypeOK

LEMMA CommitSafe == ASSUME Safe, NEW w \in Workers, Commit(w) PROVE Safe'
<1>1. /\ \A v \in Workers \ {w} : txn'[v] = txn[v] /\ pc'[v] = pc[v]
      /\ pc'[w] = "idle" /\ Writing(w)
  BY DEF Commit, Safe, TypeOK, Writing
<1>2. ASSUME NEW v \in Workers, v # w
      PROVE  /\ Current(v) # NoRow => Current(v)' # NoRow
             /\ ~SameRow(v, w) => Current(v)' = Current(v)
  <2>1. txn[v].target \in Ids /\ txn[v].event.source \in Sources
    BY EventsAssumption DEF Safe, TypeOK
  <2> QED
    BY <1>1, <1>2, <2>1, CommitEffect DEF Current, SameRow
<1>3. ASSUME NEW v \in Workers PROVE LoadedStays(v)' /\ MissingStays(v)'
  <2>1. CASE v = w
    BY <1>1, <2>1 DEF LoadedStays, MissingStays, Writing
  <2>2. CASE v # w
    <3>1. LoadedStays(v)'
      BY <1>1, <1>2, <2>2 DEF Safe, LoadedStays
    <3>2. MissingStays(v)'
      BY <1>1, <1>2, <2>2 DEF Safe, MissingStays, Exclusive, Writing
    <3> QED
      BY <3>1, <3>2
  <2> QED
    BY <2>1, <2>2
<1>4. Exclusive'
  BY <1>1 DEF Safe, Exclusive, Writing, SameRow
<1> QED
  BY <1>3, <1>4, CommitFindable, CommitKnown, CommitTypes DEF Safe

LEMMA NextSafe == Safe /\ [Next]_vars => Safe'
<1> SUFFICES ASSUME Safe, [Next]_vars PROVE Safe'
  OBVIOUS
<1>1. CASE UNCHANGED vars
  BY <1>1 DEF Safe, TypeOK, LoadedStays, MissingStays, Exclusive, FindableByEveryId, KnownByRowId, Writing,
     Current, SameRow, vars
<1>2. ASSUME NEW w \in Workers,
             Lookup(w) \/ SelectRow(w) \/ FlushRow(w) \/ Recompute(w) \/ Commit(w) \/ Fail(w)
      PROVE  Safe'
  BY <1>2, LookupSafe, SelectRowSafe, FlushRowSafe, RecomputeSafe, CommitSafe, RollBackSafe
     DEF Fail
<1> QED
  BY <1>1, <1>2 DEF Next

THEOREM Inductive == Spec => []Safe
BY InitSafe, NextSafe, PTL DEF Spec

\* The types of the catalogue and of the transactions.
THEOREM TypeCorrect == Spec => []TypeOK
<1>1. Safe => TypeOK
  BY DEF Safe
<1> QED
  BY <1>1, Inductive, PTL

\* A threat can be found by every identifier a source has given it, whatever
\* the events and however many transactions interleave and fail.
THEOREM Findable == Spec => []FindableByEveryId
<1>1. Safe => FindableByEveryId
  BY DEF Safe
<1> QED
  BY <1>1, Inductive, PTL

\* The identifier that a row was inserted with is one the threat is known by,
\* whatever has been written over the row since.
THEOREM RowIdsKnown == Spec => []KnownByRowId
<1>1. Safe => KnownByRowId
  BY DEF Safe
<1> QED
  BY <1>1, Inductive, PTL

RowStays(t, s) ==
  rows[t][s] # NoRow => /\ rows'[t][s] # NoRow
                        /\ rows'[t][s].first = rows[t][s].first
                        /\ rows'[t][s].xid = rows[t][s].xid

LEMMA StepKeepsRows ==
  ASSUME Safe, [Next]_vars, NEW t \in Ids, NEW s \in Sources PROVE RowStays(t, s)
<1>1. CASE UNCHANGED rows
  BY <1>1 DEF RowStays
<1>2. ASSUME NEW w \in Workers, Commit(w) PROVE RowStays(t, s)
  <2>1. CASE t = txn[w].target /\ s = txn[w].event.source
    BY <1>2, <2>1, CommitEffect DEF RowStays, Current
  <2>2. CASE t # txn[w].target \/ s # txn[w].event.source
    BY <1>2, <2>2, CommitEffect DEF RowStays
  <2> QED
    BY <2>1, <2>2
<1>3. ASSUME NEW w \in Workers,
             Lookup(w) \/ SelectRow(w) \/ FlushRow(w) \/ Recompute(w) \/ Fail(w)
      PROVE  UNCHANGED rows
  BY <1>3 DEF Lookup, SelectRow, FlushRow, Recompute, Fail, RollBack, Committed
<1> QED
  BY <1>1, <1>2, <1>3 DEF Next, vars

\* No transaction overwrites the publication date or the identifier of a row
\* that another one has inserted: the row locks and the primary key see to it.
THEOREM RowsAreKept == Spec => FirstSeenStays
<1>1. Safe /\ [Next]_vars => [\A t \in Ids : \A s \in Sources : RowStays(t, s)]_vars
  BY StepKeepsRows
<1>2. Safe /\ [Next]_vars =>
        [\A t \in Ids : \A s \in Sources :
          rows[t][s] # NoRow => /\ rows'[t][s] # NoRow
                                /\ rows'[t][s].first = rows[t][s].first
                                /\ rows'[t][s].xid = rows[t][s].xid]_vars
  BY <1>1 DEF RowStays
<1> QED
  BY <1>2, Inductive, PTL DEF Spec, FirstSeenStays
=============================================================================
