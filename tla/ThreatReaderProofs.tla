------------------------- MODULE ThreatReaderProofs -------------------------
(***************************************************************************)
(* Proofs about the readers of the catalogue, and that what migration 0003 *)
(* leaves behind is a catalogue ingestion may start from.  Readers take no *)
(* step of ingestion's variables, so every theorem about IngestService     *)
(* holds of the composition; what clients are answered follows from its    *)
(* invariant Safe and from two facts about the composition: a threat       *)
(* always has a row (Sourced), and a link is the identifier of some row.   *)
(* What a pager misses is counted by the invariant PagerInv: the threats   *)
(* that have passed it are no more than the steps that have moved one.     *)
(***************************************************************************)
EXTENDS ThreatReader, Upgrade, IngestServiceProofs, FiniteSetTheorems, WellFoundedInduction

LEMMA ReaderSteps ==
  ASSUME [ReaderNext]_readerVars
  PROVE  [HistoryNext]_historyVars /\ [Next]_vars
<1>1. [HistoryNext]_historyVars
  BY DEF ReaderNext, readerVars, Ingest, Show, Ask, Count, ReadPage
<1> QED
  BY <1>1 DEF HistoryNext, historyVars

\* Whatever readers do, ingestion takes the steps of IngestService, with its history.
THEOREM ReadersOnlyRead == ReaderSpec => Spec /\ HistorySpec
<1>1. ReaderInit => Init /\ HistoryInit
  BY DEF ReaderInit, HistoryInit
<1>2. [ReaderNext]_readerVars => [Next]_vars /\ [HistoryNext]_historyVars
  BY ReaderSteps
<1> QED
  BY <1>1, <1>2, PTL DEF ReaderSpec, Spec, HistorySpec

\* A row belongs to a threat there is.
LEMMA RowsHaveThreats ==
  ASSUME Safe, NEW t \in Ids, NEW s \in Sources, rows[t][s] # NoRow
  PROVE  t \in threats
BY DEF Safe, KnownByRowId, TypeOK

LEMMA SafeLookupsAgree == Safe => LookupsAgree
<1> SUFFICES ASSUME Safe, NEW i \in Identifiers, NEW t \in ByExternalId(i)
             PROVE  t \in ByIndicator(i)
  BY DEF LookupsAgree
<1>1. t \in threats /\ t \in Ids
  BY DEF ByExternalId, Safe, TypeOK
<1>2. PICK s \in Sources : rows[t][s] # NoRow /\ rows[t][s].xid = i
  BY DEF ByExternalId, Present
<1> QED
  BY <1>1, <1>2 DEF Safe, KnownByRowId, ByIndicator, KnownBy

\* /cve/{id} answers with threats that /indicators finds under the same identifier,
\* for any events, sources and workers, from any catalogue there may be.
THEOREM LookupsAlwaysAgree == ReaderSpec => []LookupsAgree
BY SafeLookupsAgree, Inductive, ReadersOnlyRead, PTL

Sourced == \A t \in threats : Present(rows[t]) # {}

LinkLeads ==
  /\ link \in Identifiers \cup {NoLink}
  /\ link # NoLink => \E t \in Ids : \E s \in Sources : rows[t][s] # NoRow /\ rows[t][s].xid = link

LEMMA StartsSourced ==
  ASSUME ReaderInit, Safe,
         \A d \in Databases : \A t \in d.threats : \E s \in Sources : d.rows[t][s] # NoRow
  PROVE  Sourced /\ LinkLeads
BY DEF ReaderInit, HistoryInit, Init, Sourced, LinkLeads, Present

LEMMA StepSourced ==
  ASSUME Safe, Sourced, [Next]_vars
  PROVE  Sourced'
<1> SUFFICES ASSUME NEW t \in threats' PROVE \E s \in Sources : rows'[t][s] # NoRow
  BY DEF Sourced, Present
<1>1. CASE UNCHANGED Committed
  BY <1>1 DEF Committed, Sourced, Present
<1>2. ASSUME NEW w \in Workers, Commit(w)
      PROVE  \E s \in Sources : rows'[t][s] # NoRow
  <2>1. threats' = threats \cup {txn[w].target} /\ txn[w].event.source \in Sources
    BY <1>2, EventsAssumption DEF Commit, Safe, TypeOK
  <2>2. CASE t = txn[w].target
    BY <1>2, <2>1, <2>2, CommitEffect
  <2>3. CASE t # txn[w].target
    <3>1. t \in threats /\ t \in Ids
      BY <2>1, <2>3 DEF Safe, TypeOK
    <3>2. PICK s \in Sources : rows[t][s] # NoRow
      BY <3>1 DEF Sourced, Present
    <3> QED
      BY <1>2, <2>3, <3>1, <3>2, CommitEffect
  <2> QED
    BY <2>2, <2>3
<1>3. ASSUME NEW w \in Workers,
             Lookup(w) \/ SelectRow(w) \/ FlushRow(w) \/ Recompute(w) \/ Fail(w)
      PROVE  UNCHANGED Committed
  BY <1>3 DEF Lookup, SelectRow, FlushRow, Recompute, Fail, RollBack, Committed
<1>4. CASE UNCHANGED vars
  BY <1>4, <1>1 DEF vars, Committed
<1> QED
  BY <1>1, <1>2, <1>3, <1>4 DEF Next

LEMMA StepLinkLeads ==
  ASSUME Safe, Sourced, LinkLeads, [ReaderNext]_readerVars
  PROVE  LinkLeads'
<1>1. CASE Show
  <2>1. PICK t \in threats : link' \in ExternalIds(t) \cap Bookmarks
    BY <1>1 DEF Show
  <2>2. PICK s \in Representatives(t) : link' = rows[t][s].xid
    BY <2>1 DEF ExternalIds
  <2>3. t \in Ids
    BY DEF Safe, TypeOK
  <2>4. link' \in Identifiers
    BY <2>1, ReaderAssumption
  <2>5. s \in Sources /\ rows[t][s] # NoRow
    BY ReaderAssumption DEF Representatives, Present
  <2> QED
    BY <1>1, <2>2, <2>3, <2>4, <2>5 DEF LinkLeads, Show, historyVars, vars
<1>2. CASE UNCHANGED link /\ [Next]_vars
  <2>1. ASSUME NEW t \in Ids, NEW s \in Sources PROVE RowStays(t, s)
    BY <1>2, StepKeepsRows
  <2> QED
    BY <1>2, <2>1 DEF LinkLeads, RowStays
<1> QED
  BY <1>1, <1>2, ReaderSteps DEF ReaderNext, readerVars, Ingest, Ask, Count, ReadPage

LEMMA LeadsResolve == Safe /\ Sourced /\ LinkLeads => LinksResolve
<1> SUFFICES ASSUME Safe, Sourced, LinkLeads PROVE LinksResolve
  OBVIOUS
<1>1. ASSUME NEW t \in threats PROVE ExternalIds(t) # {}
  BY DEF Sourced, ExternalIds, Representatives
<1>2. ASSUME link # NoLink PROVE Found(link)
  <2>1. PICK t \in Ids : \E s \in Sources : rows[t][s] # NoRow /\ rows[t][s].xid = link
    BY <1>2 DEF LinkLeads
  <2>2. t \in threats
    BY <2>1, RowsHaveThreats
  <2> QED
    BY <2>1, <2>2 DEF Found, ByExternalId, Present
<1> QED
  BY <1>1, <1>2 DEF LinksResolve

\* A link to /cve/{id} that a list, a dashboard or a feed has shown leads to a threat
\* for ever, if every threat there is at the start has a source, which a migration
\* sees to (MigrationFits).
THEOREM LinksAlwaysResolve ==
  ASSUME \A d \in Databases : \A t \in d.threats : \E s \in Sources : d.rows[t][s] # NoRow
  PROVE  ReaderSpec => []LinksResolve
<1>1. ReaderInit /\ Safe => Sourced /\ LinkLeads
  BY StartsSourced
<1>2. [ReaderNext]_readerVars => [Next]_vars
  BY ReaderSteps
<1>3. Safe /\ Sourced /\ LinkLeads /\ [ReaderNext]_readerVars => Sourced' /\ LinkLeads'
  BY <1>2, StepSourced, StepLinkLeads
<1> QED
  BY <1>1, <1>3, LeadsResolve, Inductive, ReadersOnlyRead, PTL DEF ReaderSpec

\* What the migration makes of threats of the old schema is a catalogue that
\* ingestion may start from: DatabasesAssumption, and what LinksAlwaysResolve and
\* PagersMissOnlyMoves assume of it: every threat has a source and a date.
THEOREM MigrationFits ==
  ASSUME NEW old, DOMAIN old \subseteq Ids, nvd \in Sources,
         \A t \in DOMAIN old : /\ old[t].xid \in Identifiers /\ old[t].created \in Int
                               /\ old[t].published \in Int
                               /\ MigratedEvent(old[t]) \in Migrated
  PROVE  LET d == Upgraded(old)
         IN /\ d.threats \subseteq Ids
            /\ d.rows \in [Ids -> [Sources -> Row \cup {NoRow}]]
            /\ d.indicators \subseteq d.threats \X Identifiers
            /\ DOMAIN d.columns = Ids
            /\ \A t \in Ids : \A s \in Sources :
                 d.rows[t][s] # NoRow =>
                   \A i \in d.rows[t][s].event.ids \cup {d.rows[t][s].xid} :
                     <<t, i>> \in d.indicators
            /\ \A t \in d.threats : \E s \in Sources : d.rows[t][s] # NoRow
            /\ \A t \in d.threats : d.columns[t].published \in Int
<1> DEFINE d == Upgraded(old)
<1>1. ASSUME NEW t \in DOMAIN old PROVE MigratedRow(old[t]) \in Row
  <2>1. MigratedEvent(old[t]).tags = {Nvd}
    BY DEF MigratedEvent
  <2> QED
    BY <2>1 DEF MigratedRow, Row
<1>2. \A t \in Ids, s \in Sources :
        d.rows[t][s] = IF t \in DOMAIN old /\ s = nvd THEN MigratedRow(old[t]) ELSE NoRow
  BY DEF Upgraded
<1>3. d.rows \in [Ids -> [Sources -> Row \cup {NoRow}]]
  BY <1>1 DEF Upgraded
<1>4. d.indicators \subseteq d.threats \X Identifiers /\ d.threats = DOMAIN old
  BY DEF Upgraded, MigratedIndicators
<1>5. DOMAIN d.columns = Ids
  BY DEF Upgraded
<1>6. ASSUME NEW t \in Ids, NEW s \in Sources, d.rows[t][s] # NoRow
      PROVE  \A i \in d.rows[t][s].event.ids \cup {d.rows[t][s].xid} : <<t, i>> \in d.indicators
  <2>1. t \in DOMAIN old /\ d.rows[t][s] = MigratedRow(old[t])
    BY <1>2, <1>6
  <2>2. d.rows[t][s].xid = old[t].xid /\ d.rows[t][s].event.ids = {old[t].xid}
    BY <2>1 DEF MigratedRow, MigratedEvent
  <2> QED
    BY <2>1, <2>2 DEF Upgraded, MigratedIndicators
<1>7. ASSUME NEW t \in d.threats PROVE \E s \in Sources : d.rows[t][s] # NoRow
  BY <1>1, <1>2, <1>4, NoRowAssumption
<1>8. \A t \in d.threats : d.columns[t].published \in Int
  BY <1>4 DEF Upgraded, MigratedColumns
<1> QED
  BY <1>3, <1>4, <1>5, <1>6, <1>7, <1>8
-----------------------------------------------------------------------------
(* Dates: the list is in the order of published_at, which every threat has.  *)

LEMMA LeastNatural ==
  ASSUME NEW S \in SUBSET Nat, S # {}
  PROVE  \E n \in S : \A m \in S : n <= m
<1>1. PICK n \in S : \A m \in S : ~(<<m, n>> \in OpToRel(<, Nat))
  BY WFMin, NatLessThanWellFounded
<1>2. \A m \in S : ~(m < n)
  BY <1>1 DEF OpToRel
<1> QED
  BY <1>2

\* Of finitely many sources that have a date, one has the earliest.
LEMMA EarliestSource ==
  ASSUME NEW S, IsFiniteSet(S), S # {}, NEW date \in [S -> Int]
  PROVE  \E m \in S : \A s \in S : date[m] <= date[s]
<1> DEFINE Sooner(s) == {r \in S : date[r] < date[s]}
           N == {Cardinality(Sooner(s)) : s \in S}
<1>1. ASSUME NEW s \in S
      PROVE  IsFiniteSet(Sooner(s)) /\ Cardinality(Sooner(s)) \in Nat
  <2>1. Sooner(s) \in SUBSET S
    OBVIOUS
  <2> QED
    BY <2>1, FS_Subset, FS_CardinalityType
<1>2. PICK m \in S : \A s \in S : Cardinality(Sooner(m)) <= Cardinality(Sooner(s))
  <2>1. N \in SUBSET Nat /\ N # {}
    BY <1>1
  <2>2. PICK n \in N : \A k \in N : n <= k
    BY <2>1, LeastNatural
  <2> QED
    BY <2>2
<1>3. ASSUME NEW s \in S, date[s] < date[m] PROVE FALSE
  <2>1. Sooner(s) \in SUBSET Sooner(m) /\ s \in Sooner(m) /\ s \notin Sooner(s)
    BY <1>3
  <2>2. Cardinality(Sooner(s)) <= Cardinality(Sooner(m))
        /\ Cardinality(Sooner(s)) # Cardinality(Sooner(m))
    BY <1>1, <2>1, FS_Subset
  <2> QED
    BY <1>1, <1>2, <2>2
<1>4. \A s \in S : date[m] <= date[s]
  BY <1>3
<1> QED
  BY <1>4

\* published_at is the earliest of the dates of the sources, and so a date.
LEMMA PublishedIsDate ==
  ASSUME IsFiniteSet(Sources), NEW r, Present(r) # {},
         \A s \in Present(r) : r[s].first \in Int
  PROVE  Published(r) \in Int
<1> DEFINE date == [s \in Present(r) |-> r[s].first]
<1>1. IsFiniteSet(Present(r))
  BY FS_Subset DEF Present
<1>2. date \in [Present(r) -> Int]
  OBVIOUS
<1> HIDE DEF date
<1>3. PICK m \in Present(r) : \A s \in Present(r) : date[m] <= date[s]
  BY <1>1, <1>2, EarliestSource
<1>4. \E p \in {r[s].first : s \in Present(r)} : \A s \in Present(r) : p <= r[s].first
  BY <1>3 DEF date
<1>5. Published(r) \in {r[s].first : s \in Present(r)}
  BY <1>4 DEF Published
<1> QED
  BY <1>5

RecordsDated ==
  /\ \A t \in threats : columns[t].published \in Int
  /\ \A w \in Workers : pc[w] # "idle" /\ ~txn[w].fresh => txn[w].target \in threats
  /\ \A w \in Workers : pc[w] = "computed" => /\ "published" \in DOMAIN txn[w].computed
                                              /\ txn[w].computed.published \in Int

LEMMA CanonicalIsDated ==
  ASSUME IsFiniteSet(Sources), NEW before, NEW r, Present(r) # {},
         \A s \in Present(r) : r[s].first \in Int
  PROVE  /\ "published" \in DOMAIN Canonical(before, r)
         /\ Canonical(before, r).published \in Int
BY PublishedIsDate DEF Canonical

LEMMA RecomputeDated ==
  ASSUME IsFiniteSet(Sources), Safe, RecordsDated, NEW w \in Workers, Recompute(w)
  PROVE  RecordsDated'
<1> DEFINE t == txn[w].target
           e == txn[w].event
           before == IF txn[w].fresh THEN FromEvent(e) ELSE columns[t]
           seen == [rows[t] EXCEPT ![e.source] = InMemory(w)]
<1>1. t \in Ids /\ e \in Events /\ e.source \in Sources
  BY EventsAssumption DEF Safe, TypeOK
<1>2. InMemory(w) \in Row
  BY <1>1, EventsAssumption DEF InMemory, Inserted, Row, Safe, TypeOK
<1>3. seen \in [Sources -> Row \cup {NoRow}] /\ seen[e.source] \in Row
  BY <1>1, <1>2 DEF Safe, TypeOK
<1> HIDE DEF seen
<1>4. Present(seen) # {} /\ \A s \in Present(seen) : seen[s].first \in Int
  BY <1>1, <1>3, NoRowAssumption DEF Present, Row
<1>5. /\ "published" \in DOMAIN Canonical(before, seen)
      /\ Canonical(before, seen).published \in Int
  BY <1>4, CanonicalIsDated
<1>6. /\ txn' = [txn EXCEPT ![w] = [event |-> e, target |-> t, fresh |-> txn[w].fresh,
                                    loaded |-> txn[w].loaded, before |-> before,
                                    computed |-> Canonical(before, seen)]]
      /\ pc[w] = "flushed" /\ pc' = [pc EXCEPT ![w] = "computed"] /\ UNCHANGED Committed
  BY DEF Recompute, seen
<1> HIDE DEF t, e, before
<1>7. /\ txn'[w].computed = Canonical(before, seen)
      /\ \A v \in Workers : txn'[v].fresh = txn[v].fresh /\ txn'[v].target = txn[v].target
      /\ \A v \in Workers \ {w} : txn'[v] = txn[v] /\ pc'[v] = pc[v]
  BY <1>6 DEF Safe, TypeOK, t, e
<1> QED
  BY <1>5, <1>6, <1>7 DEF RecordsDated, Committed, Safe, TypeOK

LEMMA CommitDated ==
  ASSUME Safe, RecordsDated, NEW w \in Workers, Commit(w)
  PROVE  RecordsDated'
<1> DEFINE t == txn[w].target
           c == txn[w].computed
<1>1. /\ pc[w] = "computed" /\ threats' = threats \cup {t}
      /\ columns' = [columns EXCEPT ![t] = FlushColumns(w)]
      /\ t \in Ids /\ DOMAIN columns = Ids /\ threats \subseteq Ids
  BY DEF Commit, Safe, TypeOK
<1>2. "published" \in DOMAIN c /\ c.published \in Int
  BY <1>1 DEF RecordsDated
<1>3. FlushColumns(w).published \in Int
  <2>1. CASE txn[w].fresh
    BY <1>2, <2>1 DEF FlushColumns
  <2>2. CASE ~txn[w].fresh
    <3>1. columns[t].published \in Int
      BY <1>1, <2>2 DEF RecordsDated
    <3>2. FlushColumns(w).published
            = IF c.published = txn[w].before.published THEN columns[t].published ELSE c.published
      BY <1>2, <2>2 DEF FlushColumns
    <3> QED
      BY <1>2, <3>1, <3>2
  <2> QED
    BY <2>1, <2>2
<1>4. \A u \in threats' : columns'[u].published \in Int
  BY <1>1, <1>3 DEF RecordsDated
<1>5. pc'[w] = "idle" /\ \A v \in Workers \ {w} : txn'[v] = txn[v] /\ pc'[v] = pc[v]
  BY DEF Commit, Safe, TypeOK
<1> QED
  BY <1>1, <1>4, <1>5 DEF RecordsDated

LEMMA StepDated ==
  ASSUME IsFiniteSet(Sources), Safe, RecordsDated, [Next]_vars
  PROVE  RecordsDated'
<1>1. CASE UNCHANGED vars
  BY <1>1 DEF vars, RecordsDated
<1>2. ASSUME NEW w \in Workers, Lookup(w) PROVE RecordsDated'
  <2>1. /\ \E e \in Events :
             \/ \E t \in threats : txn' = [txn EXCEPT ![w] = Begun(e, t, FALSE)]
             \/ \E t \in Ids : txn' = [txn EXCEPT ![w] = Begun(e, t, TRUE)]
        /\ pc' = [pc EXCEPT ![w] = "found"] /\ UNCHANGED Committed
    BY <1>2 DEF Lookup, OldestOf, Matches, Younger
  <2>2. pc'[w] = "found" /\ (~txn'[w].fresh => txn'[w].target \in threats)
        /\ \A v \in Workers \ {w} : txn'[v] = txn[v] /\ pc'[v] = pc[v]
    BY <2>1 DEF Begun, Safe, TypeOK
  <2> QED
    BY <2>1, <2>2 DEF RecordsDated, Committed
<1>3. ASSUME NEW w \in Workers, SelectRow(w) PROVE RecordsDated'
  BY <1>3 DEF SelectRow, RecordsDated, Committed, Safe, TypeOK
<1>4. ASSUME NEW w \in Workers, RollBack(w) PROVE RecordsDated'
  BY <1>4 DEF RollBack, RecordsDated, Committed, Safe, TypeOK
<1>5. ASSUME NEW w \in Workers, FlushRow(w) PROVE RecordsDated'
  BY <1>4, <1>5 DEF FlushRow, RecordsDated, Committed, Safe, TypeOK
<1> QED
  BY <1>1, <1>2, <1>3, <1>4, <1>5, RecomputeDated, CommitDated DEF Next, Fail

LEMMA InitDated ==
  ASSUME Init, \A d \in Databases : \A t \in d.threats : d.columns[t].published \in Int
  PROVE  RecordsDated
BY DEF Init, RecordsDated
-----------------------------------------------------------------------------
(* The list that a pager reads: threats in a total order, and what one step  *)
(* of ingestion can do to the places in it.                                  *)

\* A set with one element more than S, at most.
LEMMA OneMore ==
  ASSUME NEW S, IsFiniteSet(S), NEW x, NEW T, T \subseteq S \cup {x}
  PROVE  /\ Cardinality(S) \in Nat /\ Cardinality(T) \in Nat
         /\ Cardinality(T) <= Cardinality(S) + 1
<1>1. Cardinality(S) \in Nat
  BY FS_CardinalityType
<1>2. /\ IsFiniteSet(S \cup {x})
      /\ Cardinality(S \cup {x}) = IF x \in S THEN Cardinality(S) ELSE Cardinality(S) + 1
  BY FS_AddElement
<1>3. IsFiniteSet(T) /\ Cardinality(T) <= Cardinality(S \cup {x})
  BY <1>2, FS_Subset
<1>4. Cardinality(T) \in Nat
  BY <1>3, FS_CardinalityType
<1> QED
  BY <1>1, <1>2, <1>3, <1>4

LEMMA ListIsFinite ==
  ASSUME Safe, NEW f, NEW S \in SUBSET Ids
  PROVE  /\ IsFiniteSet(Ids) /\ IsFiniteSet(S) /\ Cardinality(S) \in Nat
         /\ Listed(f) \in SUBSET Ids /\ IsFiniteSet(Listed(f)) /\ Cardinality(Listed(f)) \in Nat
<1>1. IsFiniteSet(Ids)
  BY BoundAssumption, FS_Interval DEF Ids
<1>2. Listed(f) \in SUBSET Ids
  BY DEF Listed, Safe, TypeOK
<1> QED
  BY <1>1, <1>2, FS_Subset, FS_CardinalityType

\* published_at, and then the id, order threats totally.
LEMMA ListOrder ==
  ASSUME Safe, RecordsDated, NEW f,
         NEW t \in Listed(f), NEW u \in Listed(f), NEW v \in Listed(f)
  PROVE  /\ ~Before(t, t)
         /\ Before(t, u) /\ Before(u, v) => Before(t, v)
         /\ t # u => Before(t, u) \/ Before(u, t)
<1>1. /\ columns[t].published \in Int /\ columns[u].published \in Int
      /\ columns[v].published \in Int
  BY DEF RecordsDated, Listed
<1>2. t \in Ids /\ u \in Ids /\ v \in Ids
  BY DEF Listed, Safe, TypeOK
<1>3. Uuid[t] \in Int /\ Uuid[u] \in Int /\ Uuid[v] \in Int /\ (t # u => Uuid[t] # Uuid[u])
  BY <1>2, ReaderAssumption
<1> QED
  BY <1>1, <1>3 DEF Before

LEMMA PlaceIsNat ==
  ASSUME Safe, RecordsDated, NEW f, NEW t \in Listed(f)
  PROVE  Place(t, f) \in Nat /\ Place(t, f) < Cardinality(Listed(f))
<1> DEFINE P == {u \in Listed(f) : Before(u, t)}
<1>1. P \in SUBSET Listed(f) /\ t \notin P
  BY ListOrder
<1>2. IsFiniteSet(Listed(f)) /\ Cardinality(Listed(f)) \in Nat
  BY ListIsFinite
<1>3. /\ Cardinality(P) \in Nat /\ Cardinality(P) <= Cardinality(Listed(f))
      /\ Cardinality(P) # Cardinality(Listed(f))
  BY <1>1, <1>2, FS_Subset, FS_CardinalityType
<1> QED
  BY <1>2, <1>3 DEF Place

LEMMA PlaceGrows ==
  ASSUME Safe, RecordsDated, NEW f, NEW t \in Listed(f), NEW u \in Listed(f), Before(t, u)
  PROVE  Place(t, f) < Place(u, f)
<1> DEFINE P == {v \in Listed(f) : Before(v, t)}
           Q == {v \in Listed(f) : Before(v, u)}
<1>1. P \in SUBSET Q /\ t \in Q /\ t \notin P
  BY ListOrder
<1>2. IsFiniteSet(Q)
  BY ListIsFinite, FS_Subset
<1>3. Cardinality(P) <= Cardinality(Q) /\ Cardinality(P) # Cardinality(Q)
  BY <1>1, <1>2, FS_Subset
<1>4. Place(t, f) \in Nat /\ Place(u, f) \in Nat
  BY PlaceIsNat
<1> QED
  BY <1>3, <1>4 DEF Place

LEMMA PlaceIsUnique ==
  ASSUME Safe, RecordsDated, NEW f, NEW t \in Listed(f), NEW u \in Listed(f),
         Place(t, f) = Place(u, f)
  PROVE  t = u
BY ListOrder, PlaceGrows, PlaceIsNat

\* The places before one that is taken are taken.
LEMMA PlacesAreFilled ==
  ASSUME Safe, RecordsDated, NEW f, NEW t \in Listed(f), NEW n \in Nat, n <= Place(t, f)
  PROVE  \E u \in Listed(f) : Place(u, f) = n
<1> DEFINE L == {u \in Listed(f) : n <= Place(u, f)}
           N == {Place(u, f) : u \in L}
<1>1. N \in SUBSET Nat /\ N # {}
  BY PlaceIsNat
<1>2. PICK m \in L : \A u \in L : Place(m, f) <= Place(u, f)
  <2>1. PICK k \in N : \A l \in N : k <= l
    BY <1>1, LeastNatural
  <2> QED
    BY <2>1
<1> DEFINE P == {u \in Listed(f) : Before(u, m)}
           I == 0 .. n - 1
           place == [u \in P |-> Place(u, f)]
<1>3. ASSUME NEW u \in P PROVE Place(u, f) \in I
  <2>1. Place(u, f) < Place(m, f) /\ Place(u, f) \in Nat /\ Place(m, f) \in Nat
    BY PlaceGrows, PlaceIsNat
  <2> QED
    BY <1>2, <2>1
<1>4. place \in Injection(P, I)
  BY <1>3, PlaceIsUnique DEF Injection, IsInjective
<1>5. IsFiniteSet(I) /\ Cardinality(I) = n
  <2>1. 0 \in Int /\ n - 1 \in Int
    OBVIOUS
  <2>2. IsFiniteSet(I) /\ Cardinality(I) = IF 0 > n - 1 THEN 0 ELSE n - 1 - 0 + 1
    BY <2>1, FS_Interval
  <2> QED
    BY <2>2
<1>6. Cardinality(P) <= n
  BY <1>4, <1>5, FS_Injection
<1>7. Place(m, f) = n
  BY <1>2, <1>6, PlaceIsNat DEF Place
<1> QED
  BY <1>2, <1>7

\* A page is full if there is a threat after it.
LEMMA PageIsFull ==
  ASSUME Safe, RecordsDated, NEW f, NEW offset \in Nat,
         NEW t \in Listed(f), offset + Limit <= Place(t, f)
  PROVE  Limit <= Cardinality(Page(f, offset))
<1> DEFINE I == offset .. offset + Limit - 1
           at == [n \in I |-> CHOOSE u \in Listed(f) : Place(u, f) = n]
<1>0. Limit \in Nat \ {0}
  BY ReaderAssumption
<1>1. ASSUME NEW n \in I PROVE at[n] \in Page(f, offset) /\ Place(at[n], f) = n
  <2>1. Place(t, f) \in Nat /\ n \in Nat /\ n <= Place(t, f)
    BY <1>0, PlaceIsNat
  <2>2. \E u \in Listed(f) : Place(u, f) = n
    BY <2>1, PlacesAreFilled
  <2>3. at[n] \in Listed(f) /\ Place(at[n], f) = n
    BY <2>2
  <2> QED
    BY <1>0, <2>3 DEF Page
<1> HIDE DEF at
<1>2. at \in Injection(I, Page(f, offset))
  <2>1. at = [n \in I |-> at[n]]
    BY DEF at
  <2> QED
    BY <1>1, <2>1 DEF Injection, IsInjective
<1>3. IsFiniteSet(Page(f, offset)) /\ Cardinality(Page(f, offset)) \in Nat
  BY ListIsFinite, FS_Subset, FS_CardinalityType DEF Page
<1>4. Cardinality(I) = Limit
  BY <1>0, FS_Interval
<1> QED
  BY <1>2, <1>3, <1>4, FS_Injection

\* There are no more threats at a place or after it than the list is longer.
LEMMA FewBeyond ==
  ASSUME Safe, RecordsDated, NEW f, NEW n \in Nat
  PROVE  LET beyond == {t \in Listed(f) : n <= Place(t, f)}
         IN beyond # {} => Cardinality(beyond) <= Cardinality(Listed(f)) - n
<1> DEFINE B == {t \in Listed(f) : n <= Place(t, f)}
           I == n .. Cardinality(Listed(f)) - 1
           place == [t \in B |-> Place(t, f)]
<1> SUFFICES ASSUME B # {} PROVE Cardinality(B) <= Cardinality(Listed(f)) - n
  OBVIOUS
<1>1. Cardinality(Listed(f)) \in Nat
  BY ListIsFinite
<1>2. \A t \in B : Place(t, f) \in I
  BY <1>1, PlaceIsNat
<1>3. place \in Injection(B, I)
  BY <1>2, PlaceIsUnique DEF Injection, IsInjective
<1>4. n < Cardinality(Listed(f))
  BY <1>1, PlaceIsNat
<1>5. IsFiniteSet(I) /\ Cardinality(I) = Cardinality(Listed(f)) - n
  <2>1. n \in Int /\ Cardinality(Listed(f)) - 1 \in Int /\ ~(n > Cardinality(Listed(f)) - 1)
    BY <1>1, <1>4
  <2>2. IsFiniteSet(I) /\ Cardinality(I) = (Cardinality(Listed(f)) - 1) - n + 1
    BY <2>1, FS_Interval
  <2> QED
    BY <1>1, <2>2
<1> QED
  BY <1>3, <1>5, FS_Injection
-----------------------------------------------------------------------------
(* One step of ingestion changes one threat, if any: the others keep their   *)
(* order, and no place gets smaller by more than one.                        *)

OnlyChanges(x) ==
  /\ threats \subseteq threats' /\ threats' \subseteq threats \cup {x}
  /\ \A t \in Ids \ {x} : rows'[t] = rows[t] /\ columns'[t] = columns[t]

LEMMA OneThreatChanges == ASSUME Safe, Next PROVE \E x \in Ids : OnlyChanges(x)
<1>1. CASE UNCHANGED Committed
  <2>1. 1 \in Ids
    BY BoundAssumption DEF Ids
  <2> QED
    BY <1>1, <2>1 DEF Committed, OnlyChanges
<1>2. ASSUME NEW w \in Workers, Commit(w) PROVE \E x \in Ids : OnlyChanges(x)
  <2>1. txn[w].target \in Ids
    BY DEF Safe, TypeOK
  <2>2. OnlyChanges(txn[w].target)
    BY <1>2 DEF Commit, CommitRow, OnlyChanges, Safe, TypeOK
  <2> QED
    BY <2>1, <2>2
<1>3. ASSUME NEW w \in Workers,
             Lookup(w) \/ SelectRow(w) \/ FlushRow(w) \/ Recompute(w) \/ Fail(w)
      PROVE  UNCHANGED Committed
  BY <1>3 DEF Lookup, SelectRow, FlushRow, Recompute, Fail, RollBack, Committed
<1> QED
  BY <1>1, <1>2, <1>3 DEF Next

LEMMA OthersKeepOrder ==
  ASSUME Safe, NEW x \in Ids, OnlyChanges(x), Safe', NEW f
  PROVE  /\ \A t \in Ids \ {x} : t \in Listed(f)' <=> t \in Listed(f)
         /\ \A t, u \in Ids \ {x} : Before(t, u)' <=> Before(t, u)
         /\ Listed(f)' \subseteq Listed(f) \cup {x}
<1>1. ASSUME NEW t \in Ids \ {x} PROVE t \in Listed(f)' <=> t \in Listed(f)
  BY <1>1 DEF OnlyChanges, Listed, Fulfils
<1>2. \A t, u \in Ids \ {x} : Before(t, u)' <=> Before(t, u)
  BY DEF OnlyChanges, Before
<1>3. Listed(f)' \subseteq Ids
  BY DEF Listed, Safe, TypeOK
<1> QED
  BY <1>1, <1>2, <1>3

\* A threat that does not change comes to an earlier place only by one that was
\* before it, and then by one place.
LEMMA PlaceShrinksByOne ==
  ASSUME Safe, RecordsDated, Safe', RecordsDated', NEW x \in Ids, OnlyChanges(x), NEW f,
         NEW t \in Listed(f), t # x
  PROVE  /\ t \in Listed(f)' /\ Place(t, f)' \in Nat
         /\ Place(t, f) <= Place(t, f)' + 1
         /\ ~(x \in Listed(f) /\ Before(x, t)) => Place(t, f) <= Place(t, f)'
<1> DEFINE P == {u \in Listed(f) : Before(u, t)}
           Q == {u \in Listed(f)' : Before(u, t)'}
<1>1. t \in Ids /\ t \in Listed(f)' /\ P \in SUBSET Ids /\ Q \in SUBSET Ids
  BY OthersKeepOrder DEF Listed, Safe, TypeOK
<1>2. /\ IsFiniteSet(P) /\ IsFiniteSet(Q) /\ Cardinality(P) \in Nat /\ Cardinality(Q) \in Nat
  BY <1>1, ListIsFinite
<1>3. \A u \in P : u = x \/ u \in Q
  BY <1>1, OthersKeepOrder
<1>4. Place(t, f) = Cardinality(P) /\ Place(t, f)' = Cardinality(Q)
  BY DEF Place
<1> HIDE DEF P, Q
<1>5. Cardinality(P) <= Cardinality(Q) + 1
  BY <1>2, <1>3, OneMore
<1>6. x \notin P => Cardinality(P) <= Cardinality(Q)
  BY <1>2, <1>3, FS_Subset
<1> QED
  BY <1>1, <1>2, <1>4, <1>5, <1>6 DEF P

\* A step that moves nothing in the list makes no place smaller.
LEMMA PlaceStays ==
  ASSUME Safe, RecordsDated, Safe', RecordsDated', NEW x \in Ids, OnlyChanges(x), NEW f,
         ~Moves(f), NEW t \in Listed(f)
  PROVE  t \in Listed(f)' /\ Place(t, f)' \in Nat /\ Place(t, f) <= Place(t, f)'
<1>1. CASE x \notin Listed(f)
  BY <1>1, PlaceShrinksByOne
<1>2. CASE x \in Listed(f)
  <2>1. Fulfils(x, f)' /\ columns'[x].published = columns[x].published
    BY <1>2 DEF Moves
  <2>2. x \in Listed(f)'
    BY <1>2, <2>1 DEF Listed, OnlyChanges
  <2>3. Listed(f)' = Listed(f) /\ Listed(f) \in SUBSET Ids
    <3>1. Listed(f) \in SUBSET Ids /\ Listed(f)' \in SUBSET Ids
      BY DEF Listed, Safe, TypeOK
    <3> QED
      BY <1>2, <2>2, <3>1, OthersKeepOrder
  <2>4. \A u \in Ids : columns'[u].published = columns[u].published
    BY <2>1 DEF OnlyChanges
  <2>5. \A u \in Listed(f) : Before(u, t)' <=> Before(u, t)
    BY <2>3, <2>4 DEF Before
  <2>6. Place(t, f)' = Place(t, f)
    <3>1. {u \in Listed(f)' : Before(u, t)'} = {u \in Listed(f) : Before(u, t)}
      BY <2>3, <2>5
    <3> QED
      BY <3>1 DEF Place
  <2> QED
    BY <2>3, <2>6, PlaceIsNat
<1> QED
  BY <1>1, <1>2
-----------------------------------------------------------------------------
(* A pager.                                                                  *)

\* The threats that the pager will not see any more: they are before the page it
\* is to ask for, or not in the list.
Passed(f, offset) == {t \in pager.missing : t \in Listed(f) => Place(t, f) < offset}

PagerType ==
  pager \in [at : {"done", "asked", "counted"}, filter : Filters \cup {NoRow},
             trusting : BOOLEAN, offset : Nat, total : Nat, missing : SUBSET Ids,
             moves : Nat, late : Nat]

PassedOnlyMoves ==
  pager.at # "done" => Cardinality(Passed(pager.filter, pager.offset)) <= pager.moves

CountedButLate ==
  pager.at = "counted" /\ pager.trusting =>
    \/ Cardinality(Listed(pager.filter)) <= pager.total + pager.late
    \/ Cardinality(pager.missing) <= pager.late

PagerInv == PagerType /\ PassedOnlyMoves /\ CountedButLate /\ PagesMissOnlyMoves

LEMMA InitPager == ReaderInit => PagerInv
<1> SUFFICES ASSUME ReaderInit PROVE PagerInv
  OBVIOUS
<1>1. pager.at = "done" /\ pager.missing = {} /\ pager.moves = 0 /\ ~pager.trusting /\ PagerType
  BY DEF ReaderInit, NoPager, Pager, PagerType
<1> QED
  BY <1>1, FS_EmptySet DEF PagerInv, PassedOnlyMoves, CountedButLate, PagesMissOnlyMoves

LEMMA MissingIsFinite ==
  ASSUME PagerType, NEW S \in SUBSET pager.missing
  PROVE  /\ pager.missing \in SUBSET Ids
         /\ IsFiniteSet(pager.missing) /\ Cardinality(pager.missing) \in Nat
         /\ IsFiniteSet(S) /\ Cardinality(S) \in Nat /\ Cardinality(S) <= Cardinality(pager.missing)
<1>1. pager.missing \in SUBSET Ids
  BY DEF PagerType
<1>0. IsFiniteSet(Ids)
  BY BoundAssumption, FS_Interval DEF Ids
<1>2. IsFiniteSet(pager.missing)
  BY <1>0, <1>1, FS_Subset
<1> QED
  BY <1>1, <1>2, FS_Subset, FS_CardinalityType

\* Of the threats that the pager has yet to see, a step passes it by one at most,
\* and none if it moves nothing.
LEMMA OnePassesAtMost ==
  ASSUME Safe, RecordsDated, Safe', RecordsDated', PagerType, Next, NEW f, NEW offset \in Nat,
         pager'.missing = pager.missing
  PROVE  /\ Passed(f, offset)' \in SUBSET pager.missing
         /\ \A t, u \in Passed(f, offset)' \ Passed(f, offset) : t = u
         /\ ~Moves(f) => Passed(f, offset)' \subseteq Passed(f, offset)
<1>1. PICK x \in Ids : OnlyChanges(x)
  BY OneThreatChanges
<1> DEFINE D == Passed(f, offset)' \ Passed(f, offset)
<1>2. ASSUME NEW t \in D
      PROVE  /\ t \in Listed(f) /\ Place(t, f) \in Nat /\ offset <= Place(t, f)
             /\ t \in Listed(f)' => Place(t, f)' < offset
  <2>1. t \in Listed(f) /\ ~(Place(t, f) < offset) /\ (t \in Listed(f)' => Place(t, f)' < offset)
    BY DEF Passed
  <2> QED
    BY <2>1, PlaceIsNat
<1>3. ASSUME NEW t \in D, t # x
      PROVE  x \in Listed(f) /\ Before(x, t) /\ Place(t, f) = offset
  <2>1. /\ t \in Listed(f)' /\ Place(t, f)' \in Nat
        /\ Place(t, f) <= Place(t, f)' + 1
        /\ ~(x \in Listed(f) /\ Before(x, t)) => Place(t, f) <= Place(t, f)'
    BY <1>1, <1>2, <1>3, PlaceShrinksByOne
  <2> QED
    BY <1>2, <2>1
<1>4. ASSUME NEW t \in D, NEW u \in D PROVE t = u
  <2>1. CASE t # x /\ u # x
    BY <1>2, <1>3, <2>1, PlaceIsUnique
  <2>2. ASSUME NEW v \in D, v # x, x \in D PROVE FALSE
    <3>1. Place(x, f) < Place(v, f)
      BY <1>2, <1>3, <2>2, PlaceGrows
    <3> QED
      BY <1>2, <1>3, <2>2, <3>1
  <2> QED
    BY <2>1, <2>2
<1>5. ASSUME ~Moves(f), NEW t \in D PROVE FALSE
  <2>1. t \in Listed(f)' /\ Place(t, f)' \in Nat /\ Place(t, f) <= Place(t, f)'
    BY <1>1, <1>2, <1>5, PlaceStays
  <2> QED
    BY <1>2, <2>1
<1>6. Passed(f, offset)' \in SUBSET pager.missing
  BY DEF Passed
<1> QED
  BY <1>4, <1>5, <1>6

LEMMA ListGrowsByOne ==
  ASSUME Safe, Safe', Next, NEW f
  PROVE  /\ Cardinality(Listed(f)') \in Nat
         /\ Cardinality(Listed(f)') <= Cardinality(Listed(f)) + 1
         /\ ~Enters(f) => Cardinality(Listed(f)') <= Cardinality(Listed(f))
<1>1. PICK x \in Ids : OnlyChanges(x)
  BY OneThreatChanges
<1>2. IsFiniteSet(Listed(f)) /\ Cardinality(Listed(f)) \in Nat
  BY ListIsFinite
<1>3. Listed(f)' \in SUBSET Ids
  BY DEF Listed, Safe, TypeOK
<1>4. Cardinality(Listed(f)') \in Nat
  BY <1>3, ListIsFinite
<1>5. Cardinality(Listed(f)') <= Cardinality(Listed(f)) + 1
  BY <1>1, <1>2, OthersKeepOrder, OneMore
<1>6. ASSUME ~Enters(f) PROVE Cardinality(Listed(f)') <= Cardinality(Listed(f))
  <2>1. Listed(f)' \in SUBSET Listed(f)
    BY <1>6 DEF Enters, Listed
  <2> QED
    BY <1>2, <2>1, FS_Subset
<1> QED
  BY <1>4, <1>5, <1>6

LEMMA IngestPager ==
  ASSUME Safe, RecordsDated, Safe', RecordsDated', PagerInv, Ingest
  PROVE  PagerInv'
<1>0. Next
  BY DEF Ingest, HistoryNext
<1>1. PICK f \in {pager.filter} :
        pager' = IF pager.at = "done" THEN pager
                 ELSE [pager EXCEPT !.moves = Counted(@, Moves(f)),
                                    !.late  = Counted(@, pager.at = "counted" /\ Enters(f))]
  BY DEF Ingest
<1>2. CASE pager.at = "done"
  BY <1>1, <1>2 DEF PagerInv, PagerType, PassedOnlyMoves, CountedButLate, PagesMissOnlyMoves
<1>3. CASE pager.at # "done"
  <2> DEFINE moves == Counted(pager.moves, Moves(f))
             late == Counted(pager.late, pager.at = "counted" /\ Enters(f))
             few == Cardinality(pager.missing)
             offset == pager.offset
  <2>1. /\ pager.moves \in Nat /\ pager.late \in Nat /\ pager.total \in Nat /\ offset \in Nat
        /\ few \in Nat
    BY MissingIsFinite DEF PagerInv, PagerType
  <2>2. /\ moves \in Nat /\ late \in Nat
        /\ moves = IF Moves(f) /\ pager.moves < few THEN pager.moves + 1 ELSE pager.moves
        /\ late = IF (pager.at = "counted" /\ Enters(f)) /\ pager.late < few THEN pager.late + 1
                                                                           ELSE pager.late
    BY <2>1 DEF Counted
  <2> HIDE DEF moves, late
  <2>3. /\ pager' = [pager EXCEPT !.moves = moves, !.late = late]
        /\ pager'.at = pager.at /\ pager'.filter = f /\ f = pager.filter
        /\ pager'.trusting = pager.trusting /\ pager'.offset = offset
        /\ pager'.total = pager.total /\ pager'.missing = pager.missing
        /\ pager'.moves = moves /\ pager'.late = late
    BY <1>1, <1>3 DEF PagerInv, PagerType, moves, late
  <2>4. PagerType'
    BY <2>2, <2>3 DEF PagerInv, PagerType
  <2>5. PassedOnlyMoves'
    <3> DEFINE P == Passed(f, offset)
               Q == Passed(f, offset)'
    <3>1. /\ Q \in SUBSET pager.missing /\ P \in SUBSET pager.missing
          /\ \A t, u \in Q \ P : t = u
          /\ ~Moves(f) => Q \subseteq P
      BY <1>0, <2>1, <2>3, OnePassesAtMost DEF PagerInv, Passed
    <3>2. /\ IsFiniteSet(P) /\ Cardinality(P) \in Nat
          /\ Cardinality(Q) \in Nat /\ Cardinality(Q) <= few
      BY <3>1, MissingIsFinite DEF PagerInv
    <3>3. Cardinality(P) <= pager.moves
      BY <1>3, <2>3 DEF PagerInv, PassedOnlyMoves
    <3> HIDE DEF P, Q
    <3>4. Cardinality(Q) <= Cardinality(P) + 1
      <4>1. CASE Q \ P = {}
        BY <3>2, <4>1, FS_Subset
      <4>2. ASSUME NEW y \in Q \ P PROVE Cardinality(Q) <= Cardinality(P) + 1
        <5>1. Q \subseteq P \cup {y}
          BY <3>1, <4>2
        <5> QED
          BY <3>2, <5>1, OneMore
      <4> QED
        BY <4>1, <4>2
    <3>5. ~Moves(f) => Cardinality(Q) <= Cardinality(P)
      BY <3>1, <3>2, FS_Subset
    <3>6. Cardinality(Q) <= moves
      BY <2>1, <2>2, <3>2, <3>3, <3>4, <3>5
    <3> QED
      BY <2>3, <3>6 DEF PassedOnlyMoves, Q
  <2>6. CountedButLate'
    <3> SUFFICES ASSUME pager.at = "counted", pager.trusting
                 PROVE  Cardinality(Listed(f)') <= pager.total + late \/ few <= late
      BY <2>3 DEF CountedButLate
    <3>1. /\ Cardinality(Listed(f)') \in Nat /\ Cardinality(Listed(f)) \in Nat
          /\ Cardinality(Listed(f)') <= Cardinality(Listed(f)) + 1
          /\ ~Enters(f) => Cardinality(Listed(f)') <= Cardinality(Listed(f))
      BY <1>0, ListGrowsByOne, ListIsFinite
    <3>2. Cardinality(Listed(f)) <= pager.total + pager.late \/ few <= pager.late
      BY <2>3 DEF PagerInv, CountedButLate
    <3> QED
      BY <2>1, <2>2, <3>1, <3>2
  <2>7. PagesMissOnlyMoves'
    BY <1>3, <2>3 DEF PagesMissOnlyMoves
  <2> QED
    BY <2>4, <2>5, <2>6, <2>7 DEF PagerInv
<1> QED
  BY <1>2, <1>3

LEMMA AskPager ==
  ASSUME PagerInv, Safe, RecordsDated, Ask
  PROVE  PagerInv'
<1>1. PICK f \in Filters, trusting \in BOOLEAN : pager' = Pager("asked", f, trusting, Listed(f))
  BY DEF Ask
<1>2. /\ pager'.at = "asked" /\ pager'.filter = f /\ pager'.offset = 0 /\ pager'.moves = 0
      /\ pager'.missing = Listed(f)
  BY <1>1 DEF Pager
<1>3. Listed(f) \in SUBSET Ids
  BY ListIsFinite
<1>4. PagerType'
  BY <1>1, <1>3 DEF Pager, PagerType
<1>5. Listed(f)' = Listed(f) /\ \A t \in Listed(f) : Place(t, f)' = Place(t, f)
  BY DEF Ask, historyVars, vars, Listed, Fulfils, Place, Before
<1>6. Passed(f, 0)' = {}
  BY <1>2, <1>5, PlaceIsNat DEF Passed
<1>7. PassedOnlyMoves'
  BY <1>2, <1>6, FS_EmptySet DEF PassedOnlyMoves
<1> QED
  BY <1>2, <1>4, <1>7 DEF PagerInv, CountedButLate, PagesMissOnlyMoves

LEMMA CountPager ==
  ASSUME PagerInv, Safe, Count
  PROVE  PagerInv'
<1> DEFINE f == pager.filter
           n == Cardinality(Listed(f))
<1>1. n \in Nat
  BY ListIsFinite
<1>2. /\ pager.at = "asked" /\ pager' = [pager EXCEPT !.at = "counted", !.total = n, !.late = 0]
      /\ UNCHANGED vars
  BY DEF Count, historyVars
<1>3. /\ pager'.at = "counted" /\ pager'.filter = pager.filter /\ pager'.offset = pager.offset
      /\ pager'.total = n /\ pager'.late = 0 /\ pager'.moves = pager.moves
      /\ pager'.missing = pager.missing /\ PagerType'
  BY <1>1, <1>2 DEF PagerInv, PagerType
<1>4. Listed(pager.filter)' = Listed(f)
  BY <1>2, <1>3 DEF vars, Listed, Fulfils
<1>5. \A t : Place(t, pager.filter)' = Place(t, f)
  BY <1>2, <1>3, <1>4 DEF vars, Place, Before
<1>6. Passed(pager.filter, pager.offset)' = Passed(f, pager.offset)
  BY <1>3, <1>4, <1>5 DEF Passed
<1>7. PassedOnlyMoves'
  BY <1>2, <1>3, <1>6 DEF PagerInv, PassedOnlyMoves
<1>8. CountedButLate'
  BY <1>1, <1>3, <1>4 DEF CountedButLate
<1> QED
  BY <1>3, <1>7, <1>8 DEF PagerInv, PagesMissOnlyMoves

\* What the pager has not seen when it stops has passed it, or come too late.
LEMMA LastPageMisses ==
  ASSUME PagerInv, Safe, RecordsDated, pager.at = "counted",
         LET page == Page(pager.filter, pager.offset)
         IN IF pager.trusting THEN pager.offset + Limit >= pager.total
                              ELSE Cardinality(page) < Limit
  PROVE  Cardinality(pager.missing \ Page(pager.filter, pager.offset))
           <= pager.moves + (IF pager.trusting THEN pager.late ELSE 0)
<1> DEFINE f == pager.filter
           offset == pager.offset
           page == Page(f, offset)
           P == Passed(f, offset)
           B == {t \in Listed(f) : offset + Limit <= Place(t, f)}
           rest == pager.missing \ page
<1>1. /\ offset \in Nat /\ pager.moves \in Nat /\ pager.late \in Nat /\ pager.total \in Nat
      /\ pager.trusting \in BOOLEAN /\ Limit \in Nat \ {0} /\ offset + Limit \in Nat
  BY ReaderAssumption DEF PagerInv, PagerType
<1>2. rest \subseteq P \cup B
  <2> SUFFICES ASSUME NEW t \in pager.missing, t \in Listed(f), offset <= Place(t, f),
                      Place(t, f) < offset + Limit
               PROVE  t \in page
    BY <1>1, PlaceIsNat DEF Passed
  <2> QED
    BY DEF Page
<1>3. /\ IsFiniteSet(P) /\ Cardinality(P) \in Nat /\ Cardinality(P) <= pager.moves
      /\ IsFiniteSet(rest) /\ Cardinality(rest) \in Nat
      /\ Cardinality(rest) <= Cardinality(pager.missing) /\ Cardinality(pager.missing) \in Nat
  BY MissingIsFinite DEF PagerInv, PassedOnlyMoves, Passed
<1>4. IsFiniteSet(B) /\ Cardinality(B) \in Nat
  BY ListIsFinite, FS_Subset, FS_CardinalityType
<1>5. Cardinality(rest) <= Cardinality(P) + Cardinality(B)
  <2>1. /\ IsFiniteSet(P \cup B) /\ Cardinality(P \cup B) \in Nat
        /\ Cardinality(P \cup B) <= Cardinality(P) + Cardinality(B)
    <3>1. /\ IsFiniteSet(P \cup B)
          /\ Cardinality(P \cup B) = Cardinality(P) + Cardinality(B) - Cardinality(P \cap B)
      BY <1>3, <1>4, FS_Union
    <3>2. Cardinality(P \cap B) \in Nat /\ Cardinality(P \cup B) \in Nat
      BY <1>3, <3>1, FS_Subset, FS_CardinalityType
    <3> QED
      BY <1>3, <1>4, <3>1, <3>2
  <2>2. Cardinality(rest) <= Cardinality(P \cup B)
    BY <1>2, <2>1, FS_Subset
  <2> QED
    BY <1>3, <1>4, <2>1, <2>2
<1> HIDE DEF P, rest
<1>6. CASE ~pager.trusting
  <2>1. Cardinality(page) < Limit
    BY <1>6
  <2>2. B = {}
    <3> SUFFICES ASSUME NEW t \in B PROVE FALSE
      OBVIOUS
    <3>1. Limit <= Cardinality(page) /\ Cardinality(page) \in Nat
      BY <1>1, PageIsFull, ListIsFinite, FS_Subset, FS_CardinalityType DEF Page
    <3> QED
      BY <1>1, <2>1, <3>1
  <2>3. Cardinality(B) = 0
    BY <2>2, FS_EmptySet
  <2>4. Cardinality(rest) <= pager.moves
    BY <1>1, <1>3, <1>5, <2>3
  <2> QED
    BY <1>1, <1>6, <2>4 DEF rest
<1>7. CASE pager.trusting
  <2>1. pager.offset + Limit >= pager.total
    BY <1>7
  <2>2. \/ Cardinality(Listed(f)) <= pager.total + pager.late
        \/ Cardinality(pager.missing) <= pager.late
    BY <1>7 DEF PagerInv, CountedButLate
  <2>3. Cardinality(B) = 0 \/ Cardinality(B) <= Cardinality(Listed(f)) - (offset + Limit)
    BY <1>1, FewBeyond, FS_EmptySet
  <2>4. Cardinality(Listed(f)) \in Nat
    BY ListIsFinite
  <2>5. Cardinality(B) <= pager.late \/ Cardinality(pager.missing) <= pager.late
    BY <1>1, <1>4, <2>1, <2>2, <2>3, <2>4
  <2>6. Cardinality(rest) <= pager.moves + pager.late
    BY <1>1, <1>3, <1>4, <1>5, <2>5
  <2> QED
    BY <1>7, <2>6 DEF rest
<1> QED
  BY <1>1, <1>6, <1>7

LEMMA ReadPagePager ==
  ASSUME PagerInv, Safe, RecordsDated, ReadPage
  PROVE  PagerInv'
<1> DEFINE f == pager.filter
           offset == pager.offset
           page == Page(f, offset)
           last == IF pager.trusting THEN offset + Limit >= pager.total
                                     ELSE Cardinality(page) < Limit
           read == [pager EXCEPT !.missing = @ \ page, !.total = 0]
<1>1. /\ pager.at = "counted" /\ UNCHANGED vars
      /\ pager' = IF last THEN [read EXCEPT !.at = "done", !.filter = NoRow, !.offset = 0]
                          ELSE [read EXCEPT !.at = "asked", !.offset = @ + Limit]
  BY DEF ReadPage, historyVars
<1>2. offset \in Nat /\ Limit \in Nat \ {0} /\ pager.missing \in SUBSET Ids
  BY ReaderAssumption DEF PagerInv, PagerType
<1> HIDE DEF last, page
<1>3. CASE last
  <2>1. /\ pager'.at = "done" /\ pager'.missing = pager.missing \ page
        /\ pager'.moves = pager.moves /\ pager'.late = pager.late
        /\ pager'.trusting = pager.trusting /\ PagerType'
    BY <1>1, <1>2, <1>3 DEF PagerInv, PagerType
  <2>2. Cardinality(pager.missing \ page)
          <= pager.moves + (IF pager.trusting THEN pager.late ELSE 0)
    BY <1>1, <1>3, LastPageMisses DEF last, page
  <2> QED
    BY <2>1, <2>2 DEF PagerInv, PassedOnlyMoves, CountedButLate, PagesMissOnlyMoves
<1>4. CASE ~last
  <2>1. /\ pager'.at = "asked" /\ pager'.missing = pager.missing \ page
        /\ pager'.moves = pager.moves /\ pager'.filter = f /\ pager'.offset = offset + Limit
        /\ pager'.trusting = pager.trusting /\ PagerType'
    <3>1. read = [pager EXCEPT !.missing = pager.missing \ page, !.total = 0]
      BY DEF PagerInv, PagerType
    <3>2. pager' = [pager EXCEPT !.missing = pager.missing \ page, !.total = 0,
                                 !.at = "asked", !.offset = offset + Limit]
      BY <1>1, <1>4, <3>1 DEF PagerInv, PagerType
    <3>3. offset + Limit \in Nat
      BY <1>2
    <3> QED
      BY <1>2, <3>2, <3>3 DEF PagerInv, PagerType
  <2>2. Listed(pager.filter)' = Listed(f)
    BY <1>1, <2>1 DEF vars, Listed, Fulfils
  <2>3. \A t : Place(t, pager.filter)' = Place(t, f)
    BY <1>1, <2>1, <2>2 DEF vars, Place, Before
  <2>4. Passed(pager.filter, pager.offset)' \in SUBSET Passed(f, offset)
    <3> SUFFICES ASSUME NEW t \in pager.missing \ page, t \in Listed(f),
                        Place(t, f) < offset + Limit
                 PROVE  Place(t, f) < offset
      BY <2>1, <2>2, <2>3 DEF Passed
    <3>1. Place(t, f) \in Nat
      BY PlaceIsNat
    <3> QED
      BY <1>2, <3>1 DEF page, Page
  <2>5. /\ IsFiniteSet(Passed(f, offset)) /\ Cardinality(Passed(f, offset)) \in Nat
        /\ Cardinality(Passed(f, offset)) <= pager.moves
    BY <1>1, MissingIsFinite DEF PagerInv, PassedOnlyMoves, Passed
  <2>6. PassedOnlyMoves'
    <3>1. /\ IsFiniteSet(Passed(pager.filter, pager.offset)')
          /\ Cardinality(Passed(pager.filter, pager.offset)') <= Cardinality(Passed(f, offset))
      BY <2>4, <2>5, FS_Subset
    <3>2. Cardinality(Passed(pager.filter, pager.offset)') \in Nat
      BY <3>1, FS_CardinalityType
    <3>3. pager.moves \in Nat
      BY DEF PagerInv, PagerType
    <3> QED
      BY <2>1, <2>5, <3>1, <3>2, <3>3 DEF PassedOnlyMoves
  <2> QED
    BY <2>1, <2>6 DEF PagerInv, CountedButLate, PagesMissOnlyMoves
<1> QED
  BY <1>3, <1>4

LEMMA SamePager == ASSUME PagerInv, UNCHANGED <<vars, pager>> PROVE PagerInv'
<1>1. PagerType' /\ PagesMissOnlyMoves'
  BY DEF PagerInv, PagerType, PagesMissOnlyMoves
<1>2. Passed(pager.filter, pager.offset)' = Passed(pager.filter, pager.offset)
  BY DEF vars, Passed, Listed, Fulfils, Place, Before
<1>3. Listed(pager.filter)' = Listed(pager.filter)
  BY DEF vars, Listed, Fulfils
<1> QED
  BY <1>1, <1>2, <1>3 DEF PagerInv, PassedOnlyMoves, CountedButLate

\* Whoever reads the list of threats page by page while any number of workers ingest
\* misses, of the threats that were listed when it began, only as many as steps of
\* ingestion have moved in the list or out of it, and, when it trusts the total of its
\* last answer, as many as came between that count and the page.  For any filter, page
\* size and events; the databases' threats have publication dates.
THEOREM PagersMissOnlyMoves ==
  ASSUME IsFiniteSet(Sources),
         \A d \in Databases : \A t \in d.threats : d.columns[t].published \in Int
  PROVE  ReaderSpec => []PagesMissOnlyMoves
<1>1. ReaderInit => RecordsDated /\ PagerInv
  BY InitDated, InitPager DEF ReaderInit, HistoryInit
<1>2. [ReaderNext]_readerVars => [Next]_vars
  BY ReaderSteps
<1>3. Safe /\ RecordsDated /\ [ReaderNext]_readerVars => Safe' /\ RecordsDated'
  BY <1>2, NextSafe, StepDated
<1>4. Safe /\ RecordsDated /\ PagerInv /\ [ReaderNext]_readerVars => PagerInv'
  <2> SUFFICES ASSUME Safe, RecordsDated, PagerInv, [ReaderNext]_readerVars PROVE PagerInv'
    OBVIOUS
  <2>1. CASE Ingest
    BY <1>3, <2>1, IngestPager
  <2>2. CASE Show \/ UNCHANGED readerVars
    BY <2>2, SamePager DEF Show, readerVars, historyVars
  <2> QED
    BY <2>1, <2>2, AskPager, CountPager, ReadPagePager DEF ReaderNext
<1>5. PagerInv => PagesMissOnlyMoves
  BY DEF PagerInv
<1> QED
  BY <1>1, <1>3, <1>4, <1>5, Inductive, ReadersOnlyRead, PTL DEF ReaderSpec
=============================================================================
