--------------------------- MODULE CatalogueProofs ---------------------------
(***************************************************************************)
(* An event is ingested as if in a single step of the Catalogue when what  *)
(* its transaction has seen still holds at the commit (Sees): the steps    *)
(* before the commit map to stutters, the commit to Ingest.  One worker    *)
(* alone always does (Alone); of several, those that have not been         *)
(* overtaken do.  What follows of the records is proved from the same      *)
(* invariants.                                                             *)
(***************************************************************************)
EXTENDS Upgrade, IngestHistory, IngestServiceProofs, CollectedProofs

\* What the Catalogue would find for e.
MatchHolds(t, e, fresh) ==
  IF fresh THEN Matches(e) = {} ELSE t \in Matches(e) /\ \A k \in Matches(e) : t <= k

\* What w has seen is what the database holds.
Sees(w) ==
  /\ pc[w] # "idle" => MatchHolds(txn[w].target, txn[w].event, txn[w].fresh)
  /\ pc[w] \in {"selected", "flushed", "computed"} => txn[w].loaded = Current(w)
  /\ pc[w] = "computed" =>
       LET t == txn[w].target
           e == txn[w].event
       IN /\ txn[w].before = IF txn[w].fresh THEN FromEvent(e) ELSE columns[t]
          /\ txn[w].computed =
               Canonical(txn[w].before, [rows[t] EXCEPT ![e.source] = InMemory(w)])

\* A lone worker's new threat is the next one.
TakesNext(w) ==
  txn[w].fresh => /\ pc[w] # "idle" /\ txn[w].target \in Ids \ threats
                  /\ \A k \in Ids \ threats : txn[w].target <= k

Alone(w) == Sees(w) /\ TakesNext(w)

\* Threats are numbered from 1 on.
NoGap == \A t \in threats : \A k \in Ids : k < t => k \in threats

NoGapAtStart == \A d \in Databases : \A t \in d.threats : \A k \in Ids : k < t => k \in d.threats

\* After its commit, or after an error, a worker has nothing to be wrong about.
LEMMA EndSees ==
  ASSUME NEW w \in Workers, Safe, Commit(w) \/ RollBack(w)
  PROVE  Sees(w)' /\ pc'[w] = "idle" /\ txn'[w] = NoTxn /\ ~txn'[w].fresh
<1>1. pc'[w] = "idle" /\ txn'[w] = NoTxn
  BY DEF Commit, RollBack, Safe, TypeOK
<1> QED
  BY <1>1 DEF Sees, NoTxn, Begun

\* The lookup sees what there is, whoever else is at work.
LEMMA LookupSees ==
  ASSUME NEW w \in Workers, Safe, Lookup(w)
  PROVE  Sees(w)'
<1>0. UNCHANGED Committed /\ pc'[w] = "found"
  BY DEF Lookup, Safe, TypeOK
<1>1. PICK e \in Events :
        \/ \E t \in OldestOf(Matches(e)) : txn' = [txn EXCEPT ![w] = Begun(e, t, FALSE)]
        \/ /\ Matches(e) = {}
           /\ \E t \in OldestOf(Younger) : txn' = [txn EXCEPT ![w] = Begun(e, t, TRUE)]
  BY DEF Lookup
<1>2. MatchHolds(txn'[w].target, txn'[w].event, txn'[w].fresh)
  BY <1>1 DEF OldestOf, MatchHolds, Begun, Safe, TypeOK
<1>3. MatchHolds(txn[w].target, txn[w].event, txn[w].fresh)'
  BY <1>0, <1>2 DEF MatchHolds, Matches, Committed
<1> QED
  BY <1>0, <1>3 DEF Sees

\* Its own steps do not change what it has seen.
LEMMA OwnStepSees ==
  ASSUME NEW w \in Workers, Safe, Sees(w),
         SelectRow(w) \/ (FlushRow(w) /\ ~RollBack(w)) \/ Recompute(w)
  PROVE  /\ Sees(w)' /\ pc[w] # "idle" /\ pc'[w] # "idle"
         /\ txn'[w].target = txn[w].target /\ txn'[w].fresh = txn[w].fresh
<1>0. UNCHANGED Committed
  BY DEF SelectRow, FlushRow, Recompute, RollBack, Committed
<1>1. ASSUME txn'[w].event = txn[w].event, txn'[w].target = txn[w].target,
             txn'[w].fresh = txn[w].fresh, pc[w] # "idle"
      PROVE  /\ MatchHolds(txn[w].target, txn[w].event, txn[w].fresh)'
             /\ Current(w)' = Current(w)
  BY <1>0, <1>1 DEF MatchHolds, Matches, Current, Committed, Sees
<1>2. CASE SelectRow(w)
  <2>1. /\ txn'[w].event = txn[w].event /\ txn'[w].target = txn[w].target
        /\ txn'[w].fresh = txn[w].fresh /\ txn'[w].loaded = Current(w)
        /\ pc[w] = "found" /\ pc'[w] = "selected"
    BY <1>2 DEF SelectRow, Safe, TypeOK
  <2> QED
    BY <1>1, <2>1 DEF Sees
<1>3. CASE FlushRow(w) /\ ~RollBack(w)
  <2>1. pc[w] = "selected" /\ pc'[w] = "flushed" /\ UNCHANGED txn
    BY <1>3 DEF FlushRow, Safe, TypeOK
  <2> QED
    BY <1>1, <2>1 DEF Sees
<1>4. CASE Recompute(w)
  <2> DEFINE t == txn[w].target
             e == txn[w].event
             before == IF txn[w].fresh THEN FromEvent(e) ELSE columns[t]
             computed == Canonical(before, [rows[t] EXCEPT ![e.source] = InMemory(w)])
  <2>1. /\ txn'[w].event = e /\ txn'[w].target = t
        /\ txn'[w].fresh = txn[w].fresh /\ txn'[w].loaded = txn[w].loaded
        /\ txn'[w].before = before /\ txn'[w].computed = computed
        /\ pc[w] = "flushed" /\ pc'[w] = "computed"
    BY <1>4 DEF Recompute, Safe, TypeOK
  <2> HIDE DEF computed
  <2>2. InMemory(w)' = InMemory(w)
    BY <2>1 DEF InMemory
  <2>3. Canonical(txn[w].before, [rows[t] EXCEPT ![e.source] = InMemory(w)])' = computed
    BY <1>0, <2>1, <2>2 DEF computed, Committed
  <2> QED
    BY <1>0, <1>1, <2>1, <2>3 DEF Sees, Committed
<1> QED
  BY <1>2, <1>3, <1>4
-----------------------------------------------------------------------------
(* A lone worker.                                                            *)

LEMMA InitAlone ==
  ASSUME Init, NEW w \in Workers, NoGapAtStart PROVE Alone(w) /\ NoGap
<1>1. Alone(w)
  BY DEF Init, Alone, Sees, TakesNext, NoTxn, Begun
<1>2. NoGap
  BY DEF Init, NoGap, NoGapAtStart
<1> QED
  BY <1>1, <1>2

LEMMA LookupAlone ==
  ASSUME NEW w \in Workers, Workers = {w}, Safe, Alone(w), NoGap, Lookup(w)
  PROVE  Alone(w)' /\ NoGap'
<1>0. UNCHANGED Committed /\ pc'[w] = "found" /\ pc[w] = "idle" /\ threats \subseteq Ids
  BY DEF Lookup, Safe, TypeOK
<1>1. PICK e \in Events :
        \/ \E t \in OldestOf(Matches(e)) : txn' = [txn EXCEPT ![w] = Begun(e, t, FALSE)]
        \/ \E t \in OldestOf(Younger) : txn' = [txn EXCEPT ![w] = Begun(e, t, TRUE)]
  BY DEF Lookup
<1>2. Used = threats
  BY <1>0 DEF Used, Alone, TakesNext
<1>3. ASSUME NEW t \in OldestOf(Younger) PROVE t \in Ids \ threats /\ \A k \in Ids \ threats : t <= k
  <2>1. t \in Ids /\ (\A u \in threats : u < t) /\ \A k \in Younger : t <= k
    BY <1>2 DEF OldestOf, Younger
  <2>2. t \notin threats
    BY <1>0, <2>1 DEF Ids
  <2>3. ASSUME NEW k \in Ids \ threats PROVE k \in Younger
    <3>1. ASSUME NEW u \in threats PROVE u < k
      <4>1. ~(k < u)
        BY DEF NoGap
      <4>2. k # u /\ k \in Int /\ u \in Int
        BY <1>0 DEF Ids
      <4> QED
        BY <4>1, <4>2
    <3> QED
      BY <1>2, <3>1 DEF Younger
  <2> QED
    BY <2>1, <2>2, <2>3
<1>4. TakesNext(w)'
  BY <1>0, <1>1, <1>3 DEF TakesNext, Begun, Safe, TypeOK, Committed
<1> QED
  BY <1>0, <1>4, LookupSees DEF Alone, NoGap, Committed

LEMMA QuietAlone ==
  ASSUME NEW w \in Workers, Safe, Alone(w), NoGap,
         SelectRow(w) \/ FlushRow(w) \/ Recompute(w) \/ RollBack(w)
  PROVE  Alone(w)' /\ NoGap'
<1>0. UNCHANGED Committed
  BY DEF SelectRow, FlushRow, Recompute, RollBack, Committed
<1>1. NoGap'
  BY <1>0 DEF NoGap, Committed
<1>2. CASE RollBack(w)
  BY <1>1, <1>2, EndSees DEF Alone, TakesNext
<1>3. CASE ~RollBack(w)
  BY <1>0, <1>1, <1>3, OwnStepSees DEF Alone, TakesNext, Committed
<1> QED
  BY <1>2, <1>3
-----------------------------------------------------------------------------
\* What a commit makes of the database when what the transaction has seen still holds.
LEMMA CommitAsSeen ==
  ASSUME NEW w \in Workers, Safe, Sees(w), Commit(w)
  PROVE  LET t == txn[w].target
             e == txn[w].event
             before == IF txn[w].fresh THEN FromEvent(e) ELSE columns[t]
         IN /\ Written(w) = [first |-> IF rows[t][e.source] = NoRow THEN e.published
                                                                  ELSE rows[t][e.source].first,
                             xid   |-> IF rows[t][e.source] = NoRow THEN e.xid
                                                                  ELSE rows[t][e.source].xid,
                             event |-> e, tags |-> e.tags]
            /\ rows'[t] = [rows[t] EXCEPT ![e.source] = Written(w)]
            /\ columns' = [columns EXCEPT ![t] = Canonical(before, rows'[t])]
<1> DEFINE t == txn[w].target
           e == txn[w].event
           before == IF txn[w].fresh THEN FromEvent(e) ELSE columns[t]
<1>0. t \in Ids /\ e \in Events /\ e.source \in Sources /\ pc[w] = "computed"
  BY EventsAssumption DEF Safe, TypeOK, Commit
<1>1. txn[w].loaded = rows[t][e.source]
  BY <1>0 DEF Sees, Current
<1>2. /\ Written(w) = [first |-> IF rows[t][e.source] = NoRow THEN e.published
                                                            ELSE rows[t][e.source].first,
                       xid   |-> IF rows[t][e.source] = NoRow THEN e.xid
                                                            ELSE rows[t][e.source].xid,
                       event |-> e, tags |-> e.tags]
      /\ Written(w) = InMemory(w)
  BY <1>1 DEF Written, InMemory, Inserted, Current
<1>3. rows'[t] = [rows[t] EXCEPT ![e.source] = Written(w)]
  BY <1>0 DEF Commit, CommitRow, Safe, TypeOK
<1>4. txn[w].before = before /\ txn[w].computed = Canonical(before, rows'[t])
  BY <1>0, <1>2, <1>3 DEF Sees
<1>5. FlushColumns(w) = txn[w].computed
  <2>1. CASE txn[w].fresh
    BY <2>1 DEF FlushColumns
  <2>2. CASE ~txn[w].fresh
    <3> DEFINE c == txn[w].computed
               b == txn[w].before
    <3>1. b = columns[t]
      BY <1>4, <2>2
    <3>2. c = [f \in DOMAIN c |-> c[f]]
      BY <1>4 DEF Canonical
    <3>3. (b.cwes \cup (c.cwes \ b.cwes)) \ (b.cwes \ c.cwes) = c.cwes
      OBVIOUS
    <3>4. FlushColumns(w) =
            [f \in DOMAIN c |->
              IF f = "cwes" THEN (b.cwes \cup (c.cwes \ b.cwes)) \ (b.cwes \ c.cwes)
              ELSE IF c[f] = b[f] THEN b[f] ELSE c[f]]
      BY <2>2, <3>1 DEF FlushColumns, Added, Removed
    <3> HIDE DEF c, b
    <3>5. FlushColumns(w) = [f \in DOMAIN c |-> c[f]]
      BY <3>3, <3>4
    <3> QED
      BY <3>2, <3>5 DEF c
  <2> QED
    BY <2>1, <2>2
<1>6. columns' = [columns EXCEPT ![t] = Canonical(before, rows'[t])]
  BY <1>4, <1>5 DEF Commit
<1> QED
  BY <1>2, <1>3, <1>6

LEMMA CommitAlone ==
  ASSUME NEW w \in Workers, Safe, Alone(w), NoGap, Commit(w)
  PROVE  Alone(w)' /\ NoGap'
<1>1. pc'[w] = "idle" /\ txn'[w] = NoTxn /\ threats' = threats \cup {txn[w].target}
  BY DEF Commit, Safe, TypeOK
<1>2. /\ MatchHolds(txn[w].target, txn[w].event, txn[w].fresh) /\ TakesNext(w)
      /\ threats \subseteq Ids
  BY DEF Commit, Alone, Sees, Safe, TypeOK
<1>3. NoGap'
  <2> SUFFICES ASSUME NEW t \in threats', NEW k \in Ids, k < t PROVE k \in threats'
    BY DEF NoGap
  <2>1. CASE t \in threats
    BY <1>1, <2>1 DEF NoGap
  <2>2. CASE t \notin threats
    <3>1. txn[w].fresh /\ t = txn[w].target
      BY <1>1, <1>2, <2>2 DEF MatchHolds, Matches
    <3>2. k \in threats \/ t <= k
      BY <1>2, <3>1 DEF TakesNext
    <3>3. t \in Int /\ k \in Int
      BY <1>2, <3>1 DEF TakesNext, Ids
    <3> QED
      BY <1>1, <3>2, <3>3
  <2> QED
    BY <2>1, <2>2
<1> QED
  BY <1>1, <1>3, EndSees DEF Alone, TakesNext

LEMMA StepAlone ==
  ASSUME NEW w \in Workers, Workers = {w}, Safe, Alone(w), NoGap, [Next]_vars
  PROVE  Alone(w)' /\ NoGap'
<1>1. CASE UNCHANGED vars
  BY <1>1 DEF vars, Alone, Sees, TakesNext, NoGap, MatchHolds, Matches, Current, InMemory
<1>2. CASE Lookup(w) \/ SelectRow(w) \/ FlushRow(w) \/ Recompute(w) \/ Commit(w) \/ Fail(w)
  BY <1>2, LookupAlone, QuietAlone, CommitAlone DEF Fail
<1> QED
  BY <1>1, <1>2 DEF Next

\* What holds of the worker in every state, be the database a new one or not.
LEMMA LoneInductive ==
  ASSUME NEW w \in Workers, Workers = {w}, NoGapAtStart
  PROVE  Spec => [](Safe /\ Alone(w) /\ NoGap)
<1>1. Init => Alone(w) /\ NoGap
  BY InitAlone
<1>2. Safe /\ Alone(w) /\ NoGap /\ [Next]_vars => (Alone(w) /\ NoGap)'
  BY StepAlone
<1> QED
  BY <1>1, <1>2, Inductive, PTL DEF Spec

\* A step that is not a commit changes nothing that others see.
LEMMA OnlyCommits ==
  ASSUME NEW w \in Workers, Workers = {w}, [Next]_vars
  PROVE  Commit(w) \/ UNCHANGED Committed
BY DEF Next, vars, Lookup, SelectRow, FlushRow, Recompute, Fail, RollBack, Committed
-----------------------------------------------------------------------------
(* The refinement.                                                           *)

\* The two modules recompute a record in the same way: both extend Canonical.
LEMMA SameRecord ==
  ASSUME NEW b, NEW r
  PROVE  /\ TheCatalogue!Canonical(b, r) = Canonical(b, r)
         /\ TheCatalogue!FromEvent(b) = FromEvent(b)
BY DEF TheCatalogue!Canonical, TheCatalogue!FromEvent, Canonical, FromEvent,
       TheCatalogue!Title, TheCatalogue!Summary, TheCatalogue!Cvss, TheCatalogue!Severity,
       TheCatalogue!SeverityUnbumped, TheCatalogue!Tags, TheCatalogue!Cwes,
       TheCatalogue!Published, TheCatalogue!Present, TheCatalogue!First,
       TheCatalogue!WithTitle, TheCatalogue!WithSummary, TheCatalogue!WithScore,
       TheCatalogue!WithSeverity,
       Title, Summary, Cvss, Severity, SeverityUnbumped, Tags, Cwes, Published, Present,
       First, WithTitle, WithSummary, WithScore, WithSeverity

LEMMA LeastIs ==
  ASSUME NEW S, S \subseteq Ids, NEW t \in S, \A k \in S : t <= k
  PROVE  TheCatalogue!Least(S) = t
<1>1. \A n \in S : (\A k \in S : n <= k) => n = t
  BY DEF Ids
<1> QED
  BY <1>1 DEF TheCatalogue!Least

LEMMA CommitInto ==
  ASSUME NEW w \in Workers, Safe, Sees(w), Commit(w)
  PROVE  LET e == txn[w].event
             t == txn[w].target
         IN TheCatalogue!IngestInto(t, e, IF txn[w].fresh THEN TheCatalogue!FromEvent(e)
                                                          ELSE columns[t])
<1> DEFINE t == txn[w].target
           e == txn[w].event
           before == IF txn[w].fresh THEN FromEvent(e) ELSE columns[t]
<1>1. rows' = [rows EXCEPT ![t][e.source] = Written(w)]
  BY DEF Commit, CommitRow
<1>2. Written(w) = TheCatalogue!Said(rows[t][e.source], e)
  BY CommitAsSeen DEF TheCatalogue!Said
<1>3. columns' = [columns EXCEPT ![t] = TheCatalogue!Canonical(before, rows'[t])]
  <2>1. columns' = [columns EXCEPT ![t] = Canonical(before, rows'[t])]
    BY CommitAsSeen
  <2>2. TheCatalogue!Canonical(before, rows'[t]) = Canonical(before, rows'[t])
    BY SameRecord
  <2> QED
    BY <2>1, <2>2
<1>4. threats' = threats \cup {t} /\ indicators' = indicators \cup {<<t, i>> : i \in e.ids}
  BY DEF Commit, IndicatorsOf
<1>5. TheCatalogue!FromEvent(e) = FromEvent(e)
  BY SameRecord
<1>6. TheCatalogue!IngestInto(t, e, before)
  BY <1>1, <1>2, <1>3, <1>4 DEF TheCatalogue!IngestInto
<1> QED
  BY <1>5, <1>6

\* An event whose identifiers match is ingested as the Catalogue says.
LEMMA CommitOld ==
  ASSUME NEW w \in Workers, Safe, Sees(w), Commit(w), ~txn[w].fresh
  PROVE  TheCatalogue!IngestOld(txn[w].event)
<1> DEFINE t == txn[w].target
           e == txn[w].event
<1>1. t \in Matches(e) /\ (\A k \in Matches(e) : t <= k) /\ Matches(e) \subseteq Ids
  BY DEF Commit, Sees, MatchHolds, Matches, Safe, TypeOK
<1>2. Matches(e) # {} /\ t = TheCatalogue!Least(Matches(e))
  BY <1>1, LeastIs
<1>3. TheCatalogue!Matches(e) = Matches(e)
  BY DEF TheCatalogue!Matches, Matches
<1>4. TheCatalogue!IngestInto(t, e, columns[t])
  BY CommitInto
<1> QED
  BY <1>2, <1>3, <1>4 DEF TheCatalogue!IngestOld

\* So is one whose identifiers match nothing.
LEMMA CommitNew ==
  ASSUME NEW w \in Workers, Safe, Sees(w), Commit(w), txn[w].fresh
  PROVE  TheCatalogue!IngestNew(txn[w].event, txn[w].target)
<1>1. Matches(txn[w].event) = {}
  BY DEF Commit, Sees, MatchHolds
<1>2. TheCatalogue!Matches(txn[w].event) = Matches(txn[w].event)
  BY DEF TheCatalogue!Matches, Matches
<1>3. TheCatalogue!IngestInto(txn[w].target, txn[w].event,
                              TheCatalogue!FromEvent(txn[w].event))
  BY CommitInto
<1> QED
  BY <1>1, <1>2, <1>3 DEF TheCatalogue!IngestNew

LEMMA CommitIngests ==
  ASSUME NEW w \in Workers, Safe, Alone(w), Commit(w)
  PROVE  TheCatalogue!Next
<1> DEFINE t == txn[w].target
           e == txn[w].event
<1>0. e \in Events /\ TheCatalogue!Ids = Ids
  BY DEF Safe, TypeOK, TheCatalogue!Ids, Ids
<1>1. CASE txn[w].fresh
  <2>1. t \in Ids \ threats /\ \A k \in Ids \ threats : t <= k
    BY <1>1 DEF Alone, TakesNext
  <2>2. Ids \ threats # {} /\ t = TheCatalogue!Least(Ids \ threats)
    BY <2>1, LeastIs
  <2>3. TheCatalogue!IngestNew(e, t)
    BY <1>1, CommitNew DEF Alone
  <2>4. TheCatalogue!Ingest(e)
    BY <1>0, <2>2, <2>3 DEF TheCatalogue!Ingest
  <2> QED
    BY <1>0, <2>4 DEF TheCatalogue!Next
<1>2. CASE ~txn[w].fresh
  BY <1>0, <1>2, CommitOld DEF Alone, TheCatalogue!Ingest, TheCatalogue!Next
<1> QED
  BY <1>1, <1>2

\* With one worker, each event is ingested as the Catalogue says, in one step, or
\* leaves no trace: for all events and all failures, from every database whose
\* threats are numbered from 1 on.
THEOREM OneWorkerImplements ==
  ASSUME NEW w \in Workers, Workers = {w}, NoGapAtStart
  PROVE  Spec => ImplementsCatalogue
<1>1. Init => TheCatalogue!Init
  BY DEF Init, TheCatalogue!Init
<1>2. Safe /\ Alone(w) /\ [Next]_vars => [TheCatalogue!Next]_(TheCatalogue!vars)
  BY OnlyCommits, CommitIngests DEF TheCatalogue!vars, Committed
<1> QED
  BY <1>1, <1>2, LoneInductive, PTL DEF Spec, ImplementsCatalogue, TheCatalogue!Spec
-----------------------------------------------------------------------------
(* What follows for the records.  The threat that a commit changes has the   *)
(* record of its rows afterwards; the others keep their rows and records.    *)

LEMMA RecordsChange ==
  ASSUME NEW w \in Workers, Workers = {w}, Safe, Alone(w), [Next]_vars, NEW t \in threats'
  PROVE  \/ t \in threats /\ rows'[t] = rows[t] /\ columns'[t] = columns[t]
         \/ \E before : columns'[t] = Canonical(before, rows'[t])
<1>1. CASE UNCHANGED Committed
  BY <1>1 DEF Committed
<1>2. CASE Commit(w)
  <2>1. /\ threats' = threats \cup {txn[w].target} /\ txn[w].target \in Ids /\ threats \subseteq Ids
        /\ DOMAIN columns = Ids
    BY <1>2 DEF Commit, Safe, TypeOK
  <2>2. CASE t = txn[w].target
    <3>1. PICK before : columns' = [columns EXCEPT ![t] = Canonical(before, rows'[t])]
      BY <1>2, <2>2, CommitAsSeen DEF Alone
    <3> QED
      BY <2>1, <2>2, <3>1
  <2>3. CASE t # txn[w].target
    <3>1. rows'[t] = rows[t] /\ columns'[t] = columns[t]
      BY <1>2, <2>1, <2>3 DEF Commit, CommitRow
    <3> QED
      BY <2>1, <2>3, <3>1
  <2> QED
    BY <2>2, <2>3
<1> QED
  BY <1>1, <1>2, OnlyCommits

\* With one worker a threat on the KEV list is critical, whatever its sources say and
\* in whatever order, provided it is at the start.
THEOREM KevStaysCritical ==
  ASSUME NEW w \in Workers, Workers = {w}, NoGapAtStart,
         \A d \in Databases : \A t \in d.threats :
           Kev \in Tags(d.rows[t]) => d.columns[t].severity = Critical
  PROVE  Spec => []KevIsCritical
<1>1. Init => KevIsCritical
  BY DEF Init, KevIsCritical
<1>2. Safe /\ Alone(w) /\ KevIsCritical /\ [Next]_vars => KevIsCritical'
  <2> SUFFICES ASSUME Safe, Alone(w), KevIsCritical, [Next]_vars,
                      NEW t \in threats', Kev \in Tags(rows'[t])
               PROVE  columns'[t].severity = Critical
    BY DEF KevIsCritical, Tags, Present
  <2>1. CASE t \in threats /\ rows'[t] = rows[t] /\ columns'[t] = columns[t]
    BY <2>1 DEF KevIsCritical
  <2>2. CASE \E before : columns'[t] = Canonical(before, rows'[t])
    BY <2>2 DEF Canonical, Severity
  <2> QED
    BY <2>1, <2>2, RecordsChange
<1> QED
  BY <1>1, <1>2, LoneInductive, PTL DEF Spec

\* With one worker, from a threat's first event on, recomputing its record from the rows
\* of its sources changes nothing of it.
THEOREM RecordsReplay ==
  ASSUME NEW w \in Workers, Workers = {w}, NoGapAtStart,
         \A d \in Databases : \A t \in d.threats :
           \/ \A s \in Present(d.rows[t]) : d.rows[t][s].event \in Migrated
           \/ Canonical(d.columns[t], d.rows[t]) = d.columns[t]
  PROVE  Spec => []Replayable
<1>1. Init => Replayable
  BY DEF Init, Replayable, Untouched
<1>2. Safe /\ Alone(w) /\ Replayable /\ [Next]_vars => Replayable'
  <2> SUFFICES ASSUME Safe, Alone(w), Replayable, [Next]_vars,
                      NEW t \in threats', ~Untouched(t)'
               PROVE  Canonical(columns'[t], rows'[t]) = columns'[t]
    BY DEF Replayable, Untouched, Present
  <2>1. CASE t \in threats /\ rows'[t] = rows[t] /\ columns'[t] = columns[t]
    BY <2>1 DEF Replayable, Untouched
  <2>2. CASE \E before : columns'[t] = Canonical(before, rows'[t])
    BY <2>2, RecomputeIdempotent
  <2> QED
    BY <2>1, <2>2, RecordsChange
<1> QED
  BY <1>1, <1>2, LoneInductive, PTL DEF Spec
-----------------------------------------------------------------------------
(* Scores.  Only NVD gives any, so the score of a record is that of NVD's    *)
(* row, or was when the row came from before the migration.                  *)

OnlyNvdScores(r) == \A s \in Sources \ {nvd} : r[s] # NoRow => r[s].event.cvss = NoScore

ScoreIsShown(c, r) ==
  c.cvss # NoScore =>
    r[nvd] # NoRow /\ (r[nvd].event \in Migrated \/ r[nvd].event.cvss = c.cvss)

Scored ==
  /\ \A t \in Ids : OnlyNvdScores(rows[t])
  /\ \A t \in threats : ScoreIsShown(columns[t], rows[t])

\* The score of a record that is computed from rows of which only NVD's has one.
LEMMA CvssIsNvds ==
  ASSUME nvd \in Sources, NEW r, OnlyNvdScores(r)
  PROVE  /\ Cvss(r) # NoScore => r[nvd] # NoRow /\ r[nvd].event.cvss = Cvss(r)
         /\ Cvss(r) = NoScore => r[nvd] = NoRow \/ r[nvd].event.cvss = NoScore
<1>1. WithScore(r) \subseteq {nvd}
  BY DEF OnlyNvdScores, WithScore, Present
<1>2. CASE WithScore(r) = {}
  BY <1>2 DEF Cvss, WithScore, Present
<1>3. CASE WithScore(r) = {nvd}
  <2>1. First({nvd}) = nvd
    BY RankAssumption DEF First
  <2> QED
    BY <1>3, <2>1 DEF Cvss, WithScore, Present
<1> QED
  BY <1>1, <1>2, <1>3

LEMMA StepScored ==
  ASSUME NEW w \in Workers, Workers = {w}, Safe, Alone(w), Scored, [Next]_vars,
         nvd \in Sources, \A e \in Events : e.source # nvd => e.cvss = NoScore
  PROVE  Scored'
<1>1. ASSUME NEW t \in Ids PROVE OnlyNvdScores(rows'[t])
  <2>1. CASE UNCHANGED Committed
    BY <2>1 DEF Scored, Committed
  <2>2. CASE Commit(w)
    <3>1. txn[w].target \in Ids /\ txn[w].event \in Events /\ Written(w).event = txn[w].event
      BY <2>2, CommitAsSeen DEF Alone, Safe, TypeOK
    <3> SUFFICES ASSUME NEW s \in Sources \ {nvd}, rows'[t][s] # NoRow
                 PROVE  rows'[t][s].event.cvss = NoScore
      BY DEF OnlyNvdScores
    <3>2. CASE t = txn[w].target /\ s = txn[w].event.source
      BY <2>2, <3>1, <3>2, CommitEffect
    <3>3. CASE t # txn[w].target \/ s # txn[w].event.source
      BY <2>2, <3>3, CommitEffect DEF Scored, OnlyNvdScores
    <3> QED
      BY <3>2, <3>3
  <2> QED
    BY <2>1, <2>2, OnlyCommits
<1>2. ASSUME NEW t \in threats' PROVE ScoreIsShown(columns'[t], rows'[t])
  <2>1. CASE t \in threats /\ rows'[t] = rows[t] /\ columns'[t] = columns[t]
    BY <2>1 DEF Scored
  <2>2. CASE \E before : columns'[t] = Canonical(before, rows'[t])
    <3>1. columns'[t].cvss = Cvss(rows'[t])
      BY <2>2 DEF Canonical
    <3>2. t \in Ids
      BY NextSafe DEF Safe, TypeOK
    <3> QED
      BY <1>1, <3>1, <3>2, CvssIsNvds DEF ScoreIsShown
  <2> QED
    BY <2>1, <2>2, RecordsChange
<1> QED
  BY <1>1, <1>2 DEF Scored

\* With one worker a threat loses its score only when NVD's row of it changes, or has
\* come from before the migration and shows no score: an event of another source,
\* which recomputes the record as well, does not take it away.
THEOREM OnlyNvdTakesScores ==
  ASSUME NEW w \in Workers, Workers = {w}, NoGapAtStart,
         nvd \in Sources, \A e \in Events : e.source # nvd => e.cvss = NoScore,
         \A d \in Databases : /\ \A t \in Ids : OnlyNvdScores(d.rows[t])
                              /\ \A t \in d.threats : ScoreIsShown(d.columns[t], d.rows[t])
  PROVE  Spec => ScoresAreNvds
<1>1. Init => Scored
  BY DEF Init, Scored
<1>2. Safe /\ Alone(w) /\ Scored /\ [Next]_vars => Scored'
  BY StepScored
<1>3. Safe /\ Alone(w) /\ Scored /\ [Next]_vars =>
        [\A t \in threats :
           columns[t].cvss # NoScore /\ columns'[t].cvss = NoScore =>
             \/ rows'[t][nvd] # rows[t][nvd]
             \/ rows[t][nvd] # NoRow /\ rows[t][nvd].event \in Migrated]_vars
  <2> SUFFICES ASSUME Safe, Alone(w), Scored, [Next]_vars, NEW t \in threats,
                      columns[t].cvss # NoScore, columns'[t].cvss = NoScore,
                      rows'[t][nvd] = rows[t][nvd]
               PROVE  rows[t][nvd] # NoRow /\ rows[t][nvd].event \in Migrated
    OBVIOUS
  <2>1. t \in threats' /\ t \in Ids
    BY OnlyCommits DEF Commit, Committed, Safe, TypeOK
  <2>2. PICK before : columns'[t] = Canonical(before, rows'[t])
    BY <2>1, RecordsChange
  <2>3. Cvss(rows'[t]) = NoScore
    BY <2>2 DEF Canonical
  <2>4. OnlyNvdScores(rows'[t])
    BY <1>2, <2>1 DEF Scored
  <2>5. rows'[t][nvd] = NoRow \/ rows'[t][nvd].event.cvss = NoScore
    BY <2>3, <2>4, CvssIsNvds
  <2>6. ScoreIsShown(columns[t], rows[t])
    BY DEF Scored
  <2> QED
    BY <2>5, <2>6 DEF ScoreIsShown
<1> QED
  BY <1>1, <1>2, <1>3, LoneInductive, PTL DEF Spec, ScoresAreNvds
-----------------------------------------------------------------------------
(* However many workers.  A new threat's number is reserved for the worker   *)
(* that inserts it, and a worker that no other has overtaken has seen what   *)
(* the database holds.                                                       *)

Reserved ==
  /\ \A w \in Workers : txn[w].fresh => pc[w] # "idle" /\ txn[w].target \in Ids \ threats
  /\ \A w \in Workers : pc[w] # "idle" /\ ~txn[w].fresh => txn[w].target \in threats
  /\ \A v, w \in Workers :
       v # w /\ txn[v].fresh /\ txn[w].fresh => txn[v].target # txn[w].target

HistoryInv == Reserved /\ \A w \in Workers : w \notin overtaken => Sees(w)

\* What a worker's step leaves alone.
LEMMA OnlyItself ==
  ASSUME NEW v \in Workers, NEW w \in Workers \ {v}, Safe,
         Lookup(v) \/ SelectRow(v) \/ FlushRow(v) \/ Recompute(v) \/ Commit(v) \/ Fail(v)
  PROVE  pc'[w] = pc[w] /\ txn'[w] = txn[w]
BY DEF Lookup, SelectRow, FlushRow, Recompute, Commit, Fail, RollBack, Safe, TypeOK

LEMMA LookupReserves ==
  ASSUME NEW w \in Workers, Safe, Reserved, Lookup(w)
  PROVE  Reserved'
<1>1. /\ UNCHANGED threats /\ pc'[w] = "found" /\ threats \subseteq Ids
      /\ \A v \in Workers \ {w} : pc'[v] = pc[v] /\ txn'[v] = txn[v]
  BY OnlyItself DEF Lookup, Committed, Safe, TypeOK
<1>2. PICK e \in Events :
        \/ \E t \in OldestOf(Matches(e)) : txn' = [txn EXCEPT ![w] = Begun(e, t, FALSE)]
        \/ \E t \in OldestOf(Younger) : txn' = [txn EXCEPT ![w] = Begun(e, t, TRUE)]
  BY DEF Lookup
<1>3. CASE \E t \in OldestOf(Matches(e)) : txn' = [txn EXCEPT ![w] = Begun(e, t, FALSE)]
  <2>1. txn'[w].target \in threats /\ ~txn'[w].fresh
    BY <1>3 DEF OldestOf, Matches, Begun, Safe, TypeOK
  <2> QED
    BY <1>1, <2>1 DEF Reserved
<1>4. CASE \E t \in OldestOf(Younger) : txn' = [txn EXCEPT ![w] = Begun(e, t, TRUE)]
  <2>1. /\ txn'[w].fresh /\ txn'[w].target \in Ids
        /\ \A u \in Used : u < txn'[w].target
    BY <1>4 DEF OldestOf, Younger, Begun, Safe, TypeOK
  <2>2. threats \subseteq Used /\ \A v \in Workers : txn[v].fresh => txn[v].target \in Used
    BY DEF Used
  <2>3. txn'[w].target \notin Used
    BY <2>1 DEF Ids
  <2> QED
    BY <1>1, <2>1, <2>2, <2>3 DEF Reserved
<1> QED
  BY <1>2, <1>3, <1>4

LEMMA CommitReserves ==
  ASSUME NEW w \in Workers, Safe, Reserved, Commit(w)
  PROVE  Reserved'
<1>1. /\ threats' = threats \cup {txn[w].target} /\ pc[w] = "computed"
      /\ pc'[w] = "idle" /\ ~txn'[w].fresh
      /\ \A v \in Workers \ {w} : pc'[v] = pc[v] /\ txn'[v] = txn[v]
  BY OnlyItself, EndSees DEF Commit
<1>2. ASSUME NEW v \in Workers \ {w}, txn[v].fresh PROVE txn[v].target # txn[w].target
  BY <1>1, <1>2 DEF Reserved
<1> QED
  BY <1>1, <1>2 DEF Reserved

LEMMA StepReserves ==
  ASSUME Safe, Reserved, [Next]_vars
  PROVE  Reserved'
<1>1. CASE UNCHANGED vars
  BY <1>1 DEF vars, Reserved
<1>2. ASSUME NEW w \in Workers, RollBack(w) PROVE Reserved'
  <2>1. /\ UNCHANGED threats /\ pc'[w] = "idle" /\ ~txn'[w].fresh
        /\ \A v \in Workers \ {w} : pc'[v] = pc[v] /\ txn'[v] = txn[v]
    BY <1>2, EndSees DEF RollBack, Committed, Safe, TypeOK
  <2> QED
    BY <2>1 DEF Reserved
<1>3. ASSUME NEW w \in Workers, SelectRow(w) \/ (FlushRow(w) /\ ~RollBack(w)) \/ Recompute(w)
      PROVE  Reserved'
  <2>1. /\ UNCHANGED threats /\ pc[w] # "idle" /\ pc'[w] # "idle"
        /\ txn'[w].target = txn[w].target /\ txn'[w].fresh = txn[w].fresh
        /\ \A v \in Workers \ {w} : pc'[v] = pc[v] /\ txn'[v] = txn[v]
    BY <1>3 DEF SelectRow, FlushRow, Recompute, RollBack, Committed, Safe, TypeOK
  <2> QED
    BY <2>1 DEF Reserved
<1> QED
  BY <1>1, <1>2, <1>3, LookupReserves, CommitReserves DEF Next, Fail

\* Another worker's commit does not change what w has seen when it does not concern w.
LEMMA OthersCommit ==
  ASSUME NEW v \in Workers, NEW w \in Workers \ {v}, Safe, Sees(w),
         Commit(v), ~Concerns(v, w)
  PROVE  Sees(w)'
<1> DEFINE t == txn[w].target
           e == txn[w].event
<1>1. pc'[w] = pc[w] /\ txn'[w] = txn[w]
  BY OnlyItself
<1>2. txn[v].target # t /\ txn[v].event.ids \cap e.ids = {}
  BY DEF Concerns
<1>3. Matches(e)' = Matches(e)
  <2>1. /\ threats' = threats \cup {txn[v].target}
        /\ indicators' = indicators \cup {<<txn[v].target, i>> : i \in txn[v].event.ids}
        /\ indicators \subseteq threats \X Identifiers
    BY DEF Commit, IndicatorsOf, Safe, TypeOK
  <2>2. ASSUME NEW k, NEW i \in e.ids PROVE <<k, i>> \in indicators' <=> <<k, i>> \in indicators
    BY <1>2, <2>1
  <2>3. ASSUME NEW k \in threats' PROVE (\E i \in e.ids : <<k, i>> \in indicators) => k \in threats
    BY <2>1
  <2>4. \A k : k \in threats => k \in threats'
    BY <2>1
  <2>5. {k \in threats' : \E i \in e.ids : <<k, i>> \in indicators'} =
        {k \in threats : \E i \in e.ids : <<k, i>> \in indicators}
    BY <2>2, <2>3, <2>4
  <2> QED
    BY <1>1, <2>5 DEF Matches
<1>4. rows'[t] = rows[t] /\ columns'[t] = columns[t]
  BY <1>2 DEF Commit, CommitRow, Safe, TypeOK
<1>5. MatchHolds(t, e, txn[w].fresh)' <=> MatchHolds(t, e, txn[w].fresh)
  BY <1>1, <1>3 DEF MatchHolds
<1>6. Current(w)' = Current(w) /\ InMemory(w)' = InMemory(w)
  BY <1>1, <1>4 DEF Current, InMemory
<1> QED
  BY <1>1, <1>4, <1>5, <1>6 DEF Sees

LEMMA OthersQuiet ==
  ASSUME NEW v \in Workers, NEW w \in Workers \ {v}, Safe, Sees(w), UNCHANGED Committed,
         pc'[w] = pc[w], txn'[w] = txn[w]
  PROVE  Sees(w)'
<1>1. /\ MatchHolds(txn[w].target, txn[w].event, txn[w].fresh)' <=>
           MatchHolds(txn[w].target, txn[w].event, txn[w].fresh)
      /\ Current(w)' = Current(w) /\ InMemory(w)' = InMemory(w)
  BY DEF MatchHolds, Matches, Current, InMemory, Committed
<1> QED
  BY <1>1 DEF Sees, Committed

LEMMA StepHistory ==
  ASSUME Safe, HistoryInv, [HistoryNext]_historyVars
  PROVE  HistoryInv'
<1>1. CASE UNCHANGED historyVars
  <2>1. UNCHANGED <<Committed, pc, txn, overtaken>>
    BY <1>1 DEF historyVars, vars, Committed
  <2>2. ASSUME NEW w \in Workers PROVE Sees(w)' <=> Sees(w)
    <3>1. /\ MatchHolds(txn[w].target, txn[w].event, txn[w].fresh)' <=>
               MatchHolds(txn[w].target, txn[w].event, txn[w].fresh)
          /\ Current(w)' = Current(w) /\ InMemory(w)' = InMemory(w)
      BY <2>1 DEF MatchHolds, Matches, Current, InMemory, Committed
    <3> QED
      BY <2>1, <3>1 DEF Sees, Committed
  <2>3. Reserved'
    BY <2>1 DEF HistoryInv, Reserved, Committed
  <2> QED
    BY <2>1, <2>2, <2>3 DEF HistoryInv
<1>2. CASE HistoryNext
  <2>1. Reserved'
    BY <1>2, StepReserves DEF HistoryNext, HistoryInv
  <2> SUFFICES ASSUME NEW w \in Workers, w \notin overtaken' PROVE Sees(w)'
    BY <2>1 DEF HistoryInv
  <2>2. CASE pc'[w] = "idle"
    BY <2>2 DEF Sees
  <2>3. CASE pc'[w] # "idle"
    <3>1. PICK v \in Workers : \/ Lookup(v) \/ SelectRow(v) \/ FlushRow(v) \/ Recompute(v)
                               \/ Commit(v) \/ Fail(v)
      BY <1>2 DEF HistoryNext, Next
    <3>2. w \notin overtaken /\ \A u \in Workers : ~Overtakes(u, w)
      BY <1>2, <2>3 DEF HistoryNext
    <3>3. Sees(w)
      BY <3>2 DEF HistoryInv
    <3>4. CASE v = w
      BY <3>1, <3>3, <3>4, LookupSees, OwnStepSees, EndSees DEF Fail
    <3>5. CASE v # w
      <4>1. pc'[w] = pc[w] /\ txn'[w] = txn[w]
        BY <3>1, <3>5, OnlyItself
      <4>2. CASE Commit(v)
        BY <2>3, <3>2, <3>3, <3>5, <4>1, <4>2, OthersCommit DEF Overtakes
      <4>3. CASE ~Commit(v)
        <5>1. UNCHANGED Committed
          BY <3>1, <4>3 DEF Lookup, SelectRow, FlushRow, Recompute, Fail, RollBack, Committed
        <5> QED
          BY <3>3, <3>5, <4>1, <5>1, OthersQuiet
      <4> QED
        BY <4>2, <4>3
    <3> QED
      BY <3>4, <3>5
  <2> QED
    BY <2>2, <2>3
<1> QED
  BY <1>1, <1>2

LEMMA HistoryInductive == HistorySpec => [](Safe /\ HistoryInv)
<1>1. HistoryInit => Init /\ HistoryInv
  BY DEF HistoryInit, Init, HistoryInv, Reserved, Sees, NoTxn, Begun
<1>2. [HistoryNext]_historyVars => [Next]_vars
  BY DEF HistoryNext, historyVars
<1>3. Safe /\ HistoryInv /\ [HistoryNext]_historyVars => HistoryInv'
  BY StepHistory
<1> QED
  BY <1>1, <1>2, <1>3, Inductive, PTL DEF Spec, HistorySpec

\* However many workers ingest whatever events, one that no other has overtaken
\* ingests its event as if in a single step of the Catalogue, at its commit.
THEOREM UnovertakenIngests == HistorySpec => UnovertakenIsAtomic
<1>1. Safe /\ HistoryInv /\ [HistoryNext]_historyVars =>
        [\A w \in Workers : Commit(w) /\ w \notin overtaken =>
                              TheCatalogue!IngestAnyAge(txn[w].event)]_historyVars
  <2> SUFFICES ASSUME Safe, HistoryInv, NEW w \in Workers, Commit(w), w \notin overtaken
               PROVE  TheCatalogue!IngestAnyAge(txn[w].event)
    OBVIOUS
  <2>1. Sees(w)
    BY DEF HistoryInv
  <2>2. CASE txn[w].fresh
    <3>1. txn[w].target \in TheCatalogue!Ids \ threats
      BY <2>2 DEF HistoryInv, Reserved, TheCatalogue!Ids, Ids
    <3> QED
      BY <2>1, <2>2, <3>1, CommitNew DEF TheCatalogue!IngestAnyAge
  <2>3. CASE ~txn[w].fresh
    BY <2>1, <2>3, CommitOld DEF TheCatalogue!IngestAnyAge
  <2> QED
    BY <2>2, <2>3
<1> QED
  BY <1>1, HistoryInductive, PTL DEF HistorySpec, UnovertakenIsAtomic

\* The commit of a worker that no other has overtaken leaves its threat with a record
\* that is computed again from the rows of its sources, and stays the same: whatever
\* an earlier race has done to the record is undone.
THEOREM UnovertakenRepairs ==
  HistorySpec =>
    [][\A w \in Workers : Commit(w) /\ w \notin overtaken =>
         LET t == txn[w].target IN Canonical(columns'[t], rows'[t]) = columns'[t]]_historyVars
<1>1. Safe /\ HistoryInv /\ [HistoryNext]_historyVars =>
        [\A w \in Workers : Commit(w) /\ w \notin overtaken =>
           LET t == txn[w].target IN Canonical(columns'[t], rows'[t]) = columns'[t]]_historyVars
  <2> SUFFICES ASSUME Safe, HistoryInv, NEW w \in Workers, Commit(w), w \notin overtaken
               PROVE  LET t == txn[w].target IN Canonical(columns'[t], rows'[t]) = columns'[t]
    OBVIOUS
  <2> DEFINE t == txn[w].target
  <2>1. Sees(w) /\ t \in DOMAIN columns
    BY DEF HistoryInv, Safe, TypeOK
  <2>2. PICK before : columns' = [columns EXCEPT ![t] = Canonical(before, rows'[t])]
    BY <2>1, CommitAsSeen
  <2>3. columns'[t] = Canonical(before, rows'[t])
    BY <2>1, <2>2
  <2> QED
    BY <2>3, RecomputeIdempotent
<1> QED
  BY <1>1, HistoryInductive, PTL DEF HistorySpec

\* Every duplicate comes of a race: a worker that no other has overtaken inserts a new
\* threat only when no threat is known by any of the event's identifiers.
THEOREM DuplicatesAreRaces ==
  HistorySpec =>
    [][\A w \in Workers : Commit(w) /\ w \notin overtaken /\ txn[w].fresh =>
         \A i \in txn[w].event.ids : KnownBy(i) = {}]_historyVars
<1>1. Safe /\ HistoryInv /\ [HistoryNext]_historyVars =>
        [\A w \in Workers : Commit(w) /\ w \notin overtaken /\ txn[w].fresh =>
           \A i \in txn[w].event.ids : KnownBy(i) = {}]_historyVars
  BY DEF HistoryInv, Sees, MatchHolds, Matches, KnownBy, Commit
<1> QED
  BY <1>1, HistoryInductive, PTL DEF HistorySpec
=============================================================================
