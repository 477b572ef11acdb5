--------------------------- MODULE DuplicateProofs ---------------------------
(***************************************************************************)
(* How many threats one identifier may have.  Two transactions that look   *)
(* an identifier up before either commits create a threat each, and every  *)
(* worker may be among them; but a worker creates a threat only after it   *)
(* has seen none, so that those that exist and those that are about to be  *)
(* never outnumber the workers.                                            *)
(*                                                                         *)
(* This is so where events are about one CVE each: an advisory of several  *)
(* may join older threats of each, and leave all of them known by all of   *)
(* its identifiers.  The CVE is the hub of the identifiers around it.      *)
(***************************************************************************)
EXTENDS IngestServiceProofs, FiniteSetTheorems

\* c, and the identifiers that events about c name as well.
Around(c) == {c} \cup UNION {e.ids : e \in {f \in Events : c \in f.ids}}

\* Events that name an identifier around c are about c.
Hub(c) == \A e \in Events : e.ids \cap Around(c) # {} => c \in e.ids

\* So are the threats of the databases, with no more duplicates than may arise.
HubAtStart(c) ==
  \A d \in Databases :
    /\ \A t \in d.threats : \A i \in Around(c) : <<t, i>> \in d.indicators => <<t, c>> \in d.indicators
    /\ Cardinality({t \in d.threats : <<t, c>> \in d.indicators}) <= Cardinality(Workers)

About(w, c) == pc[w] # "idle" /\ c \in txn[w].event.ids

\* The workers about to create a threat of c.
Creating(c) == {w \in Workers : About(w, c) /\ txn[w].fresh}

\* Together with the threats of c there are.
Room(c) == Cardinality(KnownBy(c)) + Cardinality(Creating(c)) <= Cardinality(Workers)

\* A threat that is known by an identifier around c is known by c; a worker that
\* reuses a threat for an event about c reuses one of these.
Joined(c) == \A t \in threats : \A i \in Around(c) : <<t, i>> \in indicators => <<t, c>> \in indicators

Reusing(c) ==
  \A w \in Workers : About(w, c) /\ ~txn[w].fresh => txn[w].target \in KnownBy(c)

HubSafe(c) == Room(c) /\ Joined(c) /\ Reusing(c)
-----------------------------------------------------------------------------
\* Threats and workers can be counted.
LEMMA Countable ==
  ASSUME IsFiniteSet(Workers), TypeOK, NEW c
  PROVE  /\ IsFiniteSet(KnownBy(c)) /\ Cardinality(KnownBy(c)) \in Nat
         /\ IsFiniteSet(Creating(c)) /\ Cardinality(Creating(c)) \in Nat
         /\ Cardinality(Workers) \in Nat
<1>1. IsFiniteSet(Ids)
  BY BoundAssumption, FS_Interval DEF Ids
<1>2. KnownBy(c) \subseteq Ids /\ Creating(c) \subseteq Workers
  BY DEF KnownBy, Creating, TypeOK
<1> QED
  BY <1>1, <1>2, FS_Subset, FS_CardinalityType

LEMMA InitHub ==
  ASSUME IsFiniteSet(Workers), Init, NEW c \in Identifiers, HubAtStart(c)
  PROVE  HubSafe(c)
<1>1. PICK d \in Databases : threats = d.threats /\ indicators = d.indicators
  BY DEF Init
<1>2. \A w \in Workers : ~About(w, c)
  BY DEF Init, About
<1>3. Creating(c) = {} /\ Cardinality({}) = 0
  BY <1>2, FS_EmptySet DEF Creating
<1>4. TypeOK
  BY InitSafe DEF Safe
<1>5. Cardinality(KnownBy(c)) <= Cardinality(Workers)
  BY <1>1 DEF HubAtStart, KnownBy
<1>6. Room(c)
  <2>1. Cardinality(KnownBy(c)) \in Nat /\ Cardinality(Workers) \in Nat
    BY <1>4, Countable
  <2> QED
    BY <1>3, <1>5, <2>1 DEF Room
<1>7. Joined(c)
  BY <1>1 DEF HubAtStart, Joined
<1>8. Reusing(c)
  BY <1>2 DEF Reusing
<1> QED
  BY <1>6, <1>7, <1>8 DEF HubSafe

\* A step of w that commits nothing, and after which w is idle or goes on with the
\* threat it had.
LEMMA GoOn ==
  ASSUME IsFiniteSet(Workers), Safe, NEW c \in Identifiers, HubSafe(c), NEW w \in Workers,
         UNCHANGED Committed,
         \A v \in Workers \ {w} : txn'[v] = txn[v] /\ pc'[v] = pc[v],
         \/ pc'[w] = "idle"
         \/ /\ pc[w] # "idle" /\ txn'[w].event = txn[w].event
            /\ txn'[w].target = txn[w].target /\ txn'[w].fresh = txn[w].fresh
  PROVE  HubSafe(c)'
<1>1. ASSUME NEW v \in Workers, About(v, c)'
      PROVE  /\ About(v, c) /\ txn'[v].fresh = txn[v].fresh /\ txn'[v].target = txn[v].target
  BY <1>1 DEF About
<1>2. Creating(c)' \subseteq Creating(c) /\ KnownBy(c)' = KnownBy(c)
  BY <1>1 DEF Creating, KnownBy, Committed
<1>3. Cardinality(Creating(c)') <= Cardinality(Creating(c))
  BY <1>2, Countable, FS_Subset DEF Safe
<1>4. Room(c)'
  <2>1. Cardinality(Creating(c)') \in Nat /\ Cardinality(Creating(c)) \in Nat
        /\ Cardinality(KnownBy(c)) \in Nat /\ Cardinality(Workers) \in Nat
    BY <1>2, Countable, FS_Subset, FS_CardinalityType DEF Safe
  <2> QED
    BY <1>2, <1>3, <2>1 DEF HubSafe, Room
<1>5. Joined(c)' /\ Reusing(c)'
  BY <1>1, <1>2 DEF HubSafe, Joined, Reusing, Committed
<1> QED
  BY <1>4, <1>5 DEF HubSafe

\* A lookup creates a threat of c only when there is none; else it reuses one.
LEMMA LookupHub ==
  ASSUME IsFiniteSet(Workers), Safe, NEW c \in Identifiers, Hub(c), HubSafe(c),
         NEW w \in Workers, Lookup(w)
  PROVE  HubSafe(c)'
<1>1. PICK e \in Events, t \in Ids, fresh \in BOOLEAN :
        /\ txn' = [txn EXCEPT ![w] = Begun(e, t, fresh)]
        /\ IF fresh THEN Matches(e) = {} ELSE t \in Matches(e)
  <2>1. PICK e \in Events :
          \/ \E t \in OldestOf(Matches(e)) : txn' = [txn EXCEPT ![w] = Begun(e, t, FALSE)]
          \/ Matches(e) = {} /\ \E t \in OldestOf(Younger) : txn' = [txn EXCEPT ![w] = Begun(e, t, TRUE)]
    BY DEF Lookup
  <2>2. OldestOf(Matches(e)) \subseteq Matches(e) /\ Matches(e) \subseteq Ids
        /\ OldestOf(Younger) \subseteq Ids
    BY DEF OldestOf, Matches, Younger, Safe, TypeOK
  <2> QED
    BY <2>1, <2>2
<1>2. /\ UNCHANGED Committed /\ KnownBy(c)' = KnownBy(c)
      /\ \A v \in Workers \ {w} : txn'[v] = txn[v] /\ pc'[v] = pc[v]
      /\ txn'[w].event = e /\ txn'[w].target = t /\ txn'[w].fresh = fresh
      /\ pc'[w] # "idle"
  BY <1>1 DEF Lookup, Safe, TypeOK, Begun, KnownBy, Committed
<1>3. Reusing(c)'
  <2> SUFFICES ASSUME NEW v \in Workers, About(v, c)', ~txn'[v].fresh
               PROVE  txn'[v].target \in KnownBy(c)
    BY <1>2 DEF Reusing
  <2>1. CASE v # w
    BY <1>2, <2>1 DEF HubSafe, Reusing, About
  <2>2. CASE v = w
    <3>1. c \in e.ids /\ t \in Matches(e)
      BY <1>1, <1>2, <2>2 DEF About
    <3>2. t \in threats /\ \E i \in Around(c) : <<t, i>> \in indicators
      BY <3>1 DEF Matches, Around
    <3> QED
      BY <1>2, <2>2, <3>2 DEF HubSafe, Joined, KnownBy
  <2> QED
    BY <2>1, <2>2
<1>4. Room(c)'
  <2>1. CASE fresh /\ c \in e.ids
    <3>1. KnownBy(c)' = {} /\ Cardinality({}) = 0
      BY <1>1, <1>2, <2>1, FS_EmptySet DEF Matches, KnownBy
    <3>2. Creating(c)' \subseteq Workers
      BY DEF Creating
    <3>3. Cardinality(Creating(c)') \in Nat /\ Cardinality(Creating(c)') <= Cardinality(Workers)
      BY <3>2, FS_Subset, FS_CardinalityType
    <3> QED
      BY <3>1, <3>3 DEF Room
  <2>2. CASE ~(fresh /\ c \in e.ids)
    <3>1. Creating(c)' = Creating(c)
      BY <1>2, <2>2 DEF Creating, About, Lookup
    <3> QED
      BY <1>2, <3>1 DEF HubSafe, Room
  <2> QED
    BY <2>1, <2>2
<1>5. Joined(c)'
  BY <1>2 DEF HubSafe, Joined, Committed
<1> QED
  BY <1>3, <1>4, <1>5 DEF HubSafe

\* A commit adds a threat of c only if its worker was about to create one.
LEMMA CommitHub ==
  ASSUME IsFiniteSet(Workers), Safe, NEW c \in Identifiers, Hub(c), HubSafe(c),
         NEW w \in Workers, Commit(w)
  PROVE  HubSafe(c)'
<1> DEFINE e == txn[w].event
           t == txn[w].target
<1>1. e \in Events /\ t \in Ids /\ pc[w] # "idle"
  BY DEF Safe, TypeOK, Commit
<1>2. /\ \A v \in Workers \ {w} : txn'[v] = txn[v] /\ pc'[v] = pc[v]
      /\ pc'[w] = "idle"
      /\ threats' = threats \cup {t} /\ indicators' = indicators \cup {<<t, i>> : i \in e.ids}
  BY DEF Commit, Safe, TypeOK, IndicatorsOf
<1>3. KnownBy(c)' = IF c \in e.ids THEN KnownBy(c) \cup {t} ELSE KnownBy(c)
  BY <1>2 DEF KnownBy, Safe, TypeOK
<1>4. Creating(c)' = Creating(c) \ {w}
  BY <1>2 DEF Creating, About
<1>5. Joined(c)'
  <2> SUFFICES ASSUME NEW u \in threats', NEW i \in Around(c), <<u, i>> \in indicators'
               PROVE  <<u, c>> \in indicators'
    BY DEF Joined
  <2>1. CASE <<u, i>> \in indicators
    BY <1>2, <2>1 DEF HubSafe, Joined, Safe, TypeOK
  <2>2. CASE u = t /\ i \in e.ids
    <3>1. c \in e.ids
      BY <1>1, <2>2 DEF Hub
    <3> QED
      BY <1>2, <2>2, <3>1
  <2> QED
    BY <1>2, <2>1, <2>2
<1>6. Reusing(c)'
  BY <1>2, <1>3 DEF HubSafe, Reusing, About
<1>7. Room(c)'
  <2>0. /\ IsFiniteSet(KnownBy(c)) /\ Cardinality(KnownBy(c)) \in Nat
        /\ IsFiniteSet(Creating(c)) /\ Cardinality(Creating(c)) \in Nat
        /\ Cardinality(Workers) \in Nat
    BY Countable DEF Safe
  <2>1. Cardinality(KnownBy(c)) + Cardinality(Creating(c)) <= Cardinality(Workers)
    BY DEF HubSafe, Room
  <2>2. CASE w \in Creating(c)
    <3>1. Cardinality(Creating(c)') = Cardinality(Creating(c)) - 1
      BY <1>4, <2>0, <2>2, FS_RemoveElement
    <3>2. /\ Cardinality(KnownBy(c)') \in Nat
          /\ Cardinality(KnownBy(c)') <= Cardinality(KnownBy(c)) + 1
      <4>1. CASE c \in e.ids
        <5>1. KnownBy(c)' = KnownBy(c) \cup {t}
          BY <1>3, <4>1
        <5>2. /\ IsFiniteSet(KnownBy(c) \cup {t})
              /\ Cardinality(KnownBy(c) \cup {t}) =
                   IF t \in KnownBy(c) THEN Cardinality(KnownBy(c)) ELSE Cardinality(KnownBy(c)) + 1
          BY <2>0, FS_AddElement
        <5> QED
          BY <2>0, <5>1, <5>2
      <4>2. CASE c \notin e.ids
        BY <1>3, <2>0, <4>2
      <4> QED
        BY <4>1, <4>2
    <3> QED
      BY <2>0, <2>1, <3>1, <3>2 DEF Room
  <2>3. CASE w \notin Creating(c)
    <3>1. KnownBy(c)' = KnownBy(c) /\ Creating(c)' = Creating(c)
      BY <1>1, <1>3, <1>4, <2>3 DEF Creating, About, HubSafe, Reusing
    <3> QED
      BY <2>1, <3>1 DEF Room
  <2> QED
    BY <2>2, <2>3
<1> QED
  BY <1>5, <1>6, <1>7 DEF HubSafe

LEMMA StepHub ==
  ASSUME IsFiniteSet(Workers), Safe, NEW c \in Identifiers, Hub(c), HubSafe(c),
         [Next]_vars
  PROVE  HubSafe(c)'
<1>1. CASE UNCHANGED vars
  BY <1>1 DEF vars, HubSafe, Room, Joined, Reusing, Creating, About, KnownBy
<1>2. ASSUME NEW w \in Workers, SelectRow(w) \/ FlushRow(w) \/ Recompute(w) \/ Fail(w)
      PROVE  HubSafe(c)'
  <2>1. pc[w] # "idle" /\ UNCHANGED Committed
    BY <1>2 DEF SelectRow, FlushRow, Recompute, Fail, RollBack, Committed
  <2>2. \A v \in Workers \ {w} : txn'[v] = txn[v] /\ pc'[v] = pc[v]
    BY <1>2 DEF SelectRow, FlushRow, Recompute, Fail, RollBack, Safe, TypeOK
  <2>3. \/ pc'[w] = "idle"
        \/ /\ txn'[w].event = txn[w].event
           /\ txn'[w].target = txn[w].target /\ txn'[w].fresh = txn[w].fresh
    <3>1. CASE SelectRow(w)
      BY <3>1 DEF SelectRow, Safe, TypeOK
    <3>2. CASE Recompute(w)
      BY <3>2 DEF Recompute, Safe, TypeOK
    <3>3. CASE FlushRow(w) \/ Fail(w)
      BY <3>3 DEF FlushRow, Fail, RollBack, Safe, TypeOK
    <3> QED
      BY <1>2, <3>1, <3>2, <3>3
  <2> QED
    BY <2>1, <2>2, <2>3, GoOn
<1>3. ASSUME NEW w \in Workers, Lookup(w) \/ Commit(w) PROVE HubSafe(c)'
  BY <1>3, LookupHub, CommitHub
<1> QED
  BY <1>1, <1>2, <1>3 DEF Next
-----------------------------------------------------------------------------
HubsSafe == \A c \in Identifiers : Hub(c) /\ HubAtStart(c) => HubSafe(c)

\* No identifier ever has more threats than there are workers, when every event is
\* about one CVE (or advisory) that all the identifiers it names belong to: later
\* events find one of the duplicates, and create no more.
THEOREM DuplicatesStayBounded ==
  ASSUME IsFiniteSet(Workers),
         \A i \in Identifiers : \E c \in Identifiers : i \in Around(c) /\ Hub(c) /\ HubAtStart(c)
  PROVE  Spec => []DuplicatesBounded
<1>1. Init => HubsSafe
  BY InitHub DEF HubsSafe
<1>2. Safe /\ HubsSafe /\ [Next]_vars => HubsSafe'
  BY StepHub DEF HubsSafe, Hub, HubAtStart, Around
<1>3. Safe /\ HubsSafe => DuplicatesBounded
  <2> SUFFICES ASSUME Safe, HubsSafe, NEW i \in Identifiers
               PROVE  Cardinality(KnownBy(i)) <= Cardinality(Workers)
    BY DEF DuplicatesBounded
  <2>1. PICK c \in Identifiers : i \in Around(c) /\ HubSafe(c)
    BY DEF HubsSafe
  <2>2. KnownBy(i) \subseteq KnownBy(c)
    BY <2>1 DEF HubSafe, Joined, KnownBy
  <2>3. /\ Cardinality(KnownBy(i)) <= Cardinality(KnownBy(c))
        /\ Cardinality(KnownBy(i)) \in Nat
    BY <2>2, Countable, FS_Subset, FS_CardinalityType DEF Safe
  <2> QED
    BY <2>1, <2>3, Countable DEF Safe, HubSafe, Room
<1> QED
  BY <1>1, <1>2, <1>3, Inductive, PTL DEF Spec

\* With one worker such events are deduplicated across sources, as the documentation
\* has it (COLLECTORS.md:46): it takes a race to have two threats for an identifier.
THEOREM OneWorkerDeduplicates ==
  ASSUME NEW w, Workers = {w},
         \A i \in Identifiers : \E c \in Identifiers : i \in Around(c) /\ Hub(c) /\ HubAtStart(c)
  PROVE  Spec => []OneThreatPerIdentifier
<1>1. IsFiniteSet(Workers) /\ Cardinality(Workers) = 1
  BY FS_Singleton
<1>2. DuplicatesBounded => OneThreatPerIdentifier
  BY <1>1 DEF DuplicatesBounded, OneThreatPerIdentifier
<1> QED
  BY <1>1, <1>2, DuplicatesStayBounded, PTL
=============================================================================
