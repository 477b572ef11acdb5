----------------------------- MODULE FeedProofs -----------------------------
(***************************************************************************)
(* Proofs about Feed, for any entries, runs, page size and bounds.  The    *)
(* argument behind ChangesAheadOfRunsAreKept is the invariant Kept: every  *)
(* run in flight has met the change, or is going to: in an offset feed     *)
(* entries only enter a window, so that the place of one in it only grows, *)
(* and in a cursor feed nothing is moved once it is published.             *)
(***************************************************************************)
EXTENDS Feed, FiniteSetTheorems, WellFoundedInduction, TLAPS

LEMMA LeastNatural ==
  ASSUME NEW S \in SUBSET Nat, S # {}
  PROVE  \E n \in S : \A m \in S : n <= m
<1>1. PICK n \in S : \A m \in S : ~(<<m, n>> \in OpToRel(<, Nat))
  BY WFMin, NatLessThanWellFounded
<1>2. \A m \in S : ~(m < n)
  BY <1>1 DEF OpToRel
<1> QED
  BY <1>2

\* The order of a feed is total.
LEMMA FeedOrder ==
  ASSUME TypeOK, NEW e \in Entries, NEW f \in Entries, NEW g \in Entries
  PROVE  /\ ~Before(e, e)
         /\ Before(e, f) /\ Before(f, g) => Before(e, g)
         /\ e # f => Before(e, f) \/ Before(f, e)
BY FeedAssumption DEF TypeOK, Before, Never

LEMMA PlaceIsNat ==
  ASSUME TypeOK, NEW S \in SUBSET Entries, NEW e \in S
  PROVE  /\ Place(e, S) \in Nat /\ Cardinality(S) \in Nat
         /\ Place(e, S) < Cardinality(S)
<1> DEFINE P == {f \in S : Before(f, e)}
<1>1. IsFiniteSet(S) /\ Cardinality(S) \in Nat
  BY FeedAssumption, FS_Subset, FS_CardinalityType
<1>2. P \in SUBSET S /\ e \notin P
  BY FeedOrder
<1>3. IsFiniteSet(P) /\ Cardinality(P) <= Cardinality(S) /\ Cardinality(P) # Cardinality(S)
  BY <1>1, <1>2, FS_Subset
<1>4. Cardinality(P) \in Nat
  BY <1>3, FS_CardinalityType
<1> QED
  BY <1>1, <1>3, <1>4 DEF Place

LEMMA PlaceGrows ==
  ASSUME TypeOK, NEW S \in SUBSET Entries, NEW e \in S, NEW f \in S, Before(e, f)
  PROVE  Place(e, S) < Place(f, S)
<1> DEFINE P == {g \in S : Before(g, e)}
           Q == {g \in S : Before(g, f)}
<1>1. P \in SUBSET Q /\ e \in Q /\ e \notin P
  BY FeedOrder
<1>2. IsFiniteSet(Q)
  BY FeedAssumption, FS_Subset
<1>3. Cardinality(P) <= Cardinality(Q) /\ Cardinality(P) # Cardinality(Q)
  BY <1>1, <1>2, FS_Subset
<1>4. Place(e, S) \in Nat /\ Place(f, S) \in Nat
  BY PlaceIsNat
<1> QED
  BY <1>3, <1>4 DEF Place

\* No two entries have one place.
LEMMA PlaceIsUnique ==
  ASSUME TypeOK, NEW S \in SUBSET Entries, NEW e \in S, NEW f \in S, Place(e, S) = Place(f, S)
  PROVE  e = f
BY FeedOrder, PlaceGrows, PlaceIsNat

\* A page has PageSize entries at most.
LEMMA PageIsBounded ==
  ASSUME TypeOK, NEW S \in SUBSET Entries, NEW offset \in Nat
  PROVE  /\ Cardinality(PageOf(S, offset)) \in Nat
         /\ Cardinality(PageOf(S, offset)) <= PageSize
<1> DEFINE P == PageOf(S, offset)
           I == offset .. offset + PageSize - 1
           place == [e \in P |-> Place(e, S)]
<1>1. P \in SUBSET S /\ \A e \in P : Place(e, S) \in I
  BY DEF PageOf
<1>2. place \in Injection(P, I)
  BY <1>1, PlaceIsUnique DEF Injection, IsInjective
<1>3. IsFiniteSet(I) /\ Cardinality(I) = PageSize
  BY FS_Interval, FeedAssumption
<1>4. IsFiniteSet(P) /\ Cardinality(P) <= PageSize
  BY <1>2, <1>3, FS_Injection
<1> QED
  BY <1>4, FS_CardinalityType

\* A page is not empty if there is anything at its offset or after it.
LEMMA PageIsNotEmpty ==
  ASSUME TypeOK, NEW S \in SUBSET Entries, NEW offset \in Nat,
         NEW e \in S, offset <= Place(e, S)
  PROVE  PageOf(S, offset) # {}
<1> DEFINE L == {f \in S : offset <= Place(f, S)}
           N == {Place(f, S) : f \in L}
<1>1. N \in SUBSET Nat /\ N # {}
  BY PlaceIsNat
<1>2. PICK m \in L : \A f \in L : Place(m, S) <= Place(f, S)
  <2>1. PICK n \in N : \A k \in N : n <= k
    BY <1>1, LeastNatural
  <2> QED
    BY <2>1
<1> DEFINE P == {f \in S : Before(f, m)}
           I == 0 .. offset - 1
           place == [f \in P |-> Place(f, S)]
<1>3. ASSUME NEW f \in P PROVE Place(f, S) \in I
  <2>1. Place(f, S) < Place(m, S) /\ Place(f, S) \in Nat /\ Place(m, S) \in Nat
    BY PlaceGrows, PlaceIsNat
  <2> QED
    BY <1>2, <2>1
<1>4. place \in Injection(P, I)
  BY <1>3, PlaceIsUnique DEF Injection, IsInjective
<1>5. IsFiniteSet(I) /\ Cardinality(I) = offset
  <2>1. 0 \in Int /\ offset - 1 \in Int
    OBVIOUS
  <2>2. IsFiniteSet(I) /\ Cardinality(I) = IF 0 > offset - 1 THEN 0 ELSE offset - 1 - 0 + 1
    BY <2>1, FS_Interval
  <2> QED
    BY <2>2
<1>6. Cardinality(P) <= offset
  BY <1>4, <1>5, FS_Injection
<1>7. Place(m, S) = offset
  BY <1>2, <1>6, PlaceIsNat DEF Place
<1> QED
  BY <1>2, <1>7, FeedAssumption DEF PageOf
-----------------------------------------------------------------------------
LEMMA WindowOfEntries ==
  ASSUME TypeOK, NEW r \in Runs, NEW since
  PROVE  /\ InWindow(since) \in SUBSET Entries
         /\ AfterCursor(r) \in SUBSET Entries
         /\ Page(r) \in SUBSET Entries
<1>1. InWindow(since) \in SUBSET Entries /\ InWindow(run[r].since) \in SUBSET Entries
  BY DEF InWindow, Published
<1>2. AfterCursor(r) \in SUBSET Entries
  BY <1>1 DEF AfterCursor
<1>3. CASE kind = "dump"
  BY <1>1, <1>2, <1>3 DEF Page, Published
<1>4. CASE kind = "offset"
  BY <1>1, <1>2, <1>4 DEF Page, PageOf
<1>5. CASE kind = "cursor"
  BY <1>1, <1>2, <1>5 DEF Page, PageOf
<1> QED
  BY <1>3, <1>4, <1>5 DEF TypeOK, Kinds

LEMMA ReturnedIsBounded ==
  ASSUME TypeOK, NEW r \in Runs, kind = "offset", NEW returned \in Returned(r)
  PROVE  returned \in Nat /\ returned <= PageSize
<1>1. Page(r) = PageOf(InWindow(run[r].since), run[r].position)
  BY DEF Page
<1>2. run[r].position \in Nat /\ InWindow(run[r].since) \in SUBSET Entries
  BY WindowOfEntries DEF TypeOK
<1>3. Cardinality(Page(r)) \in Nat /\ Cardinality(Page(r)) <= PageSize
  BY <1>1, <1>2, PageIsBounded
<1> QED
  BY <1>3, FeedAssumption DEF Returned

LEMMA NextIsPosition ==
  ASSUME TypeOK, NEW r \in Runs, NEW returned \in Returned(r), ~LastPage(r, returned),
         NEW position \in NextPosition(r, returned)
  PROVE  position \in Nat
<1>1. CASE kind = "cursor"
  BY <1>1, WindowOfEntries, FeedAssumption DEF NextPosition
<1>2. CASE kind = "offset"
  BY <1>2, ReturnedIsBounded DEF NextPosition, TypeOK
<1>3. CASE kind = "dump"
  BY <1>3 DEF LastPage
<1> QED
  BY <1>1, <1>2, <1>3 DEF TypeOK, Kinds

\* What a run may be, as a set.
RunType == [at : {"idle", "asking", "fetched"}, since : Int, position : Nat, attempt : 1 .. Attempts]

LEMMA RunOfType ==
  ASSUME TypeOK, NEW r \in Runs, NEW new \in RunType, Become(r, new)
  PROVE  /\ DOMAIN run' = Runs
         /\ \A q \in Runs : /\ run'[q].at \in {"idle", "asking", "fetched"}
                            /\ run'[q].since \in Int /\ run'[q].position \in Nat
                            /\ run'[q].attempt \in 1 .. Attempts
BY DEF TypeOK, Become, RunType

LEMMA StepTypeOK ==
  ASSUME TypeOK, [Next]_vars
  PROVE  TypeOK'
<1>1. CASE Tick
  BY <1>1, FeedAssumption DEF Tick, TypeOK, counts, Published
<1>2. ASSUME NEW e \in Entries, Change(e) PROVE TypeOK'
  BY <1>2 DEF Change, TypeOK, Published, Never
<1>3. ASSUME NEW r \in Runs, StartRun(r) PROVE TypeOK'
  <2>1. Run("asking", Since, 0, 1) \in RunType
    BY FeedAssumption DEF Run, RunType, Since, TypeOK, Never
  <2> QED
    BY <1>3, <2>1, RunOfType DEF StartRun, TypeOK, Published
<1>4. ASSUME NEW r \in Runs, HandOnPage(r) PROVE TypeOK'
  <2>1. PICK failing \in SUBSET Page(r) :
          /\ handed' = [e \in Entries |->
                         IF e \in Page(r) \ failing THEN changed[e] ELSE handed[e]]
          /\ failed' = [failed EXCEPT ![r] = @ \cup failing]
    BY <1>4 DEF HandOnPage
  <2>2. handed' \in [Entries -> Nat \cup {Never}] /\ failed' \in [Runs -> SUBSET Entries]
    BY <2>1, WindowOfEntries DEF TypeOK
  <2>3. PICK new \in RunType : Become(r, new)
    <3>1. PICK returned \in Returned(r) :
            IF LastPage(r, returned)
            THEN Become(r, Run("fetched", run[r].since, 0, 1))
            ELSE \E position \in NextPosition(r, returned) :
                   Become(r, Run("asking", run[r].since, position, 1))
      BY <1>4 DEF HandOnPage
    <3>2. CASE LastPage(r, returned)
      BY <3>1, <3>2, FeedAssumption DEF Run, RunType, TypeOK
    <3>3. CASE ~LastPage(r, returned)
      <4>1. PICK position \in NextPosition(r, returned) :
              Become(r, Run("asking", run[r].since, position, 1))
        BY <3>1, <3>3
      <4>2. position \in Nat
        BY <3>3, NextIsPosition
      <4> QED
        BY <4>1, <4>2, FeedAssumption DEF Run, RunType, TypeOK
    <3> QED
      BY <3>2, <3>3
  <2> QED
    BY <1>4, <2>2, <2>3, RunOfType DEF HandOnPage, TypeOK, Published
<1>5. ASSUME NEW r \in Runs, EmptyPage(r) PROVE TypeOK'
  <2>1. Run("fetched", run[r].since, 0, 1) \in RunType
    BY FeedAssumption DEF Run, RunType, TypeOK
  <2> QED
    BY <1>5, <2>1, RunOfType, FeedAssumption DEF EmptyPage, TypeOK, Published, counts
<1>6. ASSUME NEW r \in Runs, Retry(r) PROVE TypeOK'
  <2>1. Run("asking", run[r].since, run[r].position, run[r].attempt + 1) \in RunType
    BY <1>6, FeedAssumption DEF Run, RunType, TypeOK, Retry
  <2> QED
    BY <1>6, <2>1, RunOfType DEF Retry, TypeOK, Published, counts
<1>7. NoRun \in RunType
  BY FeedAssumption DEF NoRun, Run, RunType
<1>8. ASSUME NEW r \in Runs, Succeed(r) PROVE TypeOK'
  BY <1>7, <1>8, RunOfType DEF Succeed, TypeOK, Published
<1>9. ASSUME NEW r \in Runs, Raise(r) PROVE TypeOK'
  BY <1>7, <1>9, RunOfType DEF Raise, TypeOK, Published
<1>10. CASE UNCHANGED vars
  BY <1>10 DEF vars, TypeOK, Published
<1> QED
  BY <1>1, <1>2, <1>3, <1>4, <1>5, <1>6, <1>8, <1>9, <1>10 DEF Next

LEMMA InitTypeOK == Init => TypeOK
BY FeedAssumption DEF Init, TypeOK, NoRun, Run, Kinds, Never, Published

\* Every variable of the feed and of the runs keeps its type.
THEOREM TypeCorrect == Spec => []TypeOK
BY InitTypeOK, StepTypeOK, PTL DEF Spec
-----------------------------------------------------------------------------
\* The row of no run tells of the change of e, but its window has it, and every
\* run in flight has met it, or will.
Due(e) ==
  /\ lastSuccess <= changed[e]
  /\ \A r \in Runs : run[r].at # "idle" =>
       /\ run[r].since <= changed[e]
       /\ e \in failed[r] \/ Ahead(r, e)

Kept ==
  glitches = 0 => \A e \in ahead : handed[e] = changed[e] \/ e \in reported \/ Due(e)

\* Nothing is in the future, no change counts as ahead before the first success, and a
\* cursor is an entry of the feed.
Timely ==
  /\ lastSuccess <= now
  /\ \A e \in Entries : changed[e] <= now
  /\ \A r \in Runs : run[r].since <= now
  /\ ahead # {} => lastSuccess # Never
  /\ kind = "cursor" => \A r \in Runs : run[r].position = 0 \/ run[r].position \in Published

IInv == TypeOK /\ Timely /\ Kept

LEMMA StepTimely ==
  ASSUME TypeOK, Timely, [Next]_vars
  PROVE  Timely'
<1> USE DEF TypeOK, Timely, Published, Become, Run
<1>1. CASE Tick
  <2>1. now' = now + 1 /\ UNCHANGED <<kind, changed, ahead, lastSuccess, run>>
    BY <1>1 DEF Tick
  <2>2. /\ lastSuccess <= now' /\ \A e \in Entries : changed[e] <= now'
        /\ \A r \in Runs : run[r].since <= now'
    BY <2>1 DEF Never
  <2> QED
    BY <2>1, <2>2
<1>2. ASSUME NEW e \in Entries, Change(e) PROVE Timely'
  BY <1>2, FeedAssumption DEF Change, Never
<1>3. ASSUME NEW r \in Runs, StartRun(r) PROVE Timely'
  <2>1. Since <= now
    BY FeedAssumption DEF Since, Never
  <2>2. \A q \in Runs : run'[q].since <= now
    BY <1>3, <2>1 DEF StartRun
  <2> QED
    BY <1>3, <2>2 DEF StartRun
<1>4. ASSUME NEW r \in Runs, HandOnPage(r) PROVE Timely'
  <2>1. PICK returned \in Returned(r) :
          IF LastPage(r, returned)
          THEN Become(r, Run("fetched", run[r].since, 0, 1))
          ELSE \E position \in NextPosition(r, returned) :
                 Become(r, Run("asking", run[r].since, position, 1))
    BY <1>4 DEF HandOnPage
  <2>2. kind = "cursor" => NextPosition(r, returned) \subseteq Published
    BY DEF NextPosition, Page, PageOf, AfterCursor, InWindow
  <2>3. kind = "cursor" =>
          \A q \in Runs : run'[q].position = 0 \/ run'[q].position \in Published
    <3>1. CASE LastPage(r, returned)
      BY <2>1, <3>1
    <3>2. CASE ~LastPage(r, returned)
      BY <2>1, <2>2, <3>2
    <3> QED
      BY <3>1, <3>2
  <2>4. UNCHANGED <<kind, now, changed, ahead, lastSuccess>>
    BY <1>4 DEF HandOnPage
  <2>5. kind' = "cursor" =>
          \A q \in Runs : run'[q].position = 0 \/ run'[q].position \in Published'
    BY <2>3, <2>4
  <2>6. \A q \in Runs : run'[q].since = run[q].since
    BY <2>1
  <2> QED
    BY <2>4, <2>5, <2>6
<1>5. ASSUME NEW r \in Runs, EmptyPage(r) PROVE Timely'
  BY <1>5 DEF EmptyPage, counts
<1>6. ASSUME NEW r \in Runs, Retry(r) PROVE Timely'
  BY <1>6 DEF Retry, counts
<1>7. ASSUME NEW r \in Runs, Succeed(r) PROVE Timely'
  BY <1>7 DEF Succeed, NoRun, Never
<1>8. ASSUME NEW r \in Runs, Raise(r) PROVE Timely'
  BY <1>8 DEF Raise, NoRun
<1>9. CASE UNCHANGED vars
  BY <1>9 DEF vars
<1> QED
  BY <1>1, <1>2, <1>3, <1>4, <1>5, <1>6, <1>7, <1>8, <1>9 DEF Next

\* Other entries only enter a window, and stay where they are in a cursor feed.
LEMMA KeptByChange ==
  ASSUME IInv, NEW c \in Entries, Change(c)
  PROVE  Kept'
<1> SUFFICES ASSUME glitches' = 0, NEW e \in ahead'
             PROVE  handed'[e] = changed'[e] \/ e \in reported' \/ Due(e)'
  BY DEF Kept
<1> USE DEF IInv, TypeOK
<1>1. UNCHANGED <<kind, now, handed, lastSuccess, run, glitches>>
  BY DEF Change
<1>2. e \in Entries
  BY DEF Change, Published
<1>3. CASE e = c
  <2>1. AheadOfRuns(c)' /\ changed'[c] = now
    BY <1>3 DEF Change
  <2>2. \A r \in Runs : run'[r].at = "idle" \/ Ahead(r, c)'
    BY <2>1 DEF AheadOfRuns
  <2>3. lastSuccess <= now /\ \A r \in Runs : run[r].since <= now
    BY DEF Timely
  <2> QED
    BY <1>1, <1>3, <2>1, <2>2, <2>3 DEF Due
<1>4. CASE e # c
  <2>1. e \in ahead /\ changed'[e] = changed[e] /\ (e \in reported => e \in reported')
    BY <1>2, <1>4 DEF Change
  <2>2. ASSUME Due(e) PROVE Due(e)'
    <3>1. ASSUME NEW r \in Runs, run[r].at # "idle"
          PROVE  run[r].since <= changed[e] /\ (e \in failed'[r] \/ Ahead(r, e)')
      <4>1. run[r].since <= changed[e] /\ (e \in failed[r] \/ Ahead(r, e))
        BY <2>2, <3>1 DEF Due
      <4>2. CASE e \in failed[r]
        BY <1>4, <4>1, <4>2 DEF Change
      <4>3. CASE Ahead(r, e) /\ kind = "cursor"
        <5>1. run[r].position = 0 \/ (run[r].position \in Entries /\ run[r].position # c)
          BY <4>3 DEF Timely, Published, Change
        <5>2. run[r].position # 0 => Before(run[r].position, e)'
          BY <1>1, <1>2, <1>4, <4>3, <5>1 DEF Ahead, Before, Change
        <5> QED
          BY <1>1, <4>1, <4>3, <5>2 DEF Ahead
      <4>4. CASE Ahead(r, e) /\ kind = "offset"
        <5> DEFINE W == InWindow(run[r].since)
                   P == {f \in W : Before(f, e)}
                   Q == {f \in W' : Before(f, e)'}
        <5>1. \A f \in Entries : /\ changed[f] <= changed'[f] /\ changed'[f] \in Int
                                 /\ changed[f] # Never => changed'[f] # Never
          BY DEF Change, Timely, Never
        <5>2. W = {f \in Entries : changed[f] # Never /\ run[r].since <= changed[f]}
          BY DEF InWindow, Published
        <5>3. W' = {f \in Entries : changed'[f] # Never /\ run[r].since <= changed'[f]}
          BY <1>1 DEF InWindow, Published
        <5>4. run[r].since \in Int /\ \A f \in Entries : changed[f] \in Int
          BY DEF Never
        <5>5. W \in SUBSET W' /\ W' \in SUBSET Entries
          BY <5>2, <5>3, <5>4, <5>1
        <5>6. P \in SUBSET Q /\ Q \in SUBSET Entries
          BY <1>1, <4>4, <5>5 DEF Before
        <5>7. IsFiniteSet(Q) /\ IsFiniteSet(P) /\ Cardinality(P) <= Cardinality(Q)
          BY <5>6, FeedAssumption, FS_Subset
        <5>8. Cardinality(P) \in Nat /\ Cardinality(Q) \in Nat
          BY <5>7, FS_CardinalityType
        <5>9. run[r].position <= Cardinality(P)
          BY <4>4 DEF Ahead, Place
        <5>10. Place(e, InWindow(run[r].since))' = Cardinality(Q)
          BY <1>1 DEF Place
        <5> QED
          BY <1>1, <4>1, <4>4, <5>7, <5>8, <5>9, <5>10 DEF Ahead
      <4>5. CASE Ahead(r, e) /\ kind = "dump"
        BY <1>1, <4>1, <4>5 DEF Ahead
      <4> QED
        BY <4>1, <4>2, <4>3, <4>4, <4>5 DEF Kinds
    <3> QED
      BY <1>1, <2>1, <2>2, <3>1 DEF Due
  <2> QED
    BY <1>1, <2>1, <2>2 DEF Kept
<1> QED
  BY <1>3, <1>4

\* The window of a new run begins at the last success.
LEMMA KeptByStart ==
  ASSUME IInv, NEW r \in Runs, StartRun(r)
  PROVE  Kept'
<1> SUFFICES ASSUME glitches' = 0, NEW e \in ahead'
             PROVE  handed'[e] = changed'[e] \/ e \in reported' \/ Due(e)'
  BY DEF Kept
<1> USE DEF IInv, TypeOK
<1>1. UNCHANGED <<kind, now, changed, ahead, handed, reported, lastSuccess, glitches>>
  BY DEF StartRun
<1>2. e \in Entries /\ changed[e] # Never
  BY <1>1 DEF Published
<1>3. run' = [run EXCEPT ![r] = [at |-> "asking", since |-> lastSuccess, position |-> 0, attempt |-> 1]]
  BY <1>1 DEF StartRun, Become, Run, Since, Timely
<1>4. ASSUME Due(e) PROVE Due(e)'
  <2>1. ASSUME NEW q \in Runs, run'[q].at # "idle"
        PROVE  run'[q].since <= changed[e] /\ (e \in failed'[q] \/ Ahead(q, e)')
    <3>1. CASE q # r
      <4>1. run'[q] = run[q] /\ failed'[q] = failed[q]
        BY <1>3, <3>1 DEF StartRun
      <4>2. Ahead(q, e)' <=> Ahead(q, e)
        BY <1>1, <4>1 DEF Ahead, Place, InWindow, Published, Before
      <4> QED
        BY <1>4, <2>1, <4>1, <4>2 DEF Due
    <3>2. CASE q = r
      <4>1. run'[q].at = "asking" /\ run'[q].since = lastSuccess /\ run'[q].position = 0
        BY <1>3, <3>2
      <4>2. e \in InWindow(lastSuccess)
        BY <1>2, <1>4 DEF Due, InWindow, Published
      <4>3. InWindow(lastSuccess) \in SUBSET Entries
        BY DEF InWindow, Published
      <4>4. 0 <= Place(e, InWindow(lastSuccess))
        <5>1. Place(e, InWindow(lastSuccess)) \in Nat
          BY <4>2, <4>3, PlaceIsNat
        <5> QED
          BY <5>1
      <4>5. Place(e, InWindow(run[q].since))' = Place(e, InWindow(lastSuccess))
        BY <1>1, <4>1 DEF Place, InWindow, Published, Before
      <4> QED
        BY <1>1, <1>4, <4>1, <4>4, <4>5 DEF Ahead, Due
    <3> QED
      BY <3>1, <3>2
  <2> QED
    BY <1>1, <1>4, <2>1 DEF Due
<1> QED
  BY <1>1, <1>4 DEF Kept

\* An offset feed's page leaves nothing behind between its offset and the next one,
\* and nothing after it if it is the last.
LEMMA OffsetPage ==
  ASSUME TypeOK, kind = "offset", NEW r \in Runs, NEW returned \in Returned(r),
         NEW e \in InWindow(run[r].since),
         run[r].position <= Place(e, InWindow(run[r].since)), e \notin Page(r)
  PROVE  /\ ~LastPage(r, returned)
         /\ \A p \in NextPosition(r, returned) : p <= Place(e, InWindow(run[r].since))
<1> DEFINE W == InWindow(run[r].since)
           o == run[r].position
<1>1. W \in SUBSET Entries /\ o \in Nat
  BY WindowOfEntries DEF TypeOK
<1>2. returned \in Nat /\ returned <= PageSize /\ PageSize \in Nat \ {0}
  BY ReturnedIsBounded, FeedAssumption
<1>3. Page(r) = PageOf(W, o)
  BY DEF Page
<1>4. /\ Place(e, W) \in Nat /\ Cardinality(W) \in Nat
      /\ Place(e, W) < Cardinality(W)
  BY <1>1, PlaceIsNat
<1>5. o + PageSize <= Place(e, W)
  BY <1>1, <1>2, <1>3, <1>4 DEF PageOf
<1>6. o + returned <= Place(e, W) /\ ~(o + returned >= Cardinality(W))
  BY <1>1, <1>2, <1>4, <1>5
<1>7. Page(r) # {}
  BY <1>1, <1>3, PageIsNotEmpty
<1>8. Cardinality(Page(r)) # 0
  BY <1>1, <1>3, <1>7, WindowOfEntries, FeedAssumption, FS_Subset, FS_EmptySet
<1>9. returned > 0
  BY <1>2, <1>8 DEF Returned
<1> QED
  BY <1>2, <1>6, <1>7, <1>9 DEF LastPage, NextPosition

\* What a cursor feed's page leaves behind comes after the next cursor.
LEMMA CursorPage ==
  ASSUME TypeOK, kind = "cursor", NEW r \in Runs, NEW returned \in Returned(r),
         NEW e \in AfterCursor(r), e \notin Page(r)
  PROVE  /\ ~LastPage(r, returned)
         /\ \A p \in NextPosition(r, returned) : Before(p, e)
<1> DEFINE A == AfterCursor(r)
<1>1. A \in SUBSET Entries /\ PageSize \in Nat \ {0}
  BY WindowOfEntries, FeedAssumption
<1>2. Page(r) = PageOf(A, 0)
  BY DEF Page
<1>3. /\ Place(e, A) \in Nat /\ Cardinality(A) \in Nat
      /\ Place(e, A) < Cardinality(A)
  BY <1>1, PlaceIsNat
<1>4. PageSize <= Place(e, A)
  BY <1>1, <1>2, <1>3 DEF PageOf
<1>5. ~LastPage(r, returned)
  BY <1>1, <1>3, <1>4 DEF LastPage, Exhausted
<1>6. ASSUME NEW p \in NextPosition(r, returned) PROVE Before(p, e)
  <2>1. p \in Page(r)
    BY <1>6 DEF NextPosition
  <2>2. p \in A /\ Place(p, A) < PageSize /\ Place(p, A) \in Nat
    BY <1>1, <1>2, <2>1, PlaceIsNat DEF PageOf
  <2>3. ~(Place(e, A) < Place(p, A)) /\ e # p
    BY <1>1, <1>3, <1>4, <2>2
  <2>4. ~Before(e, p)
    BY <1>1, <2>2, <2>3, PlaceGrows
  <2> QED
    BY <1>1, <2>2, <2>3, <2>4, FeedOrder
<1> QED
  BY <1>5, <1>6

LEMMA KeptByPage ==
  ASSUME IInv, NEW r \in Runs, HandOnPage(r)
  PROVE  Kept'
<1> SUFFICES ASSUME glitches' = 0, NEW e \in ahead'
             PROVE  handed'[e] = changed'[e] \/ e \in reported' \/ Due(e)'
  BY DEF Kept
<1>1. UNCHANGED <<kind, now, changed, ahead, reported, lastSuccess, glitches>>
  BY DEF HandOnPage
<1>2. TypeOK /\ Kept
  BY DEF IInv
<1>3. e \in Entries /\ changed[e] # Never /\ e \in Published
  BY <1>1, <1>2 DEF Published, TypeOK
<1>4. PICK failing \in SUBSET Page(r) :
        /\ handed' = [d \in Entries |-> IF d \in Page(r) \ failing THEN changed[d] ELSE handed[d]]
        /\ failed' = [failed EXCEPT ![r] = @ \cup failing]
  BY DEF HandOnPage
<1>5. CASE e \in Page(r) \ failing
  BY <1>1, <1>3, <1>4, <1>5
<1>6. CASE e \notin Page(r) \ failing
  <2>1. handed'[e] = handed[e]
    BY <1>3, <1>4, <1>6
  <2>2. ASSUME Due(e) PROVE Due(e)'
    <3>1. ASSUME NEW q \in Runs, run'[q].at # "idle"
          PROVE  run'[q].since <= changed[e] /\ (e \in failed'[q] \/ Ahead(q, e)')
      <4>1. CASE q # r
        <5>1. run'[q] = run[q] /\ failed'[q] = failed[q]
          BY <1>2, <1>4, <4>1 DEF HandOnPage, Become, TypeOK
        <5>2. Ahead(q, e)' <=> Ahead(q, e)
          BY <1>1, <5>1 DEF Ahead, Place, InWindow, Published, Before
        <5> QED
          BY <2>2, <3>1, <5>1, <5>2 DEF Due
      <4>2. CASE q = r
        <5>1. PICK returned \in Returned(r) :
                IF LastPage(r, returned)
                THEN Become(r, Run("fetched", run[r].since, 0, 1))
                ELSE \E position \in NextPosition(r, returned) :
                       Become(r, Run("asking", run[r].since, position, 1))
          BY DEF HandOnPage
        <5>2. run'[r].since = run[r].since /\ run[r].at = "asking" /\ run[r].since <= changed[e]
          BY <1>2, <2>2, <5>1 DEF HandOnPage, Become, Run, TypeOK, Due
        <5>3. failed'[r] = failed[r] \cup failing
          BY <1>2, <1>4 DEF TypeOK
        <5>4. CASE e \in failed[r] \/ e \in failing
          BY <4>2, <5>2, <5>3, <5>4
        <5>5. CASE e \notin failed[r] /\ e \notin failing
          <6>1. e \notin Page(r) /\ Ahead(r, e)
            BY <1>6, <2>2, <5>2, <5>5 DEF Due
          <6>2. e \in InWindow(run[r].since)
            BY <1>3, <5>2 DEF InWindow
          <6>3. kind # "dump"
            BY <1>3, <6>1 DEF Page
          <6>4. /\ ~LastPage(r, returned)
                /\ \A p \in NextPosition(r, returned) :
                     /\ kind = "offset" => p <= Place(e, InWindow(run[r].since))
                     /\ kind = "cursor" => Before(p, e)
            <7>1. CASE kind = "offset"
              BY <1>2, <6>1, <6>2, <7>1, OffsetPage DEF Ahead
            <7>2. CASE kind = "cursor"
              <8>1. e \in AfterCursor(r)
                BY <6>1, <6>2, <7>2 DEF AfterCursor, Ahead
              <8> QED
                BY <1>2, <6>1, <7>2, <8>1, CursorPage
            <7> QED
              BY <1>2, <6>3, <7>1, <7>2 DEF TypeOK, Kinds
          <6>5. PICK p \in NextPosition(r, returned) :
                  run'[r] = [at |-> "asking", since |-> run[r].since, position |-> p, attempt |-> 1]
            BY <1>2, <5>1, <6>4 DEF Become, Run, TypeOK
          <6>6. kind = "offset" => p <= Place(e, InWindow(run[r].since))
            BY <6>4
          <6>7. kind = "cursor" => Before(p, e)
            BY <6>4
          <6>8. Place(e, InWindow(run[r].since))' = Place(e, InWindow(run[r].since))
            BY <1>1, <6>5 DEF Place, InWindow, Published, Before
          <6>9. kind = "cursor" => Before(p, e)'
            BY <1>1, <6>7 DEF Before
          <6>10. Ahead(r, e)'
            BY <1>1, <6>5, <6>6, <6>8, <6>9 DEF Ahead, Before
          <6> QED
            BY <4>2, <5>2, <6>10
        <5> QED
          BY <5>4, <5>5
      <4> QED
        BY <4>1, <4>2
    <3> QED
      BY <1>1, <2>2, <3>1 DEF Due
  <2> QED
    BY <1>1, <1>2, <2>1, <2>2 DEF Kept
<1> QED
  BY <1>5, <1>6

\* Runs of which e is not told differently, and that are where they were, or idle.
LEMMA KeptOtherwise ==
  ASSUME IInv, UNCHANGED <<kind, changed, ahead, handed>>,
         glitches' = glitches, reported \subseteq reported',
         \A r \in Runs : \/ run'[r].at = "idle"
                         \/ /\ failed'[r] = failed[r] /\ run'[r].at = run[r].at
                            /\ run'[r].since = run[r].since
                            /\ run'[r].position = run[r].position,
         \A e \in ahead : Due(e) => lastSuccess' <= changed[e] \/ e \in reported'
  PROVE  Kept'
<1> SUFFICES ASSUME glitches' = 0, NEW e \in ahead'
             PROVE  handed'[e] = changed'[e] \/ e \in reported' \/ Due(e)'
  BY DEF Kept
<1>1. ASSUME Due(e), e \notin reported', NEW r \in Runs, run'[r].at # "idle"
      PROVE  run'[r].since <= changed[e] /\ (e \in failed'[r] \/ Ahead(r, e)')
  <2>1. /\ failed'[r] = failed[r] /\ run'[r].at = run[r].at
        /\ run'[r].since = run[r].since /\ run'[r].position = run[r].position
    BY <1>1
  <2>2. Ahead(r, e)' <=> Ahead(r, e)
    BY <2>1 DEF Ahead, Place, InWindow, Published, Before
  <2> QED
    BY <1>1, <2>1, <2>2 DEF Due
<1>2. ASSUME Due(e), e \notin reported' PROVE Due(e)'
  BY <1>1, <1>2 DEF Due
<1> QED
  BY <1>2 DEF IInv, Kept

LEMMA StepKept ==
  ASSUME IInv, [Next]_vars
  PROVE  Kept'
<1> USE DEF Due
<1>1. CASE Tick
  BY <1>1, KeptOtherwise DEF Tick, counts
<1>2. ASSUME NEW r \in Runs, EmptyPage(r) PROVE Kept'
  BY <1>2 DEF EmptyPage, Kept, IInv, TypeOK
<1>3. ASSUME NEW r \in Runs, Retry(r) PROVE Kept'
  BY <1>3, KeptOtherwise DEF Retry, counts, Become, Run, IInv, TypeOK
<1>4. ASSUME NEW r \in Runs, Succeed(r) PROVE Kept'
  <2>1. run' = [run EXCEPT ![r] = NoRun] /\ failed' = [failed EXCEPT ![r] = {}]
    BY <1>4 DEF Succeed, Become
  <2>2. \A q \in Runs : run'[q].at = "idle" \/ (run'[q] = run[q] /\ failed'[q] = failed[q])
    BY <2>1 DEF NoRun, Run, IInv, TypeOK
  <2>3. \A e \in ahead : Due(e) => e \in reported'
    BY <1>4 DEF Succeed, Ahead
  <2> QED
    BY <1>4, <2>2, <2>3, KeptOtherwise DEF Succeed
<1>5. ASSUME NEW r \in Runs, Raise(r) PROVE Kept'
  <2>1. run' = [run EXCEPT ![r] = NoRun] /\ failed' = [failed EXCEPT ![r] = {}]
    BY <1>5 DEF Raise, Become
  <2>2. \A q \in Runs : run'[q].at = "idle" \/ (run'[q] = run[q] /\ failed'[q] = failed[q])
    BY <2>1 DEF NoRun, Run, IInv, TypeOK
  <2> QED
    BY <1>5, <2>2, KeptOtherwise DEF Raise
<1>6. CASE UNCHANGED vars
  BY <1>6, KeptOtherwise DEF vars
<1> QED
  BY <1>1, <1>2, <1>3, <1>4, <1>5, <1>6, KeptByChange, KeptByStart, KeptByPage DEF Next

LEMMA InitIInv == Init => IInv
BY InitTypeOK, FeedAssumption DEF Init, IInv, Timely, Kept, NoRun, Run, Never

\* The invariant behind ChangesAreKept.
THEOREM Inductive == Spec => []IInv
<1>1. IInv /\ [Next]_vars => IInv'
  BY StepTypeOK, StepTimely, StepKept DEF IInv
<1> QED
  BY <1>1, InitIInv, PTL DEF Spec

\* No change that comes ahead of the runs in flight is dropped in silence, whatever the
\* feed and the size of its pages, with any number of runs, failures and retries.
THEOREM ChangesAreKept == Spec => []ChangesAheadOfRunsAreKept
<1>1. IInv => ChangesAheadOfRunsAreKept
  BY DEF IInv, Kept, Due, ChangesAheadOfRunsAreKept
<1> QED
  BY <1>1, Inductive, PTL

\* What FetchAdvances says of run r.
RunAdvances(r) ==
  LET old == run[r]
      new == run'[r]
  IN old.at = "asking" /\ new.at = "asking" /\ new # old =>
       \/ new.position = old.position /\ new.attempt > old.attempt
       \/ kind = "offset" /\ new.position > old.position
       \/ kind = "cursor" /\ (old.position = 0 \/ Before(old.position, new.position))

LEMMA StepAdvances ==
  ASSUME TypeOK, [Next]_vars, NEW q \in Runs
  PROVE  RunAdvances(q)
<1>1. CASE run'[q] = run[q]
  BY <1>1 DEF RunAdvances
<1>2. ASSUME NEW r \in Runs, HandOnPage(r), run'[q] # run[q] PROVE RunAdvances(q)
  <2>1. PICK returned \in Returned(r) :
          IF LastPage(r, returned)
          THEN Become(r, Run("fetched", run[r].since, 0, 1))
          ELSE \E position \in NextPosition(r, returned) :
                 Become(r, Run("asking", run[r].since, position, 1))
    BY <1>2 DEF HandOnPage
  <2>2. q = r
    BY <1>2, <2>1 DEF Become, TypeOK
  <2>3. CASE LastPage(r, returned)
    BY <2>1, <2>2, <2>3 DEF Become, Run, RunAdvances, TypeOK
  <2>4. CASE ~LastPage(r, returned)
    <3>1. PICK p \in NextPosition(r, returned) :
            run'[r] = [at |-> "asking", since |-> run[r].since, position |-> p, attempt |-> 1]
      BY <2>1, <2>4 DEF Become, Run, TypeOK
    <3>2. CASE kind = "offset"
      <4>1. returned > 0 /\ returned \in Nat
        BY <2>4, <3>2, ReturnedIsBounded DEF LastPage
      <4>2. p = run[r].position + returned
        BY <3>2 DEF NextPosition
      <4> QED
        BY <2>2, <3>1, <3>2, <4>1, <4>2 DEF RunAdvances, TypeOK
    <3>3. CASE kind = "cursor"
      <4>1. p \in AfterCursor(r)
        BY <3>3 DEF NextPosition, Page, PageOf
      <4>2. run[r].position = 0 \/ Before(run[r].position, p)
        BY <4>1 DEF AfterCursor
      <4> QED
        BY <2>2, <3>1, <3>3, <4>2 DEF RunAdvances
    <3> QED
      BY <2>4, <3>2, <3>3 DEF LastPage, TypeOK, Kinds
  <2> QED
    BY <2>3, <2>4
<1>3. ASSUME NEW r \in Runs, Retry(r), run'[q] # run[q] PROVE RunAdvances(q)
  BY <1>3 DEF Retry, Become, Run, RunAdvances, TypeOK
<1>4. ASSUME NEW r \in Runs, StartRun(r) \/ EmptyPage(r) \/ Succeed(r) \/ Raise(r),
             run'[q] # run[q]
      PROVE  RunAdvances(q)
  BY <1>4 DEF StartRun, EmptyPage, Succeed, Raise, Become, Run, NoRun, RunAdvances, TypeOK
<1>5. ASSUME Tick \/ (\E e \in Entries : Change(e)) \/ UNCHANGED vars PROVE run'[q] = run[q]
  BY <1>5 DEF Tick, Change, vars
<1> QED
  BY <1>1, <1>2, <1>3, <1>4, <1>5 DEF Next

\* No fetch goes round in circles, whatever the feed and the size of its pages.
THEOREM FetchesAdvance == Spec => FetchAdvances
<1>1. TypeOK /\ [Next]_vars => [\A r \in Runs : RunAdvances(r)]_vars
  BY StepAdvances
<1>2. Spec => [][\A r \in Runs : RunAdvances(r)]_vars
  BY <1>1, TypeCorrect, PTL DEF Spec
<1> QED
  BY <1>2 DEF FetchAdvances, RunAdvances
=============================================================================
