-------------------------------- MODULE Feed --------------------------------
(***************************************************************************)
(* A source's feed, its collector (collectors/) and the window its runs    *)
(* ask for (services/ingestion.py).  A run asks for what has changed since *)
(* the last successful one and passes page after page on to ingestion,     *)
(* while the feed goes on changing.  There are three kinds of feed:        *)
(*   offset  NVD: pages by offset into what has changed in the window      *)
(*   cursor  GitHub: pages after a cursor, in the order of publication     *)
(*   dump    CISA KEV: everything, in one response                         *)
(*                                                                         *)
(* An entry is represented by the time of the change it is selected by:    *)
(* its modification in an offset feed, its publication in a cursor feed.   *)
(* The feeds are external: they order their entries by a number that a     *)
(* modification leaves alone (offset) or by publication (cursor), and a    *)
(* window includes both of its ends.  What becomes of an entry that is     *)
(* handed on is IngestService's.                                           *)
(***************************************************************************)
EXTENDS Integers, FiniteSets

CONSTANTS
  Entries,     \* numbers of the entries a feed may have, in the feed's order
  Runs,        \* runs of the source that may be in flight at once
  PageSize,    \* entries on a page (2000 for NVD, 50 for GitHub)
  Attempts,    \* requests for one page (4 in the code)
  Lookback,    \* how far back the first run looks (24 hours)
  MaxTime,     \* bound on time
  MaxGlitches  \* bound on pages that are empty although they should not be

ASSUME FeedAssumption ==
  /\ Entries \subseteq Nat \ {0} /\ IsFiniteSet(Entries)
  /\ PageSize \in Nat \ {0} /\ Attempts \in Nat \ {0}
  /\ Lookback \in Nat /\ MaxTime \in Nat /\ MaxGlitches \in Nat

VARIABLES
  kind,         \* of the feed
  now,
  changed,      \* when each entry was published or last modified
  ahead,        \* the entries whose last change came ahead of every run, see Change
  handed,       \* the change of each entry that ingestion was last given and took
  failed,       \* the entries whose last change each run has counted as failed
  reported,     \* those of them that are in events_failed of a finished run's row
  lastSuccess,  \* source.last_success_at
  run,          \* where each run is, and its local variables
  glitches

vars == <<kind, now, changed, ahead, handed, failed, reported, lastSuccess, run, glitches>>

counts == <<failed, reported>>

Never == -1

Kinds == {"offset", "cursor", "dump"}

\* asking: its next request is to be sent; position is the offset or the cursor,
\* 0 at first.  fetched: the feed is exhausted, the run is not yet recorded.
Run(at, since, position, attempt) ==
  [at |-> at, since |-> since, position |-> position, attempt |-> attempt]

NoRun == Run("idle", 0, 0, 1)

Init ==
  /\ kind \in Kinds
  /\ now = 0
  /\ changed = [e \in Entries |-> Never]
  /\ ahead = {}
  /\ handed = [e \in Entries |-> Never]
  /\ failed = [r \in Runs |-> {}]
  /\ reported = {}
  /\ lastSuccess = Never
  /\ run = [r \in Runs |-> NoRun]
  /\ glitches = 0

Become(r, new) == run' = [run EXCEPT ![r] = new]
-----------------------------------------------------------------------------
(* The feed.                                                               *)

Tick ==
  /\ now < MaxTime
  /\ now' = now + 1
  /\ UNCHANGED <<kind, changed, ahead, handed, counts, lastSuccess, run, glitches>>

Published == {e \in Entries : changed[e] # Never}

InWindow(since) == {e \in Published : since <= changed[e]}

\* The order in which a feed lists its entries.
Before(e, f) ==
  IF kind = "cursor" THEN changed[e] < changed[f] \/ (changed[e] = changed[f] /\ e < f)
                     ELSE e < f

Place(e, S) == Cardinality({f \in S : Before(f, e)})

\* The page of S that begins at an offset.
PageOf(S, offset) == {e \in S : Place(e, S) \in offset .. offset + PageSize - 1}
-----------------------------------------------------------------------------
\* Run r has not come to entry e yet: no page that it has asked for had its place.
Ahead(r, e) ==
  /\ run[r].at = "asking"
  /\ kind = "offset" => run[r].position <= Place(e, InWindow(run[r].since))
  /\ kind = "cursor" /\ run[r].position # 0 => Before(run[r].position, e)

\* Between two runs, or where every run in flight is still to come to.
AheadOfRuns(e) == \A r \in Runs : run[r].at = "idle" \/ Ahead(r, e)

\* An entry is published, or modified, which a cursor feed does not tell.  Before the
\* first success none counts as ahead: Lookback may not reach back to it later.
Change(e) ==
  /\ changed[e] < now /\ (kind = "cursor" => changed[e] = Never)
  /\ changed' = [changed EXCEPT ![e] = now]
  /\ failed' = [r \in Runs |-> failed[r] \ {e}]
  /\ reported' = reported \ {e}
  /\ UNCHANGED <<kind, now, handed, lastSuccess, run, glitches>>
  /\ ahead' = IF AheadOfRuns(e)' /\ lastSuccess # Never THEN ahead \cup {e} ELSE ahead \ {e}
-----------------------------------------------------------------------------
(* A run.                                                                  *)

Since == IF lastSuccess = Never THEN now - Lookback ELSE lastSuccess

StartRun(r) ==
  /\ run[r].at = "idle"
  /\ Become(r, Run("asking", Since, 0, 1))
  /\ failed' = [failed EXCEPT ![r] = {}]
  /\ UNCHANGED <<kind, now, changed, ahead, handed, reported, lastSuccess, glitches>>

\* The entries of the window after the one that run r's cursor stands for.
AfterCursor(r) ==
  {e \in InWindow(run[r].since) : run[r].position # 0 => Before(run[r].position, e)}

Page(r) ==
  CASE kind = "dump"   -> Published
    [] kind = "offset" -> PageOf(InWindow(run[r].since), run[r].position)
    [] kind = "cursor" -> PageOf(AfterCursor(r), 0)

\* A feed says how many results are on a page, or how many would fit.
Returned(r) == {Cardinality(Page(r)), PageSize}

SamePosition(r, returned) == {run[r].position}

\* The position after the page: the offset, or the last entry on the page.
NextPosition(r, returned) ==
  IF kind = "cursor" THEN {e \in Page(r) : \A f \in Page(r) : ~Before(e, f)}
                     ELSE {run[r].position + returned}

Exhausted(r) == Cardinality(AfterCursor(r)) <= PageSize

LastPage(r, returned) ==
  CASE kind = "dump" -> TRUE
    [] kind = "offset" ->
         \/ Page(r) = {} \/ returned <= 0
         \/ run[r].position + returned >= Cardinality(InWindow(run[r].since))
    [] kind = "cursor" -> Exhausted(r)

\* A page, as the feed is now, goes on to ingestion, event by event; to_event or
\* process may raise for any of them, and the others are ingested all the same.  (A
\* crash in between hands on a part of it; the page counts as not handed on, then.)
HandOnPage(r) ==
  /\ run[r].at = "asking"
  /\ \E failing \in SUBSET Page(r) :
       /\ handed' = [e \in Entries |->
                       IF e \in Page(r) \ failing THEN changed[e] ELSE handed[e]]
       /\ failed' = [failed EXCEPT ![r] = @ \cup failing]
  /\ \E returned \in Returned(r) :
       IF LastPage(r, returned)
       THEN Become(r, Run("fetched", run[r].since, 0, 1))
       ELSE \E position \in NextPosition(r, returned) :
              Become(r, Run("asking", run[r].since, position, 1))
  /\ UNCHANGED <<kind, now, changed, ahead, reported, lastSuccess, glitches>>

\* A page without entries, whatever the feed has: the fetch stops there.  A GitHub
\* collector without a token fetches nothing at all, and does not raise either.
EmptyPage(r) ==
  /\ run[r].at = "asking" /\ glitches < MaxGlitches
  /\ kind = "cursor" => run[r].position = 0
  /\ Become(r, Run("fetched", run[r].since, 0, 1))
  /\ glitches' = glitches + 1
  /\ UNCHANGED <<kind, now, changed, ahead, handed, counts, lastSuccess>>

RetryOnceMore(r) ==
  /\ run[r].at = "asking" /\ kind # "cursor" /\ run[r].attempt <= Attempts
  /\ Become(r, Run("asking", run[r].since, run[r].position, run[r].attempt + 1))
  /\ UNCHANGED <<kind, now, changed, ahead, handed, counts, lastSuccess, glitches>>

\* _get repeats a request after a transport error and the statuses of overload.
Retry(r) ==
  /\ run[r].at = "asking" /\ kind # "cursor" /\ run[r].attempt < Attempts
  /\ Become(r, Run("asking", run[r].since, run[r].position, run[r].attempt + 1))
  /\ UNCHANGED <<kind, now, changed, ahead, handed, counts, lastSuccess, glitches>>

\* Whatever has failed: the row of the run says how many events.
Succeed(r) ==
  /\ run[r].at = "fetched"
  /\ lastSuccess' = now
  /\ reported' = reported \cup failed[r]
  /\ failed' = [failed EXCEPT ![r] = {}]
  /\ Become(r, NoRun)
  /\ UNCHANGED <<kind, now, changed, ahead, handed, glitches>>

RaiseRecorded(r) ==
  /\ run[r].at # "idle"
  /\ lastSuccess' = now
  /\ Become(r, NoRun)
  /\ UNCHANGED <<kind, now, changed, ahead, handed, counts, glitches>>

\* A request that fails for good, a database error, a crash: since stays.
Raise(r) ==
  /\ run[r].at # "idle"
  /\ Become(r, NoRun)
  /\ failed' = [failed EXCEPT ![r] = {}]
  /\ UNCHANGED <<kind, now, changed, ahead, handed, reported, lastSuccess, glitches>>

Next ==
  \/ Tick
  \/ \E e \in Entries : Change(e)
  \/ \E r \in Runs : \/ StartRun(r) \/ HandOnPage(r) \/ EmptyPage(r) \/ Retry(r)
                     \/ Succeed(r) \/ Raise(r)

Spec == Init /\ [][Next]_vars
-----------------------------------------------------------------------------
\* The types of the feed and of what runs hold of it.
TypeOK ==
  /\ kind \in Kinds /\ now \in 0 .. MaxTime /\ glitches \in 0 .. MaxGlitches
  /\ changed \in [Entries -> Nat \cup {Never}] /\ handed \in [Entries -> Nat \cup {Never}]
  /\ ahead \subseteq Published
  /\ failed \in [Runs -> SUBSET Entries] /\ reported \subseteq Entries
  /\ lastSuccess \in Nat \cup {Never}
  /\ DOMAIN run = Runs
  /\ \A r \in Runs :
       /\ run[r].at \in {"idle", "asking", "fetched"}
       /\ run[r].since \in Int /\ run[r].position \in Nat
       /\ run[r].attempt \in 1 .. Attempts

\* A change that came between two runs, or ahead of every run in flight, is ingested,
\* or still in the window of the next run, or the row of a run tells that an event of
\* it failed: a change is dropped in silence only if a run had been past its place in
\* the feed when it came.  However many runs have raised, on whatever page it was, and
\* however the feed has gone on changing under them.  (Not so when the feed sends an
\* empty page that should not be.)
ChangesAheadOfRunsAreKept ==
  glitches = 0 =>
    \A e \in ahead : \/ handed[e] = changed[e]
                     \/ lastSuccess <= changed[e]
                     \/ e \in reported

\* A run that goes on asking has moved on in the feed or has one attempt less:
\* since the attempts and the entries are finite, every fetch ends, although the
\* feed grows under it and requests fail.
FetchAdvances ==
  [][\A r \in Runs :
       LET old == run[r]
           new == run'[r]
       IN old.at = "asking" /\ new.at = "asking" /\ new # old =>
            \/ new.position = old.position /\ new.attempt > old.attempt
            \/ kind = "offset" /\ new.position > old.position
            \/ kind = "cursor" /\ (old.position = 0 \/ Before(old.position, new.position))]_vars
=============================================================================
