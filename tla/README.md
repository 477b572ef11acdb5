# threat-intel-api: TLA+ models and proofs

The threat-intel API collects vulnerability events from three feeds (NVD, CISA
KEV, GitHub Advisories), merges them into one catalogue of threats, scores every
threat for every sector profile, and serves the result over HTTP. One asyncio
process does all of it against one PostgreSQL database (SQLite in the tests).
This directory models the parts of it that are hard to test, checks the models
with TLC and proves the central facts with TLAPS. Source paths below are
relative to `src/threat_intel/` of the repository.

## 1. Inventory

| Component | Code | State it keeps | Operations | Interacts with |
|---|---|---|---|---|
| Collection schedule | `core/scheduler.py`, `services/ingestion.py`, `api/v1/admin.py`, `main.py` | `source` and `collector_run` rows, tasks in flight | tick, run, enable, disable, trigger, start-up, shutdown | fetch (calls), ingest (calls for each event), scoring (calls at the end) |
| Event ingest | `services/ingest.py` | `threat`, `threat_source`, `threat_indicator`, `cwe` rows | `process`: look up, create or reuse, upsert, recompute, commit | scheduled runs of several sources at once |
| Canonical record | `services/ingest.py` `recompute_canonical` | columns of `threat` | recompute from all sources | called in the ingest transaction |
| Collectors | `collectors/*.py` | none (an HTTP client) | `fetch` (retry, pagination, cursor), `to_event` | the upstream APIs, the run's `since` window |
| Sector scoring | `services/sector_scoring.py` | none | `calculate_score` | scoring job |
| Scoring job | `services/scoring_job.py` | `threat_sector_score` rows | score ids, score since, rescore all | runs, the daily job, admin, profile reload |
| Profile loader | `services/profile_loader.py` | `sector_profile` rows, YAML files | load all, remove stale | start-up, admin; its deletes cascade to scores |
| Read side | `services/threats.py`, `services/sectors.py`, `api/v1/*.py` | none | list, look up, dashboards, health | everything above, through the database |
| Database set-up | `alembic/`, `models/` | the schema | create tables, turn the one-source schema into the present one | the database that everything else starts from |
| Edge | `api/middleware.py`, `api/security.py`, `core/logging.py`, `core/config.py`, ... | none | headers, rate limits, logging, settings | - |

What is hard, and where it bites, is the `hazards` list of `PROJECT.json`.
In short:

* **Concurrency without locks.** Every scheduled run is an asyncio task. Tasks
  interleave at each `await`; the database isolation is READ COMMITTED; rows are
  loaded in one statement and written back in another.
* **Overlap.** Nothing stops two runs of the same source; two sources routinely
  ingest the same CVE at the same time.
* **Failure.** A run has four sessions of its own and one for each event; any of
  them may fail, and the process may die between two.
* **Time.** Backoff, retry, and the `since` window of incremental fetches.
* **Moving feeds.** The upstream feeds change while they are read page by page.
* **Partial success.** An event may fail and its run go on; an invalid profile
  file is skipped by a reload that also deletes; one job's chunk fails and takes
  the rest of the job with it.

What makes each component correct:

| Component | It is correct when |
|---|---|
| Collection schedule | once a run of a source has ended the source is not polled again before its interval is over, and it is never starved; only operators switch it; every run ends and its row says so; without overlap it is the backoff of `SourceBackoff` |
| Event ingest | each event is ingested in one piece or not at all (`Catalogue`), the threat is found by every identifier, nothing is overwritten by a stale transaction |
| Canonical record | the columns are what the sources' rows say, by priority; a KEV threat is critical |
| Collectors | what changes ahead of every run in flight is handed on, whatever fails; a fetch ends; events are well formed |
| Scoring | a score is in range, belongs to a threat and a profile that exist, and is eventually the right one |
| Profile loader | no invalid profile enters the table, and only profiles whose file is gone leave it |
| Read side | an identifier once shown leads to a threat for ever, two ways of looking one up agree, a pager misses nothing that stays in its place |
| Database set-up | ingestion can go on from what the migration leaves behind |

## 2. Modules

```
   Feed (collectors, since window)                 SourceBackoff (abstract)
     |  hands entries on                                  ^ implemented by
     v                                                    |
   Collected (to_event)                            CollectorSchedule  (a run's fetch:
     |  events                                            |            any events, ends
     |                                                 EXTENDS         or raises)
     v                                             ScheduleHistory
   IngestService --- EXTENDS ---> Canonical <--- Catalogue (abstract; implemented
     |     ^     ^                                             by IngestService)
     |     |     +-- EXTENDS --- IngestHistory <--- EXTENDS --- ThreatReader
     |     |                     (who has overtaken whom)       (clients that list
     |     +-- EXTENDS --- Upgrade (what migration 0003          and look up)
     |                              leaves behind)
     |  changes threats
     v
   ScoreTable --- EXTENDS ---> SectorScore
```

| Module | Models | Proofs |
|---|---|---|
| `CollectorSchedule` | tick, runs, operators, start-up, shutdown over `source` and `collector_run` | `CollectorScheduleProofs` |
| `ScheduleHistory` | `CollectorSchedule`, with a record of how long each source has been left alone | `CollectorScheduleProofs` |
| `SourceBackoff` | what the schedule promises of one attempt after another | `CollectorScheduleProofs` (refinement) |
| `Feed` | `fetch` of the three collectors over a feed that changes | `FeedProofs` |
| `Collected` | `to_event` of the three collectors | `CollectedProofs` |
| `IngestService` | `IngestService.process`, one transaction per worker | `IngestServiceProofs`, `DuplicateProofs` |
| `IngestHistory` | `IngestService`, with a record of which workers have been overtaken | `CatalogueProofs` |
| `Canonical` | `recompute_canonical`, a pure function | `CollectedProofs`, `CatalogueProofs` |
| `Catalogue` | ingestion of an event as one step | `CatalogueProofs` (refinement) |
| `ThreatReader` | the lists of threats and the lookups, with clients that use several answers | `ThreatReaderProofs` |
| `Upgrade` | the data migration of revision 0003 | `ThreatReaderProofs`, `CatalogueProofs` |
| `SectorScore` | `calculate_score`, a pure function | `ScoreTableProofs` |
| `ScoreTable` | scoring by runs, daily job and operators; profile reloads | `ScoreTableProofs` |

`MC...` modules give the constants values for TLC. Besides the operators that
`Next` uses, some modules define variants of them (`RetryOnceMore`,
`SeenUnvalidated`, `NewestOf`, ...) next to the original: each is a plausible
bug of that piece of code, and replacing the original with it violates the
property that is meant to catch it (`mutants` of `PROJECT.json`). No
specification uses them.

### CollectorSchedule

`row` holds the columns of `source` that the schedule reads and that several
writers share: `enabled`, `consecutive_failures`, `current_interval_minutes`;
`dueIn` is the distance from now to `next_run_at`. Every session block that
changes a row is two actions, a load (`LoadForReset`, `LoadForBackoff`,
`LoadAdmin`) and a commit (`CommitReset`, `CommitBackoff`, `CommitAdmin`).
`Flush` is what SQLAlchemy makes of the commit: the UPDATE names only the
columns whose value differs from the one loaded. This is why a reset can be
lost, and why `enabled` cannot.

| Actions | Code |
|---|---|
| `Advance`, `TickSelect`, `TickDispatch`, `TickMiss` | `core/scheduler.py` |
| `StartRun` ... `ScoreAffected`, `FetchRaises`, `RecordFailure` ... `CommitBackoff` | the try and the except block of `IngestionService.run` |
| `SessionRaises`, `RunEscapes` | a database error in either block; `_run_safe` |
| `LoadAdmin`, `CommitAdmin`, `Trigger` | `api/v1/admin.py` |
| `Crash`, `Startup` | `main.py` lifespan |

Abstractions. Time is in minutes and timestamps are distances, so that no clock
needs a bound. `finished_at` and `failed_at`, taken shortly before, are taken at
the commit. A slot of `Runs` is reused and the status of an ended run's row with
it. `last_run_at`, `last_error` and `last_success_at` are left out (the last is
in `Feed`). `MaxFailures`, `MaxFaults` and `MaxCrashes` bound how often a fetch
raises, the database fails and the process stops. `Overlap = FALSE` restricts
`Advance` to moments at which no run is in flight: every run then ends within
the minute it starts in.

`ScheduleHistory` adds the history variable `rested`: the minutes since a run of
the source last wrote its outcome, counted up to the base interval. It restricts
no step. The schedule does not wait for the runs in flight: a run moves
`next_run_at` only when it ends, and until then every tick selects its source
again. `PollsAreSpaced` says what holds all the same: once any run of the
source has written the row, the source rests for its base interval, whatever
other runs are still in flight and whatever they have loaded; only an operator's
enable ends the rest before.

### Feed and Collected

A feed is a set of numbered entries with the time of their last change; its
`kind` is chosen at the start. `ahead` and `handed` are history variables: the
entries whose last change came between runs, or ahead of what every run in flight
had read, and which version of each was last handed on to ingestion. A run is `asking` for the page at its `position`
(NVD's `startIndex`, GitHub's cursor), then `fetched`, then recorded:
`Succeed` moves `last_success_at`, `Raise` does not. `Retry` counts the attempts
of `_get`. `EmptyPage` is the response without entries that stops NVD's loop
(nvd.py:148), and the fetch of a GitHub collector without a token, which yields
nothing and does not raise. Any event of a page may fail (`HandOnPage`):
`process` or `to_event` raises, the run counts it and goes on. `failed` is what
each run has counted, `reported` what the rows of finished runs tell an operator
of it; a change of the entry clears both, since it will be asked for again. The
feeds themselves are external: that an NVD
modification leaves the order of the pages alone, and that GitHub lists by
publication, is assumed.

`Collected` turns entries into the events of `IngestService`: its runs ingest
`Collected` of entries, not events made up for them.

### IngestService, Canonical, Catalogue

One action per statement of a transaction that others can observe or that
observes others: `Lookup`, `SelectRow`, `FlushRow`, `Recompute`, `Commit`; `Fail`
is an error in any of them, which rolls back. Committed tables are variables,
uncommitted writes are in `txn`. `FlushRow` takes the lock on the
`(threat, source)` key that the unique constraint implies. Threats are numbered
in the order of `created_at`, which is the start of the transaction. `Locked` is how the indicators' `ON
CONFLICT DO NOTHING` waits for another transaction's insert of the same row. The
SELECTs of `recompute_canonical` are one step; `last_seen_at`,
`last_modified_at` and indicators that are never looked up are left out.

`Init` takes one of `Databases`: the empty one of a new installation, or what
`Upgrade` makes of a database of the one-source schema. In the latter the rows
of `threat_source` carry raw data as the old collector stored it, in which
`recompute_canonical` finds none of the keys it looks for; `Migrated` is the set
of the events such rows stand for.

`IngestHistory` adds the history variable `overtaken`: the workers during whose
transaction another has committed something about the same threat or about an
identifier in common. It says where the guarantees of `Catalogue` end when
several workers ingest: only such workers may duplicate, overwrite or miss
something, and the others ingest as if alone (`UnovertakenIsAtomic`). It
restricts no step of `IngestService`.

### ThreatReader

A handler changes nothing, so it is not an action on the catalogue: what is
modelled is what its statements see, one committed state each (`Count`,
`ReadPage`), and what a client makes of several answers. `link` is an identifier
that a list, a dashboard or a feed has shown (`Show`) and that is asked for
later; `Found` is that `GET /cve/{id}` does not answer 404. `pager` is a client
that reads `GET /threats` page after page, with one of `Filters`, until the page
is not full or, if it is `trusting`, until it has as many as the `total` it was
told. `missing` are the threats listed when it began which it has not seen,
`moves` counts those that changed their place or left the list in the meantime,
and `late` those that came between the count and the page of one request.
`ReaderSpec` interleaves them with the steps of `IngestHistory`, and
`ReadersOnlyRead` proves that those steps are unchanged by it. Which threats a
sector's list shows depends on scores and is `ScoreTable`'s; here `Show` takes
any.

### SectorScore, ScoreTable

A text is the set of terms it contains, so `calculate_score` is set membership
and arithmetic. `ScoreTable` interleaves ingestion runs that score what they
changed, the daily job, rescoring and reloads. A job takes `LoadProfiles`
once, then `LoadThreats`, `LoadScores` and `CommitChunk` for each chunk; a reload
takes `ParseFiles`, `UpsertProfiles` and `RemoveStale`. What the files hold is
chosen anew at each `ParseFiles`. Two commits of one key, or a commit of a score
whose profile is gone, fail (`Conflict`). The foreign keys are those of
PostgreSQL; SQLite, in the tests, does not enforce them. The scores of a chunk
are read at once. `Threat.updated_at` is set by the database's clock and compared
with the application's less one second; the model takes the clocks as equal.

## 3. Runs

| Run | Instance | Shows |
|---|---|---|
| `schedule_overlap` | one source with interval 2 capped at 3, two runs, an operator who disables it, a fault | types, bounds of the interval and of the waiting time; `enabled` and run rows survive every lost update; polls are spaced |
| `schedule_serial` | two sources with intervals 1 and 2, no overlap, a crash | the interval is what the failure count asks for; `SourceBackoff` is implemented |
| `schedule_live` | one source, fair, all operators, a crash, a fault | scheduled forever; runs end; quiet once disabled |
| `ingest_catalogue` | one worker, two CVEs, an advisory that joins them, a new or a migrated database, a pager | `Catalogue` is implemented; KEV is critical; recomputing a record changes nothing; only NVD takes scores away; pages miss only what moves |
| `ingest_racing` | two workers, NVD and two advisories of one CVE, a new or a migrated database, a client with a link | types, findability, kept rows, bounded duplicates; a worker nobody overtakes ingests in one piece; links resolve and lookups agree |
| `feed` | two runs, two entries, pages of one, each kind of feed, failing events | no change ahead of every run in flight is dropped in silence; fetches advance |
| `scores` | the daily job, a run or rescoring, a reload, a fault | range, owners, and eventual freshness |
| `find_*` | | the five findings of section 6 |

Why the bounds are enough. An interval of 1 capped at 2 or 4 doubles and meets
the cap at the third to fifth failure, as 360 minutes capped at 1440 do; in
`schedule_overlap` it is 2 capped at 3, so that a source that rests has a minute
in which it must not be polled. What operators enable and trigger by hand is in
`schedule_live` and, for runs that overlap, in the theorems. Two
runs are the fewest that overlap; a third would have to race with two others for
one row, and whatever the first two left there is a row the second alone could
have loaded. With two workers every pair of statements of `process` interleaves;
the three identifiers of `ingest_racing` make one event match through either of
two others. `find_duplicate` and `find_kev` are the same composition with the
events of one CVE. The pager of `ingest_catalogue` reads pages of one threat out
of at most two, so that every change is one of page boundaries; its three
filters are none, one on the severity that ingestion changes, and one on source
and date. In `feed` pages of one entry do the same, and three instants give a
change before, between and after two runs. In `scores` one threat and one
profile are the row that all race for; that a reload comes between two *chunks*
of a job is there only as a reload between a job's `LoadProfiles` and its chunk,
to the same effect on the row. The runs of `feed`, `scores`,
`ingest_catalogue` and `schedule_overlap` take one to three minutes; a fourth instant
alone takes `feed` beyond four. All safety properties of the passing runs are
proved for every value of the constants, some of them from the assumptions that section 5
names, and do not depend on the bounds.

## 4. Fairness

`schedule_live` assumes weak fairness of what the code itself drives: the clock
(`Advance`), APScheduler's job (`TickSelect`, `TickDispatch`), the supervisor's
restart (`Startup`), the rest of a request (`CommitAdmin`) and each run
(`RunStep`). The last includes that a fetch ends: every HTTP call has a
timeout of 30 s, at most four attempts, and moves on (`FetchAdvances` of
`Feed`). No fairness is assumed of operators, errors or crashes.

`scores` assumes that the daily job is started again and again (a cron trigger),
that jobs and reloads proceed, and that a fetch ends, normally or not. Nobody has
to reload or rescore. `EventuallyFresh` asks that the threat stays in the
daily job's seven-day window and that profiles and the threat stop changing:
outside that window nothing but a new ingestion or an operator repairs a stale
score.

`Feed` needs none: that a fetch ends is the action property `FetchAdvances`.
Each step of a fetch spends an attempt or advances the position, and both are
bounded as long as the feed is.

## 5. Proofs

TLAPS checks these for all values of the constants, from the named assumptions of
the modules (which TLC evaluates in every run).

* **CollectorSchedule**: `TypeCorrect`, `BackoffBounded`, `OnlyOperatorsEnable`,
  `RowsAreLive`, `SpacedPolls`, `SerialIsBackoff`, `SerialBacksOffWhenDue`.
  `IntervalBounds` is not inductive: a commit writes values computed from what
  its session loaded, perhaps long ago. `IInv` adds `SnapshotsInBounds`, the same
  bounds for the rows that runs and requests hold, and doubling is capped after
  the load. `EnabledOnlyByOperator` follows from `Flush`: a run's write-back
  assigns what it loaded to `enabled`, and so leaves the column out.
  `SpacedPolls` holds of every overlap and every operator. The interval alone does
  not give it, as a run may write the row from a snapshot of long ago; the
  invariant `Spaced` relates past and future instead: the minutes a source has
  rested and those it still has to wait are together never less than its base
  interval. Both ends of a run set the one to zero and the other to an interval
  that is at least the base (`SnapshotsInBounds`), a minute moves one to the
  other, and nothing else shortens the wait but an enable. A tick selects a source
  only when it has nothing left to wait (`WaitMoves`).
  `SerialIsBackoff` assumes that runs do not overlap, that operators only
  disable and that the database does not fail (`Serial`): a source then has one
  run at a time (the lemma `OneRunPerSource`, which says no more than `Serial`
  does), what the session of the
  one run of a source has loaded is then still in the row when it commits
  (`SnapshotsAreCurrent`), and the row was due when the run began
  (`AttemptsAreDue`). `SerialBacksOffWhenDue` is
  a use of the refinement: that failures and interval agree is shown of the steps
  of `SourceBackoff` (`StepBacksOff`), where it is a matter of arithmetic, and
  `SerialIsBackoff` carries it over, so that no interleaving, crash or shutdown
  has to be looked at again. That these assumptions are needed is what
  `find_clean_exit` shows.
* **Feed**: `TypeCorrect`, `ChangesAreKept`, `FetchesAdvance`. The invariant
  `Kept` of the second says of every change in `ahead` that it has been
  handed on, or has been reported as failed, or is still due: it is in the window
  that the next run will ask for, and every run in flight has it in its window
  and has met it or is still to come to it. A run in flight need not have begun
  after the change; it is enough that it had not come to its place. Pages can be passed because the
  place of an entry in an offset feed only grows as others join the window, never
  past what was read of it, and because nothing moves in a cursor feed.
* **IngestService**: `TypeCorrect`, `Findable`, `RowIdsKnown`, `RowsAreKept`. The
  invariant `Safe` adds that a row once loaded stays (`LoadedStays`), that a row
  found missing is still missing once the insert holds the key's lock
  (`MissingStays`), and that at most one transaction is past its flush for one
  key (`Exclusive`): together they say that an insert never hits a row it has not
  seen.
* **Duplicates**: `DuplicatesStayBounded` and, for one worker,
  `OneWorkerDeduplicates`, which is that bound for a count of one. The former by counting: the threats of a CVE and
  the workers that are about to create one are together never more than there are
  workers, as a worker creates one only when it has found none. It assumes
  finitely many workers and that all identifiers an event names belong to one CVE
  (`Hub`). Advisories of several CVEs join threats, and then the bound is lost.
  `find_duplicate` violates with two workers what the latter shows of one.
* **Catalogue**: `OneWorkerImplements`, `KevStaysCritical`, `RecordsReplay`,
  `OnlyNvdTakesScores`, for one worker, which is what makes them true: between
  lookup and commit nothing else commits, so what the transaction holds is
  current: it `Sees` what it would find if it looked again, and its new threat is
  the next to be numbered (`TakesNext`). Each assumes of the databases to start from what it
  claims of all later ones. The ages of their threats have no gap (`NoGapAtStart`,
  a convention of the model's numbering). `find_kev` shows that one worker
  is needed.
* **IngestHistory**: `UnovertakenIngests`, `UnovertakenRepairs` and
  `DuplicatesAreRaces`, for any number of workers, with no assumption on events
  or databases. `HistoryInv` says that every worker not in `overtaken` `Sees`;
  it needs `Reserved`, that threats about to be created are not there yet and that
  no two workers are about to create the same one, as otherwise a commit about one
  threat could change what a worker on another has read. A commit of another
  worker leaves `Sees` alone unless it `Concerns` the same threat or an identifier
  in common, and then the worker is overtaken. The step from there to
  `Catalogue` is the one of the proof for one worker (`CommitInto`). From the
  theorems: a duplicate is always made by a worker that has been overtaken, and
  the first commit of a threat that no race disturbs makes its record right again,
  whatever earlier races did to it.
* **ThreatReader, Upgrade**: `ReadersOnlyRead`, so that every theorem about
  `IngestService` and `IngestHistory` holds with readers; `LookupsAlwaysAgree`, from
  `RowIdsKnown`; `LinksAlwaysResolve`, as rows are never deleted and keep their
  external id, from every database in which a threat has a source;
  `PagersMissOnlyMoves`; and
  `MigrationFits`, that the migrated database fulfils the assumptions
  of `IngestService` and those of the last two. `PagesMissOnlyMoves` speaks of
  the end of a listing; the invariant `PagerInv` counts on the way
  there. The threats that were there from the beginning, have not been seen and
  have a place before the offset are never more than there were moves
  (`PassedOnlyMoves`): one threat that moves in a list, or out of it, shifts the
  others by at most one place. When the page
  is not full no others are left; when a `trusting` client has as many as the
  `total` it was told, those left are at most the ones that came after the count
  (`CountedButLate`). It takes a total order of places, hence `RecordsDated`:
  records have a publication date, which the statement assumes of the databases
  to start from and, with finitely many sources, `recompute_canonical` preserves.
* **SectorScore**: `ScoreBounded`; `KevNeverLowers`, that the clamped sum is
  monotone in the KEV tag for every profile; `MoreNeverLowers`, that it is so in
  everything that is known of a threat but terms that the profile excludes.
* **ScoreTable**: `TypeCorrect`, `ScoresStayInRange`, `NoOrphans`,
  `RightScoresStay`, `CommitsMakeRight`. `IInv` adds
  `JobsScoreThreats`, that what a job holds to score are threats there are; that
  the profile still exists at the commit is the foreign key's (`Conflict`), not
  the job's. The last two are the safety part of `EventuallyFresh`. A threat is
  `Settled` when every job that holds a copy of it or of the profiles for it holds
  the present one. As long as threat and profiles stay as they are this lasts, and
  so do right scores: the score a job has loaded may be stale, and then its UPDATE
  either leaves out a score that is right already or writes the right one. And a job that is `UpToDate` makes the
  scores right, if none were written since it loaded them. What liveness adds is
  that such a job comes.
* **Collected, Canonical**: `EventsFitIngest` discharges `EventsAssumption` of
  `IngestService` for whatever the feeds hold; `KevRowMakesCritical` and
  `NvdDecides` say what `recompute_canonical` makes of those events, and
  `RecomputeIdempotent` that doing it again changes nothing.

Only model-checked: liveness (`ScheduledForever`, `RunsEnd`,
`QuietWhenDisabled`, `EventuallyFresh`), which is beyond the prover. Every
safety property of a passing run is stated by a theorem.

## 6. Findings

Each is a run whose counterexample is an execution of the code.

1. `find_failure_adds_one`: a run in which every event failed is recorded as
   `failure` and yet clears the backoff (ingestion.py:112 and 136).
2. `find_clean_exit`: with two overlapping runs of a source, a clean exit leaves
   the other's backoff in the row (ingestion.py:131-142). This is also why
   `BacksOffWhenDue` is a property of runs that do not overlap.
3. `find_duplicate`: two transactions that pass the lookup create two threats of
   one CVE; the unique constraint the documentation relies on contains the
   threat's own id (ingest.py:103, docs/COLLECTORS.md:48).
4. `find_kev`: a concurrent NVD transaction writes a severity over the KEV
   bump (ingest.py:299, docs/COLLECTORS.md:42).
5. `find_removed_invalid`: a reload deletes the profile, and all scores, of a
   file that is there but invalid (profile_loader.py:205).

Other places where code and documents differ, seen while modelling and modelled
as the code has them, without a run of their own. `design` is
docs/superpowers/specs/2026-04-29-m3a-multi-source-cross-dedup-design.md.

* A source is collected "hourly", "every 6 hours", "every 2 hours"
  (CHANGELOG.md:26-28); a source whose run takes longer than a minute is
  dispatched again at each tick until a run of it has ended (core/scheduler.py:47).
* A manual trigger's run moves `next_run_at` (ingestion.py:140; design :305).
* An enable request can lose its reset to a run in flight (admin.py:108; design
  :333).
* A threat keeps its CWEs when no source names any (ingest.py:322; design :219).
* Rows are found by SELECT then INSERT, not `ON CONFLICT` (ingest.py:177; design
  :207); `FlushRow` models the error that a lost race then gives.
* Two advisories of one CVE share one `threat_source` row; the later replaces
  the earlier, whose external id stays. So do two NVD entries once an advisory
  that names both CVEs has joined them in one threat: the row keeps the external
  id of the first and holds the data of the last. `Catalogue` has this as the
  code does.
* A run that raises is never scored (ingestion.py:178), while docs/SCORING.md:94
  says "Each ingestion run, after the final commit". The daily job makes up for
  it.
* "A collector that re-asserts an existing CVE counts as activity"
  (threats.py:156): the figure counts `threat_source` rows by `first_seen_at`
  (threats.py:174), which is only set when a row is inserted (ingest.py:192).
* "Replaying it ... will repair canonical fields without re-ingesting raw data"
  (design :227). Not so of a row that migration 0003 made (0003:86): its raw
  data has none of the keys that `recompute_canonical` reads, so that an event
  of another source takes the threat's CVSS score away; and any event moves
  `published_at` to the time of collection for good (0003:81, ingest.py:315).
  `Replayable` and `ScoresAreNvds` name these rows as the exception.
* Health is to be degraded by a stale collector too and to answer without the
  database
  (docs/superpowers/specs/2026-04-27-threat-intel-api-m1-design.md:273); it does
  not look at the age of runs, and goes on to query the database it has found
  disconnected (the query of api/health.py:40 runs after a failed probe).
* An identifier that a threat only has as an indicator is found by `/indicators`
  and not by `/cve` (threats.py:131), which is why `LookupsAgree` is an
  inclusion.
* The window starts when the last run *finished* (ingestion.py:138). A change
  after its page was read and before that is not asked for again until the entry
  changes once more, which is why `ChangesAheadOfRunsAreKept` is about changes
  that no run in flight was past when they came. It leaves out what a wrongly empty page left out (nvd.py:148)
  and, in GitHub's feed, updates of an advisory published earlier. An event that
  failed in a run that went on is not asked for again either; the property
  demands that the run's row reports it.

## 7. Not modelled

* Of the read side: counts, averages, activity figures and health. Each is a
  query of its own whose answer nothing keeps; that the several figures of one
  dashboard may be of different moments is a hazard without a property, as nothing
  says that they agree.
* Edge: headers, keys, error bodies, logging, settings, documentation pages, and
  the rate limits, which are a library's. Nothing here outlives a request.
* Of the database set-up: revisions 0001 and 0002 and the first half of 0003
  create tables; their constraints are in the models of the tables. `downgrade`
  drops them.
* `cli/collect_once.py` is a triggered run in a process of its own;
  `scripts/demo_seed.py` is for demonstrations.
* Inside modelled parts: regular expressions, wording of texts, score
  breakdowns, CPEs and references.

## 8. Plan

Done, in this order: schedule (with `SourceBackoff`), ingest (with `Canonical`
and `Catalogue`), scoring and profiles, feed and conversions, read side and
migration; and the proofs, of the refinements too. What is left:

1. **Two chunks.** A variant of `scores` with two threats and without liveness,
   so that a reload falls between two chunks of one job. `NoOrphans` and
   `ScoresStayInRange` already cover it for every chunk size.
2. **Scores as filters.** A pager of a sector's list, over `ScoreTable`.
3. **More of the proofs without one worker.** `KevIsCritical` and `Replayable`
   of threats whose last commit was not overtaken, and the duplicate bound for
   advisories that name several CVEs.
