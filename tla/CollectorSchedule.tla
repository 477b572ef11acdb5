------------------------- MODULE CollectorSchedule -------------------------
(***************************************************************************)
(* When each collector runs: the scheduler's tick (core/scheduler.py), the *)
(* life of one ingestion run around its fetch loop (services/ingestion.py),*)
(* the operator's enable, disable and trigger endpoints (api/v1/admin.py), *)
(* and start-up and shutdown (main.py).                                    *)
(*                                                                         *)
(* All of them share the `source` table and none takes a lock.  Each       *)
(* `async with session_factory()` block that changes a row is two steps, a *)
(* SELECT that loads it and a COMMIT that writes back, and any other       *)
(* coroutine may run at the await in between.  The ORM writes only the     *)
(* columns whose assigned value differs from the loaded one (Flush).       *)
(*                                                                         *)
(* Time is counted in minutes, the period of the tick, and a timestamp is  *)
(* kept as its distance from now: dueIn[s] is the time left until          *)
(* next_run_at, 0 when that is NULL or past.  So no clock needs a bound.   *)
(* What a run does to the threats is the matter of IngestService; here an  *)
(* event is ingested or failed.                                            *)
(***************************************************************************)
EXTENDS Integers, FiniteSets

CONSTANTS
  Sources,        \* names of the registered collectors
  Runs,           \* slots for runs in flight, reused when a run has ended
  BaseInterval,   \* base_interval_minutes of each source's row
  MaxInterval,    \* the cap on a backed-off interval (1440 in the code)
  TokenGated,     \* sources enabled at start-up only if their token is set
  AdminOps,       \* the admin endpoints operators use
  Overlap,        \* FALSE: every run ends within the minute it starts in
  MaxFailures,    \* bound: a fetch raises only below this many failures,
                  \* in every row and in what every run has loaded
  MaxFaults,      \* bound on database errors and missed ticks
  MaxCrashes      \* bound on crashes and restarts

FailureThreshold == 3

ASSUME ConstantsAssumption ==
  /\ Sources # {}
  /\ MaxInterval \in Nat
  /\ BaseInterval \in [Sources -> 1 .. MaxInterval]
  /\ TokenGated \subseteq Sources
  /\ AdminOps \subseteq {"enable", "disable", "trigger"}
  /\ Overlap \in BOOLEAN
  /\ MaxFailures \in Nat /\ MaxFaults \in Nat /\ MaxCrashes \in Nat

VARIABLES
  up,       \* is the application process up?
  tickDue,  \* has the tick's trigger fired since the last tick?
  tick,     \* the sources the tick in progress has selected
  row,      \* source table: enabled, consecutive_failures, interval
  dueIn,    \* source table: minutes left until next_run_at
  pc,       \* where each run's coroutine is
  run,      \* each run's local variables
  runRow,   \* the status column of each run's collector_run row
  admin,    \* the enable or disable request in progress
  faults,   \* database errors and missed ticks so far
  crashes   \* crashes so far

vars == <<up, tickDue, tick, row, dueIn, pc, run, runRow, admin, faults, crashes>>
-----------------------------------------------------------------------------
Columns == [enabled : BOOLEAN, failures : Nat, interval : Nat]

\* new: task created.  fetching: inside the try block, in the fetch loop.
\* resetting, toReset, scoring: the rest of the try block.
\* failing, backing, toBack: the except block.
Places == {"idle", "new", "fetching", "resetting", "toReset", "scoring",
           "failing", "backing", "toBack"}

Statuses == {"none", "running", "success", "partial", "failure"}

AnySource == CHOOSE s \in Sources : TRUE

Fresh(s) == [enabled |-> TRUE, failures |-> 0, interval |-> BaseInterval[s]]

NewRun(s, manual) ==
  [source |-> s, manual |-> manual, ingested |-> FALSE, loaded |-> Fresh(s)]

IdleRun == NewRun(AnySource, FALSE)

NoRequest == [op |-> "none", source |-> AnySource, loaded |-> Fresh(AnySource)]

TypeOK ==
  /\ up \in BOOLEAN /\ tickDue \in BOOLEAN
  /\ tick \subseteq Sources
  /\ row \in [Sources -> Columns]
  /\ dueIn \in [Sources -> Nat]
  /\ pc \in [Runs -> Places]
  /\ run \in [Runs -> [source : Sources, manual : BOOLEAN, ingested : BOOLEAN,
                       loaded : Columns]]
  /\ runRow \in [Runs -> Statuses]
  /\ admin \in [op : {"none", "enable", "disable"}, source : Sources, loaded : Columns]
  /\ faults \in Nat /\ crashes \in Nat

\* The rows as _ensure_source_row inserts them, before the first start-up.
Init ==
  /\ up = FALSE /\ tickDue = FALSE /\ tick = {}
  /\ row = [s \in Sources |-> Fresh(s)]
  /\ dueIn = [s \in Sources |-> 0]
  /\ pc = [r \in Runs |-> "idle"]
  /\ run = [r \in Runs |-> IdleRun]
  /\ runRow = [r \in Runs |-> "none"]
  /\ admin = NoRequest
  /\ faults = 0 /\ crashes = 0
-----------------------------------------------------------------------------
(* The ORM's write: a column is in the UPDATE only if it was changed.      *)

FlushWholeRow(current, loaded, assigned) == assigned

Flush(current, loaded, assigned) ==
  [enabled  |-> IF assigned.enabled = loaded.enabled
                THEN current.enabled ELSE assigned.enabled,
   failures |-> IF assigned.failures = loaded.failures
                THEN current.failures ELSE assigned.failures,
   interval |-> IF assigned.interval = loaded.interval
                THEN current.interval ELSE assigned.interval]

ResetFailures(s, loaded) ==
  [enabled |-> loaded.enabled, failures |-> 0, interval |-> loaded.interval]

Reset(s, loaded) ==
  [enabled |-> loaded.enabled, failures |-> 0, interval |-> BaseInterval[s]]

CappedNot(minutes) == minutes

Capped(minutes) == IF minutes <= MaxInterval THEN minutes ELSE MaxInterval

BackOffEarly(loaded) ==
  [enabled  |-> loaded.enabled,
   failures |-> loaded.failures + 1,
   interval |-> IF loaded.failures >= FailureThreshold
                THEN Capped(2 * loaded.interval) ELSE loaded.interval]

BackOff(loaded) ==
  [enabled  |-> loaded.enabled,
   failures |-> loaded.failures + 1,
   interval |-> IF loaded.failures + 1 >= FailureThreshold
                THEN Capped(2 * loaded.interval) ELSE loaded.interval]

\* next_run_at is counted from the interval in memory, not from the one in the
\* row.  finished_at and failed_at are taken as the time of the commit.
Write(s, loaded, assigned) ==
  /\ row' = [row EXCEPT ![s] = Flush(@, loaded, assigned)]
  /\ dueIn' = [dueIn EXCEPT ![s] = assigned.interval]
-----------------------------------------------------------------------------
(* The scheduler: one job, every minute, never two at a time.              *)

Idle == {r \in Runs : pc[r] = "idle"}

DueWhileHealthy ==
  {s \in Sources : row[s].enabled /\ dueIn[s] = 0 /\ row[s].failures < FailureThreshold}

DueThoughDisabled == {s \in Sources : dueIn[s] = 0}

Due == {s \in Sources : row[s].enabled /\ dueIn[s] = 0}

TickSelect ==
  /\ up /\ tickDue /\ tick = {}
  /\ tickDue' = FALSE
  /\ tick' = Due
  /\ UNCHANGED <<up, row, dueIn, pc, run, runRow, admin, faults, crashes>>

TickDispatch ==
  /\ up /\ tick # {}
  /\ \E slot \in [tick -> Idle] :
       /\ \A s, t \in tick : slot[s] = slot[t] => s = t
       /\ pc' = [r \in Runs |-> IF \E s \in tick : slot[s] = r THEN "new" ELSE pc[r]]
       /\ run' = [r \in Runs |-> IF \E s \in tick : slot[s] = r
                                 THEN NewRun(CHOOSE s \in tick : slot[s] = r, FALSE)
                                 ELSE run[r]]
  /\ tick' = {}
  /\ UNCHANGED <<up, tickDue, row, dueIn, runRow, admin, faults, crashes>>

\* The SELECT raises, or the event loop is too busy to start the job in time.
TickMiss ==
  /\ up /\ tickDue /\ tick = {} /\ faults < MaxFaults
  /\ tickDue' = FALSE
  /\ faults' = faults + 1
  /\ UNCHANGED <<up, tick, row, dueIn, pc, run, runRow, admin, crashes>>

\* A minute passes.  A trigger that fires during a tick is dropped
\* (max_instances=1); several waiting ones are one (coalesce).
Advance ==
  /\ Overlap \/ (Idle = Runs /\ tick = {})
  /\ dueIn' = [s \in Sources |-> IF dueIn[s] = 0 THEN 0 ELSE dueIn[s] - 1]
  /\ tickDue' = (up /\ (tickDue \/ tick = {}))
  /\ UNCHANGED <<up, tick, row, pc, run, runRow, admin, faults, crashes>>
-----------------------------------------------------------------------------
(* One run of IngestionService.run.  Goto moves run r on; End returns from *)
(* the coroutine and frees its slot.  Nothing reads the row of an ended    *)
(* run, so its status is forgotten, unless it was left at `running`.       *)

Goto(r, place) == pc' = [pc EXCEPT ![r] = place]

End(r) ==
  /\ Goto(r, "idle")
  /\ run' = [run EXCEPT ![r] = IdleRun]
  /\ runRow' = [runRow EXCEPT ![r] = IF @ = "running" THEN @ ELSE "none"]

RunOnly == UNCHANGED <<up, tickDue, tick, admin, crashes>>

SourceKept == UNCHANGED <<row, dueIn>>

StartRunOnceEnabled(r) ==
  /\ pc[r] = "new" /\ row[run[r].source].enabled
  /\ Goto(r, "fetching")
  /\ runRow' = [runRow EXCEPT ![r] = "running"]
  /\ RunOnly /\ SourceKept /\ UNCHANGED <<run, faults>>

StartRun(r) ==
  /\ pc[r] = "new"
  /\ Goto(r, "fetching")
  /\ runRow' = [runRow EXCEPT ![r] = "running"]
  /\ RunOnly /\ SourceKept /\ UNCHANGED <<run, faults>>

FinalStatusOutsideEnum(ingested, failed) == IF failed THEN "error" ELSE "success"

FinalStatus(ingested, failed) ==
  IF ~failed THEN "success" ELSE IF ingested THEN "partial" ELSE "failure"

\* The fetch loop has ended: whether any event was ingested and whether any
\* failed is all that the rest of the run looks at.
RecordOutcome(r) ==
  /\ pc[r] = "fetching"
  /\ Goto(r, "resetting")
  /\ \E ingested, failed \in BOOLEAN :
       /\ runRow' = [runRow EXCEPT ![r] = FinalStatus(ingested, failed)]
       /\ run' = [run EXCEPT ![r].ingested = ingested]
  /\ RunOnly /\ SourceKept /\ UNCHANGED faults

LoadSource(r, from, to) ==
  /\ pc[r] = from
  /\ Goto(r, to)
  /\ run' = [run EXCEPT ![r].loaded = row[run[r].source]]
  /\ RunOnly /\ SourceKept /\ UNCHANGED <<runRow, faults>>

LoadForReset(r) == LoadSource(r, "resetting", "toReset")

CommitReset(r) ==
  /\ pc[r] = "toReset"
  /\ LET s == run[r].source
     IN Write(s, run[r].loaded, Reset(s, run[r].loaded))
  /\ IF run[r].ingested
     THEN /\ Goto(r, "scoring")
          /\ run' = [run EXCEPT ![r].loaded = Fresh(run[r].source)]
          /\ UNCHANGED runRow
     ELSE End(r)
  /\ RunOnly /\ UNCHANGED faults

ScoreAffected(r) ==
  /\ pc[r] = "scoring"
  /\ End(r)
  /\ RunOnly /\ SourceKept /\ UNCHANGED faults

\* Control reaches `except Exception`.
Recover(r) ==
  /\ Goto(r, "failing")
  /\ run' = [run EXCEPT ![r] = NewRun(run[r].source, run[r].manual)]

\* collector.fetch raises, before or after it has yielded events: HTTP retries
\* exhausted, bad JSON, a missing field.
FetchRaises(r) ==
  /\ pc[r] = "fetching"
  /\ \A s \in Sources : row[s].failures < MaxFailures
  /\ \A q \in Runs : run[q].loaded.failures < MaxFailures
  /\ Recover(r)
  /\ RunOnly /\ SourceKept /\ UNCHANGED <<runRow, faults>>

\* A database error in the try block after the loop, the scoring job's included.
SessionRaises(r) ==
  /\ pc[r] \in {"fetching", "resetting", "toReset", "scoring"} /\ faults < MaxFaults
  /\ Recover(r)
  /\ faults' = faults + 1
  /\ RunOnly /\ SourceKept /\ UNCHANGED runRow

\* A database error before the try block or in the except block leaves run();
\* _run_safe and _run_collector_in_background log it and nothing more.
RunEscapes(r) ==
  /\ pc[r] \in {"new", "failing", "backing", "toBack"} /\ faults < MaxFaults
  /\ End(r)
  /\ faults' = faults + 1
  /\ RunOnly /\ SourceKept

RecordFailureForgotten(r) ==
  /\ pc[r] = "failing"
  /\ Goto(r, "backing")
  /\ RunOnly /\ SourceKept /\ UNCHANGED <<run, runRow, faults>>

RecordFailure(r) ==
  /\ pc[r] = "failing"
  /\ Goto(r, "backing")
  /\ runRow' = [runRow EXCEPT ![r] = "failure"]
  /\ RunOnly /\ SourceKept /\ UNCHANGED <<run, faults>>

LoadForBackoff(r) == LoadSource(r, "backing", "toBack")

CommitBackoffUnscheduled(r) ==
  /\ pc[r] = "toBack"
  /\ LET s == run[r].source
     IN row' = [row EXCEPT ![s] = Flush(@, run[r].loaded, BackOff(run[r].loaded))]
  /\ End(r)
  /\ RunOnly /\ UNCHANGED <<dueIn, faults>>

CommitBackoff(r) ==
  /\ pc[r] = "toBack"
  /\ Write(run[r].source, run[r].loaded, BackOff(run[r].loaded))
  /\ End(r)
  /\ RunOnly /\ UNCHANGED faults

\* The steps a run takes by itself.
RunStep(r) ==
  \/ StartRun(r) \/ RecordOutcome(r)
  \/ LoadForReset(r) \/ CommitReset(r) \/ ScoreAffected(r) \/ FetchRaises(r)
  \/ RecordFailure(r) \/ LoadForBackoff(r) \/ CommitBackoff(r)
-----------------------------------------------------------------------------
(* The operator's endpoints; one enable or disable request at a time.      *)

LoadAdmin(op, s) ==
  /\ up /\ op \in AdminOps \ {"trigger"} /\ admin = NoRequest
  /\ admin' = [op |-> op, source |-> s, loaded |-> row[s]]
  /\ UNCHANGED <<up, tickDue, tick, row, dueIn, pc, run, runRow, faults, crashes>>

CommitAdmin ==
  /\ admin.op # "none"
  /\ LET s == admin.source
     IN IF admin.op = "enable"
        THEN /\ row' = [row EXCEPT ![s] =
                          Flush(@, admin.loaded,
                                [Reset(s, admin.loaded) EXCEPT !.enabled = TRUE])]
             /\ dueIn' = [dueIn EXCEPT ![s] = 0]
        ELSE /\ row' = [row EXCEPT ![s] =
                          Flush(@, admin.loaded, [admin.loaded EXCEPT !.enabled = FALSE])]
             /\ UNCHANGED dueIn
  /\ admin' = NoRequest
  /\ UNCHANGED <<up, tickDue, tick, pc, run, runRow, faults, crashes>>

\* Does not look at enabled.  A slot is left for each source the tick holds.
Trigger(s) ==
  /\ up /\ "trigger" \in AdminOps /\ Cardinality(Idle) > Cardinality(tick)
  /\ \E r \in Idle : /\ Goto(r, "new")
                     /\ run' = [run EXCEPT ![r] = NewRun(s, TRUE)]
  /\ UNCHANGED <<up, tickDue, tick, row, dueIn, runRow, admin, faults, crashes>>
-----------------------------------------------------------------------------
(* Shutdown cancels the tasks in flight (scheduler.shutdown(wait=False)),  *)
(* and CancelledError is no Exception, so it is the same as a crash.       *)

Crash ==
  /\ up /\ crashes < MaxCrashes
  /\ up' = FALSE /\ tickDue' = FALSE /\ tick' = {}
  /\ pc' = [r \in Runs |-> "idle"]
  /\ run' = [r \in Runs |-> IdleRun]
  /\ admin' = NoRequest
  /\ crashes' = crashes + 1
  /\ UNCHANGED <<row, dueIn, runRow, faults>>

\* _sync_source_enabled_state: the token is there or not at each start-up.
Startup ==
  /\ ~up
  /\ up' = TRUE
  /\ \E token \in [TokenGated -> BOOLEAN] :
       row' = [s \in Sources |->
                [row[s] EXCEPT !.enabled = IF s \in TokenGated THEN token[s] ELSE TRUE]]
  /\ UNCHANGED <<tickDue, tick, dueIn, pc, run, runRow, admin, faults, crashes>>

Next ==
  \/ Advance \/ TickSelect \/ TickDispatch \/ TickMiss
  \/ \E r \in Runs : RunStep(r) \/ SessionRaises(r) \/ RunEscapes(r)
  \/ \E s \in Sources : Trigger(s) \/ \E op \in {"enable", "disable"} : LoadAdmin(op, s)
  \/ CommitAdmin \/ Crash \/ Startup

Spec == Init /\ [][Next]_vars

\* Time passes, the event loop runs what is ready, a fetch ends (HTTP calls
\* time out and retries are counted), and the supervisor restarts the process.
Fairness ==
  /\ WF_vars(Advance) /\ WF_vars(TickSelect) /\ WF_vars(TickDispatch)
  /\ WF_vars(Startup) /\ WF_vars(CommitAdmin)
  /\ \A r \in Runs : WF_vars(RunStep(r))

FairSpec == Spec /\ Fairness
-----------------------------------------------------------------------------
(* What must hold.  The README says under which constants each is checked. *)

\* However runs, operators and lost updates mix, the interval in a source's row stays
\* between its base and the cap of the backoff, and next_run_at is never further away
\* than the cap (ingestion.py:136-140, 205-209): no failure pattern parks a source for
\* longer.  How soon it may be polled again is PollsAreSpaced of ScheduleHistory.
InBounds(s, columns) == columns.interval \in BaseInterval[s] .. MaxInterval

IntervalBounds ==
  \A s \in Sources : InBounds(s, row[s]) /\ dueIn[s] <= MaxInterval

\* Only an operator's request or a start-up changes `enabled`: the write-back of
\* a run that loaded the row before an operator disabled the source must not
\* switch it on again (ingestion.py:132-142 and 201-211 against admin.py:126).
EnabledOnlyByOperator ==
  [][\A s \in Sources : row'[s].enabled # row[s].enabled =>
       ~up \/ (admin.op # "none" /\ admin.source = s /\ admin' = NoRequest)]_vars

\* Until a crash or a database error intervenes, a collector_run row that says `running`
\* belongs to a run in flight (ingestion.py:66-75, 118-129 and 186-198).
RunningRowsAreLive ==
  crashes = 0 /\ faults = 0 =>
  \A r \in Runs : runRow[r] = "running" <=> pc[r] \in {"fetching", "failing"}

\* Without overlap the schedule is the backoff the services promise: failures,
\* interval and due date change together, once for each attempt, when it is due.
Promise == INSTANCE SourceBackoff WITH
  failures <- [s \in Sources |-> row[s].failures],
  interval <- [s \in Sources |-> row[s].interval],
  wait     <- dueIn

ImplementsBackoff == Promise!Spec

\* A source is polled at its own interval until the third failure in a row and, up to
\* the cap, less often from then on; and it never waits longer than its interval says.
\* With overlap a success may clear the failures and, having loaded the interval from
\* before another run's third failure, leave that one's doubled interval.
BacksOffWhenDue ==
  \A s \in Sources :
    /\ row[s].failures < FailureThreshold => row[s].interval = BaseInterval[s]
    /\ row[s].failures >= FailureThreshold =>
         row[s].interval = MaxInterval \/ row[s].interval >= 2 * BaseInterval[s]
    /\ dueIn[s] <= row[s].interval

InFlight(s) == \E r \in Runs : pc[r] # "idle" /\ run[r].source = s

\* A source that stays enabled is run again and again, whatever its failures,
\* lost updates, crashes and missed ticks did to its row.
ScheduledForever ==
  \A s \in Sources : <>[](row[s].enabled) => []<>InFlight(s)

\* A run that has started ends: the coroutine leaves both the try block and the
\* except block (ingestion.py:83-213).
RunsEnd == \A r \in Runs : pc[r] # "idle" ~> pc[r] = "idle"

\* Once a source is disabled for good, scheduled runs of it cease, those a tick
\* had already selected included (scheduler.py:36-47, admin.py:117-128).
QuietWhenDisabled ==
  \A s \in Sources :
    <>[](~row[s].enabled) =>
      <>[](\A r \in Runs : pc[r] # "idle" /\ run[r].source = s => run[r].manual)

\* A run recorded as a failure, and no other, adds one to the consecutive
\* failures (the design's "On failure"); see the finding.
FailureAddsOne ==
  [][\A r \in Runs : CommitReset(r) \/ CommitBackoff(r) =>
       LET s == run[r].source
       IN runRow[r] = "failure" <=> row'[s].failures = row[s].failures + 1]_vars

\* After a clean exit the source's backoff is reset; see the finding.
CleanExitResetsBackoff ==
  [][\A r \in Runs : CommitReset(r) =>
       LET s == run[r].source
       IN row'[s].failures = 0 /\ row'[s].interval = BaseInterval[s]]_vars
=============================================================================
