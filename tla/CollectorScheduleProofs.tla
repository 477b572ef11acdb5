----------------------- MODULE CollectorScheduleProofs -----------------------
(***************************************************************************)
(* Type correctness and the bounds of the backoff, for every set of        *)
(* sources, runs and intervals, with runs that overlap, operators, crashes *)
(* and faults.  IntervalBounds is not inductive by itself: a commit writes *)
(* back what a session loaded earlier, so the snapshots held by runs and   *)
(* by an operator's request must be within the bounds as well.             *)
(***************************************************************************)
EXTENDS ScheduleHistory, TLAPS

RunType == [source : Sources, manual : BOOLEAN, ingested : BOOLEAN, loaded : Columns]

\* Every snapshot a session holds is within the bounds of its source.
SnapshotsInBounds ==
  /\ \A r \in Runs : InBounds(run[r].source, run[r].loaded)
  /\ InBounds(admin.source, admin.loaded)

IInv == TypeOK /\ IntervalBounds /\ SnapshotsInBounds
-----------------------------------------------------------------------------
(* The operators the commits are made of.                                  *)

\* The row of a new source, and an idle run, are well formed.
LEMMA FreshOK ==
  /\ AnySource \in Sources
  /\ \A s \in Sources : Fresh(s) \in Columns /\ InBounds(s, Fresh(s))
  /\ \A s \in Sources, m \in BOOLEAN : NewRun(s, m) \in RunType
  /\ NoRequest.op = "none" /\ NoRequest.source = AnySource
  /\ NoRequest.loaded = Fresh(AnySource)
  <1>1. AnySource \in Sources
    BY ConstantsAssumption DEF AnySource
  <1>2. ASSUME NEW s \in Sources PROVE Fresh(s) \in Columns /\ InBounds(s, Fresh(s))
    BY ConstantsAssumption DEF Fresh, Columns, InBounds
  <1>3. ASSUME NEW s \in Sources, NEW m \in BOOLEAN PROVE NewRun(s, m) \in RunType
    BY <1>2 DEF NewRun, RunType
  <1> QED BY <1>1, <1>2, <1>3 DEF NoRequest

\* Flush mixes columns of two rows that are within the bounds into one that is.
LEMMA FlushOK ==
  ASSUME NEW s \in Sources,
         NEW current \in Columns, InBounds(s, current),
         NEW loaded \in Columns,
         NEW assigned \in Columns, InBounds(s, assigned)
  PROVE  /\ Flush(current, loaded, assigned) \in Columns
         /\ InBounds(s, Flush(current, loaded, assigned))
  BY DEF Flush, Columns, InBounds

\* A clean exit assigns a row within the bounds.
LEMMA ResetOK ==
  ASSUME NEW s \in Sources, NEW loaded \in Columns
  PROVE  /\ Reset(s, loaded) \in Columns
         /\ InBounds(s, Reset(s, loaded))
  BY ConstantsAssumption DEF Reset, Columns, InBounds

\* So does a failure: doubling never falls below the base nor passes the cap.
LEMMA BackOffOK ==
  ASSUME NEW s \in Sources, NEW loaded \in Columns, InBounds(s, loaded)
  PROVE  /\ BackOff(loaded) \in Columns
         /\ InBounds(s, BackOff(loaded))
  <1>1. /\ BaseInterval[s] \in Nat /\ MaxInterval \in Nat /\ 1 <= BaseInterval[s]
        /\ loaded.interval \in Nat /\ loaded.failures \in Nat
        /\ BaseInterval[s] <= loaded.interval /\ loaded.interval <= MaxInterval
    BY ConstantsAssumption DEF Columns, InBounds
  <1>2. /\ Capped(2 * loaded.interval) \in Nat
        /\ BaseInterval[s] <= Capped(2 * loaded.interval)
        /\ Capped(2 * loaded.interval) <= MaxInterval
    BY <1>1 DEF Capped
  <1> QED BY <1>1, <1>2 DEF BackOff, Columns, InBounds

\* The write-back of a run keeps the source table within the bounds.
LEMMA WriteOK ==
  ASSUME NEW s \in Sources, NEW loaded \in Columns,
         NEW assigned \in Columns, InBounds(s, assigned),
         row \in [Sources -> Columns], dueIn \in [Sources -> Nat],
         IntervalBounds, Write(s, loaded, assigned)
  PROVE  /\ row' \in [Sources -> Columns]
         /\ dueIn' \in [Sources -> Nat]
         /\ IntervalBounds'
  <1>1. /\ Flush(row[s], loaded, assigned) \in Columns
        /\ InBounds(s, Flush(row[s], loaded, assigned))
    BY FlushOK DEF IntervalBounds
  <1>2. row' = [row EXCEPT ![s] = Flush(row[s], loaded, assigned)]
    BY DEF Write
  <1>3. row' \in [Sources -> Columns]
    BY <1>1, <1>2
  <1>4. assigned.interval \in Nat /\ assigned.interval <= MaxInterval
    BY ConstantsAssumption DEF Columns, InBounds
  <1>5. dueIn' \in [Sources -> Nat] /\ \A t \in Sources : dueIn'[t] <= MaxInterval
    BY <1>4 DEF Write, IntervalBounds
  <1>6. \A t \in Sources : InBounds(t, row'[t])
    BY <1>1, <1>2 DEF IntervalBounds
  <1> QED BY <1>3, <1>5, <1>6 DEF IntervalBounds
-----------------------------------------------------------------------------
(* The initial state, and one lemma for each kind of step.                 *)

LEMMA InitOK == Init => IInv
  <1> SUFFICES ASSUME Init PROVE IInv
    OBVIOUS
  <1> USE FreshOK DEF Init
  <1>1. run \in [Runs -> RunType] /\ \A r \in Runs : run[r] = NewRun(AnySource, FALSE)
    BY DEF IdleRun
  <1>2. row \in [Sources -> Columns] /\ \A s \in Sources : InBounds(s, row[s])
    OBVIOUS
  <1>3. TypeOK
    BY <1>1, <1>2 DEF TypeOK, RunType, Places, Statuses, NoRequest
  <1>4. IntervalBounds
    BY <1>2, ConstantsAssumption DEF IntervalBounds
  <1>5. SnapshotsInBounds
    BY <1>1 DEF SnapshotsInBounds, NewRun
  <1> QED BY <1>3, <1>4, <1>5 DEF IInv

\* Moving one run to another place, with well-formed local variables.
LEMMA MoveOK ==
  ASSUME IInv, NEW r \in Runs, NEW place \in Places, Goto(r, place),
         NEW local \in RunType, InBounds(local.source, local.loaded),
         run' = [run EXCEPT ![r] = local]
  PROVE  /\ pc' \in [Runs -> Places]
         /\ run' \in [Runs -> RunType]
         /\ \A q \in Runs : InBounds(run'[q].source, run'[q].loaded)
  <1>1. pc \in [Runs -> Places] /\ run \in [Runs -> RunType]
    BY DEF IInv, TypeOK, RunType
  <1>2. \A q \in Runs : InBounds(run[q].source, run[q].loaded)
    BY DEF IInv, SnapshotsInBounds
  <1> QED BY <1>1, <1>2 DEF Goto

\* What a step of a run leaves alone stays well formed; what it changes is given.
LEMMA RunFrameOK ==
  ASSUME IInv, RunOnly,
         pc' \in [Runs -> Places], run' \in [Runs -> RunType],
         \A q \in Runs : InBounds(run'[q].source, run'[q].loaded),
         runRow' \in [Runs -> Statuses], faults' \in Nat,
         row' \in [Sources -> Columns], dueIn' \in [Sources -> Nat], IntervalBounds'
  PROVE  IInv'
  BY DEF IInv, TypeOK, SnapshotsInBounds, RunOnly, RunType

\* The same for a step that leaves the source table alone.
LEMMA SourceKeptOK ==
  ASSUME IInv, SourceKept
  PROVE  row' \in [Sources -> Columns] /\ dueIn' \in [Sources -> Nat] /\ IntervalBounds'
  BY DEF IInv, TypeOK, IntervalBounds, SourceKept

\* A run that returns.
LEMMA EndOK ==
  ASSUME IInv, NEW r \in Runs, End(r)
  PROVE  /\ pc' \in [Runs -> Places]
         /\ run' \in [Runs -> RunType]
         /\ \A q \in Runs : InBounds(run'[q].source, run'[q].loaded)
         /\ runRow' \in [Runs -> Statuses]
  <1>1. IdleRun \in RunType /\ InBounds(IdleRun.source, IdleRun.loaded)
    BY FreshOK DEF IdleRun, NewRun
  <1>2. "idle" \in Places
    BY DEF Places
  <1>3. runRow' \in [Runs -> Statuses]
    BY DEF End, IInv, TypeOK, Statuses
  <1> QED BY <1>1, <1>2, <1>3, MoveOK DEF End

\* What a run's local variables are, spelled out for the lemmas below.
LEMMA LocalOK ==
  ASSUME IInv, NEW r \in Runs
  PROVE  /\ run[r] \in RunType /\ run[r].source \in Sources
         /\ run[r].loaded \in Columns /\ InBounds(run[r].source, run[r].loaded)
         /\ row \in [Sources -> Columns] /\ dueIn \in [Sources -> Nat] /\ IntervalBounds
         /\ pc \in [Runs -> Places] /\ runRow \in [Runs -> Statuses]
         /\ run \in [Runs -> RunType] /\ faults \in Nat
  BY DEF IInv, TypeOK, SnapshotsInBounds, RunType

\* A run that moves on and changes no more than its locals and its status.
LEMMA LocalStepOK ==
  ASSUME IInv, NEW r \in Runs, NEW place \in Places, Goto(r, place),
         NEW local \in RunType, InBounds(local.source, local.loaded),
         run' = [run EXCEPT ![r] = local], RunOnly, SourceKept,
         runRow' \in [Runs -> Statuses], faults' \in Nat
  PROVE  IInv'
  BY MoveOK, RunFrameOK, SourceKeptOK

\* A run's own steps: the two commits write the source table, the rest do not.
LEMMA RunStepOK == ASSUME IInv, NEW r \in Runs, RunStep(r) PROVE IInv'
  <1> USE LocalOK
  <1>p. /\ {"new", "fetching", "resetting", "toReset", "scoring"} \subseteq Places
        /\ {"failing", "backing", "toBack"} \subseteq Places
        /\ {"running", "success", "partial", "failure"} \subseteq Statuses
    BY DEF Places, Statuses
  <1>f. Fresh(run[r].source) \in Columns /\ InBounds(run[r].source, Fresh(run[r].source))
    BY FreshOK
  <1>1. CASE StartRun(r)
    <2>1. run' = [run EXCEPT ![r] = run[r]]
      BY <1>1 DEF StartRun
    <2>2. runRow' \in [Runs -> Statuses]
      BY <1>1, <1>p DEF StartRun
    <2> QED BY <1>1, <1>p, <2>1, <2>2, LocalStepOK DEF StartRun
  <1>2. CASE RecordOutcome(r)
    <2>1. PICK ingested \in BOOLEAN, failed \in BOOLEAN :
            /\ runRow' = [runRow EXCEPT ![r] = FinalStatus(ingested, failed)]
            /\ run' = [run EXCEPT ![r].ingested = ingested]
      BY <1>2 DEF RecordOutcome
    <2> DEFINE local == [run[r] EXCEPT !.ingested = ingested]
    <2>2. /\ run' = [run EXCEPT ![r] = local] /\ local \in RunType
          /\ local.source = run[r].source /\ local.loaded = run[r].loaded
      BY <2>1 DEF RunType
    <2>3. runRow' \in [Runs -> Statuses]
      BY <2>1, <1>p DEF FinalStatus
    <2> HIDE DEF local
    <2> QED BY <1>2, <1>p, <2>2, <2>3, LocalStepOK DEF RecordOutcome
  <1>3. ASSUME NEW from \in Places, NEW to \in Places, LoadSource(r, from, to)
        PROVE  IInv'
    <2> DEFINE local == [run[r] EXCEPT !.loaded = row[run[r].source]]
    <2>1. row[run[r].source] \in Columns /\ InBounds(run[r].source, row[run[r].source])
      BY DEF IntervalBounds
    <2>2. /\ run' = [run EXCEPT ![r] = local] /\ local \in RunType
          /\ local.source = run[r].source /\ local.loaded = row[run[r].source]
      BY <1>3, <2>1 DEF LoadSource, RunType
    <2> HIDE DEF local
    <2> QED BY <1>3, <2>1, <2>2, LocalStepOK DEF LoadSource
  <1>4. CASE LoadForReset(r) \/ LoadForBackoff(r)
    BY <1>3, <1>4, <1>p DEF LoadForReset, LoadForBackoff
  <1>5. CASE CommitReset(r)
    <2> DEFINE s == run[r].source
    <2>1. row' \in [Sources -> Columns] /\ dueIn' \in [Sources -> Nat] /\ IntervalBounds'
      BY <1>5, ResetOK, WriteOK DEF CommitReset
    <2>2. CASE End(r)
      BY <1>5, <2>1, <2>2, EndOK, RunFrameOK DEF CommitReset
    <2>3. CASE /\ Goto(r, "scoring") /\ UNCHANGED runRow
               /\ run' = [run EXCEPT ![r].loaded = Fresh(run[r].source)]
      <3> DEFINE local == [run[r] EXCEPT !.loaded = Fresh(run[r].source)]
      <3>1. /\ run' = [run EXCEPT ![r] = local] /\ local \in RunType
            /\ local.source = run[r].source /\ local.loaded = Fresh(run[r].source)
        BY <2>3, <1>f DEF RunType
      <3> HIDE DEF local
      <3>2. /\ pc' \in [Runs -> Places] /\ run' \in [Runs -> RunType]
            /\ \A q \in Runs : InBounds(run'[q].source, run'[q].loaded)
        BY <2>3, <3>1, <1>f, <1>p, MoveOK
      <3> QED BY <1>5, <2>1, <2>3, <3>2, RunFrameOK DEF CommitReset
    <2> QED BY <1>5, <2>2, <2>3 DEF CommitReset
  <1>6. CASE ScoreAffected(r)
    BY <1>6, EndOK, SourceKeptOK, RunFrameOK DEF ScoreAffected
  <1>7. CASE FetchRaises(r)
    <2>1. Recover(r)
      BY <1>7 DEF FetchRaises
    <2> DEFINE local == NewRun(run[r].source, run[r].manual)
    <2>2. /\ local \in RunType /\ local.source = run[r].source
          /\ local.loaded = Fresh(run[r].source)
      BY <1>f DEF NewRun, RunType
    <2>3. Goto(r, "failing") /\ run' = [run EXCEPT ![r] = local]
      BY <2>1 DEF Recover
    <2> HIDE DEF local
    <2> QED BY <1>7, <1>p, <1>f, <2>2, <2>3, LocalStepOK DEF FetchRaises
  <1>8. CASE RecordFailure(r)
    <2>1. run' = [run EXCEPT ![r] = run[r]]
      BY <1>8 DEF RecordFailure
    <2>2. runRow' \in [Runs -> Statuses]
      BY <1>8, <1>p DEF RecordFailure
    <2> QED BY <1>8, <1>p, <2>1, <2>2, LocalStepOK DEF RecordFailure
  <1>9. CASE CommitBackoff(r)
    <2>1. row' \in [Sources -> Columns] /\ dueIn' \in [Sources -> Nat] /\ IntervalBounds'
      BY <1>9, BackOffOK, WriteOK DEF CommitBackoff
    <2> QED BY <1>9, <2>1, EndOK, RunFrameOK DEF CommitBackoff
  <1> QED BY <1>1, <1>2, <1>4, <1>5, <1>6, <1>7, <1>8, <1>9 DEF RunStep

\* Errors: the run turns to the except block, or leaves the coroutine.
LEMMA RunFaultOK ==
  ASSUME IInv, NEW r \in Runs, SessionRaises(r) \/ RunEscapes(r) PROVE IInv'
  <1> USE LocalOK
  <1>1. CASE SessionRaises(r)
    <2> DEFINE local == NewRun(run[r].source, run[r].manual)
    <2>1. /\ local \in RunType /\ local.source = run[r].source
          /\ InBounds(local.source, local.loaded)
      BY FreshOK DEF NewRun, RunType
    <2>2. Goto(r, "failing") /\ run' = [run EXCEPT ![r] = local] /\ "failing" \in Places
      BY <1>1 DEF SessionRaises, Recover, Places
    <2> HIDE DEF local
    <2>3. faults' \in Nat /\ runRow' \in [Runs -> Statuses] /\ RunOnly /\ SourceKept
      BY <1>1 DEF SessionRaises
    <2> QED BY <2>1, <2>2, <2>3, LocalStepOK
  <1>2. CASE RunEscapes(r)
    BY <1>2, EndOK, SourceKeptOK, RunFrameOK DEF RunEscapes
  <1> QED BY <1>1, <1>2

\* The tick and the clock: new runs start from well-formed local variables.
LEMMA ScheduleStepOK ==
  ASSUME IInv, Advance \/ TickSelect \/ TickDispatch \/ TickMiss PROVE IInv'
  <1>0. TypeOK /\ IntervalBounds /\ SnapshotsInBounds
    BY DEF IInv
  <1>1. CASE Advance
    <2>1. dueIn' \in [Sources -> Nat] /\ \A s \in Sources : dueIn'[s] <= dueIn[s]
      BY <1>0, <1>1 DEF Advance, TypeOK
    <2>2. TypeOK'
      BY <1>0, <1>1, <2>1 DEF Advance, TypeOK
    <2>3. \A s \in Sources : dueIn'[s] <= MaxInterval
      BY <1>0, <2>1, ConstantsAssumption DEF TypeOK, IntervalBounds
    <2> QED BY <1>0, <1>1, <2>2, <2>3 DEF Advance, IInv, IntervalBounds, SnapshotsInBounds
  <1>2. CASE TickSelect
    <2>1. TypeOK'
      BY <1>0, <1>2 DEF TickSelect, TypeOK, Due
    <2> QED BY <1>0, <1>2, <2>1 DEF TickSelect, IInv, IntervalBounds, SnapshotsInBounds
  <1>3. CASE TickDispatch
    <2>1. PICK slot \in [tick -> Idle] :
            /\ pc' = [r \in Runs |-> IF \E s \in tick : slot[s] = r THEN "new" ELSE pc[r]]
            /\ run' = [r \in Runs |-> IF \E s \in tick : slot[s] = r
                                      THEN NewRun(CHOOSE s \in tick : slot[s] = r, FALSE)
                                      ELSE run[r]]
      BY <1>3 DEF TickDispatch
    <2>2. ASSUME NEW r \in Runs
          PROVE  run'[r] \in RunType /\ InBounds(run'[r].source, run'[r].loaded)
      <3>1. CASE \E s \in tick : slot[s] = r
        <4>1. PICK s \in Sources : run'[r] = NewRun(s, FALSE)
          BY <1>0, <2>1, <3>1 DEF TypeOK
        <4>2. NewRun(s, FALSE) \in RunType /\ InBounds(s, Fresh(s))
          BY FreshOK
        <4>3. NewRun(s, FALSE).source = s /\ NewRun(s, FALSE).loaded = Fresh(s)
          BY DEF NewRun
        <4> QED BY <4>1, <4>2, <4>3
      <3>2. CASE ~\E s \in tick : slot[s] = r
        BY <1>0, <2>1, <3>2 DEF TypeOK, RunType, SnapshotsInBounds
      <3> QED BY <3>1, <3>2
    <2>3. run' \in [Runs -> RunType]
      BY <2>1, <2>2
    <2>4. pc' \in [Runs -> Places]
      BY <1>0, <2>1 DEF TypeOK, Places
    <2>5. TypeOK'
      BY <1>0, <1>3, <2>3, <2>4 DEF TickDispatch, TypeOK, RunType
    <2> QED BY <1>0, <1>3, <2>2, <2>5 DEF TickDispatch, IInv, IntervalBounds, SnapshotsInBounds
  <1>4. CASE TickMiss
    <2>1. faults' \in Nat
      BY <1>0, <1>4 DEF TickMiss, TypeOK
    <2>2. UNCHANGED <<up, tick, row, dueIn, pc, run, runRow, admin, crashes>> /\ tickDue' = FALSE
      BY <1>4 DEF TickMiss
    <2>3. TypeOK'
      BY <1>0, <2>1, <2>2 DEF TypeOK
    <2> QED BY <1>0, <2>2, <2>3 DEF TickMiss, IInv, IntervalBounds, SnapshotsInBounds
  <1> QED BY <1>1, <1>2, <1>3, <1>4

\* The operator's requests.
LEMMA AdminStepOK ==
  ASSUME IInv,
         \/ \E s \in Sources : Trigger(s) \/ \E op \in {"enable", "disable"} : LoadAdmin(op, s)
         \/ CommitAdmin
  PROVE  IInv'
  <1>0. TypeOK /\ IntervalBounds /\ SnapshotsInBounds
    BY DEF IInv
  <1>1. ASSUME NEW s \in Sources, Trigger(s) PROVE IInv'
    <2>1. PICK r \in Runs : Goto(r, "new") /\ run' = [run EXCEPT ![r] = NewRun(s, TRUE)]
      BY <1>1 DEF Trigger, Idle
    <2>2. /\ NewRun(s, TRUE) \in RunType
          /\ InBounds(NewRun(s, TRUE).source, NewRun(s, TRUE).loaded)
      BY FreshOK DEF NewRun
    <2>3. "new" \in Places
      BY DEF Places
    <2>4. /\ pc' \in [Runs -> Places] /\ run' \in [Runs -> RunType]
          /\ \A q \in Runs : InBounds(run'[q].source, run'[q].loaded)
      BY <2>1, <2>2, <2>3, MoveOK
    <2>5. TypeOK'
      BY <1>0, <1>1, <2>4 DEF Trigger, TypeOK, RunType
    <2> QED BY <1>0, <1>1, <2>4, <2>5 DEF Trigger, IInv, IntervalBounds, SnapshotsInBounds
  <1>2. ASSUME NEW s \in Sources, NEW op \in {"enable", "disable"}, LoadAdmin(op, s)
        PROVE  IInv'
    <2>1. /\ admin' = [op |-> op, source |-> s, loaded |-> row[s]]
          /\ row[s] \in Columns /\ InBounds(s, row[s])
      BY <1>0, <1>2 DEF LoadAdmin, TypeOK, IntervalBounds
    <2>2. TypeOK'
      BY <1>0, <1>2, <2>1 DEF LoadAdmin, TypeOK
    <2> QED BY <1>0, <1>2, <2>1, <2>2 DEF LoadAdmin, IInv, IntervalBounds, SnapshotsInBounds
  <1>3. CASE CommitAdmin
    <2> DEFINE s == admin.source
    <2>1. /\ s \in Sources /\ admin.loaded \in Columns /\ InBounds(s, admin.loaded)
          /\ row[s] \in Columns /\ InBounds(s, row[s])
      BY <1>0 DEF TypeOK, IntervalBounds, SnapshotsInBounds
    <2>2. PICK assigned \in Columns :
            InBounds(s, assigned) /\ row' = [row EXCEPT ![s] = Flush(row[s], admin.loaded, assigned)]
      <3>1. LET on == [Reset(s, admin.loaded) EXCEPT !.enabled = TRUE]
            IN on \in Columns /\ InBounds(s, on)
        BY <2>1, ResetOK DEF Columns, InBounds
      <3>2. LET off == [admin.loaded EXCEPT !.enabled = FALSE]
            IN off \in Columns /\ InBounds(s, off)
        BY <2>1 DEF Columns, InBounds
      <3> QED BY <1>3, <3>1, <3>2 DEF CommitAdmin
    <2>3. /\ Flush(row[s], admin.loaded, assigned) \in Columns
          /\ InBounds(s, Flush(row[s], admin.loaded, assigned))
      BY <2>1, <2>2, FlushOK
    <2>4. dueIn' \in [Sources -> Nat] /\ \A t \in Sources : dueIn'[t] <= MaxInterval
      <3>1. MaxInterval \in Nat /\ dueIn \in [Sources -> Nat]
        BY <1>0, ConstantsAssumption DEF TypeOK
      <3>2. dueIn' = [dueIn EXCEPT ![s] = 0] \/ dueIn' = dueIn
        BY <1>3 DEF CommitAdmin
      <3> QED BY <1>0, <3>1, <3>2 DEF IntervalBounds
    <2>5. row' \in [Sources -> Columns] /\ \A t \in Sources : InBounds(t, row'[t])
      BY <1>0, <2>2, <2>3 DEF TypeOK, IntervalBounds
    <2>6. admin' = NoRequest /\ UNCHANGED <<up, tickDue, tick, pc, run, runRow, faults, crashes>>
      BY <1>3 DEF CommitAdmin
    <2>7. TypeOK'
      BY <1>0, <2>4, <2>5, <2>6, FreshOK DEF TypeOK, NoRequest
    <2> QED BY <1>0, <2>4, <2>5, <2>6, <2>7, FreshOK
            DEF IInv, IntervalBounds, SnapshotsInBounds
  <1> QED BY <1>1, <1>2, <1>3

\* Crash and restart.
LEMMA ProcessStepOK == ASSUME IInv, Crash \/ Startup PROVE IInv'
  <1>0. TypeOK /\ IntervalBounds /\ SnapshotsInBounds
    BY DEF IInv
  <1>1. CASE Crash
    <2>1. IdleRun \in RunType /\ InBounds(IdleRun.source, IdleRun.loaded)
      BY FreshOK DEF IdleRun, NewRun
    <2>2. crashes' \in Nat
      BY <1>0, <1>1 DEF Crash, TypeOK
    <2>3. /\ up' = FALSE /\ tickDue' = FALSE /\ tick' = {} /\ admin' = NoRequest
          /\ pc' = [r \in Runs |-> "idle"] /\ run' = [r \in Runs |-> IdleRun]
          /\ UNCHANGED <<row, dueIn, runRow, faults>>
      BY <1>1 DEF Crash
    <2>4. pc' \in [Runs -> Places] /\ run' \in [Runs -> RunType]
      BY <2>1, <2>3 DEF Places
    <2>5. admin' \in [op : {"none", "enable", "disable"}, source : Sources, loaded : Columns]
      BY <2>3, FreshOK DEF NoRequest
    <2>6. TypeOK'
      BY <1>0, <2>2, <2>3, <2>4, <2>5 DEF TypeOK, RunType
    <2> QED BY <1>0, <2>1, <2>3, <2>6, FreshOK DEF IInv, IntervalBounds, SnapshotsInBounds
  <1>2. CASE Startup
    <2>1. PICK token \in [TokenGated -> BOOLEAN] :
            row' = [s \in Sources |->
                     [row[s] EXCEPT !.enabled = IF s \in TokenGated THEN token[s] ELSE TRUE]]
      BY <1>2 DEF Startup
    <2>2. row' \in [Sources -> Columns] /\ \A s \in Sources : row'[s].interval = row[s].interval
      BY <1>0, <2>1 DEF TypeOK, Columns
    <2>3. TypeOK'
      BY <1>0, <1>2, <2>2 DEF Startup, TypeOK
    <2> QED BY <1>0, <1>2, <2>2, <2>3
            DEF Startup, IInv, IntervalBounds, SnapshotsInBounds, InBounds
  <1> QED BY <1>1, <1>2

LEMMA NextOK == IInv /\ [Next]_vars => IInv'
  <1> SUFFICES ASSUME IInv, [Next]_vars PROVE IInv'
    OBVIOUS
  <1>1. CASE Advance \/ TickSelect \/ TickDispatch \/ TickMiss
    BY <1>1, ScheduleStepOK
  <1>2. CASE \E r \in Runs : RunStep(r) \/ SessionRaises(r) \/ RunEscapes(r)
    BY <1>2, RunStepOK, RunFaultOK
  <1>3. CASE \/ \E s \in Sources :
                Trigger(s) \/ \E op \in {"enable", "disable"} : LoadAdmin(op, s)
             \/ CommitAdmin
    BY <1>3, AdminStepOK
  <1>4. CASE Crash \/ Startup
    BY <1>4, ProcessStepOK
  <1>5. CASE UNCHANGED vars
    BY <1>5 DEF vars, IInv, TypeOK, IntervalBounds, SnapshotsInBounds
  <1> QED BY <1>1, <1>2, <1>3, <1>4, <1>5 DEF Next
-----------------------------------------------------------------------------
\* The strengthened invariant holds in every reachable state.
THEOREM Inductive == Spec => []IInv
  BY InitOK, NextOK, PTL DEF Spec

\* Every variable keeps its type.
THEOREM TypeCorrect == Spec => []TypeOK
  BY Inductive, PTL DEF IInv

\* The backoff never takes a source below its base interval nor beyond the cap,
\* and never parks it for longer than the cap, lost updates included.
THEOREM BackoffBounded == Spec => []IntervalBounds
  BY Inductive, PTL DEF IInv
-----------------------------------------------------------------------------
(* How soon a source is polled again.                                        *)

\* A source has rested for so long, or still has so long to wait, that both together
\* make its base interval.
Spaced ==
  /\ rested \in [Sources -> Nat]
  /\ \A s \in Sources : rested[s] <= BaseInterval[s] /\ BaseInterval[s] <= rested[s] + dueIn[s]

\* The wait of a source shrinks only as time passes, unless it is enabled; the end of
\* an attempt makes it an interval, however little of the row that writes.
LEMMA WaitMoves ==
  ASSUME IInv, [Next]_vars, NEW s \in Sources
  PROVE  \/ Attempted(s) /\ BaseInterval[s] <= dueIn'[s]
         \/ ~Attempted(s) /\ Enables(s) /\ dueIn'[s] = 0
         \/ /\ ~Attempted(s) /\ ~Enables(s) /\ Advance
            /\ dueIn'[s] = IF dueIn[s] = 0 THEN 0 ELSE dueIn[s] - 1
         \/ ~Attempted(s) /\ ~Enables(s) /\ dueIn'[s] = dueIn[s]
  <1>0. dueIn \in [Sources -> Nat]
    BY DEF IInv, TypeOK
  <1>1. CASE Attempted(s)
    <2>1. PICK r \in Runs : run[r].source = s /\ (CommitReset(r) \/ CommitBackoff(r))
      BY <1>1 DEF Attempted
    <2>2. InBounds(s, Reset(s, run[r].loaded)) /\ Reset(s, run[r].loaded).interval \in Nat
      BY <2>1, LocalOK, ResetOK DEF Columns
    <2>3. InBounds(s, BackOff(run[r].loaded)) /\ BackOff(run[r].loaded).interval \in Nat
      BY <2>1, LocalOK, BackOffOK DEF Columns
    <2>4. \/ dueIn'[s] = Reset(s, run[r].loaded).interval
          \/ dueIn'[s] = BackOff(run[r].loaded).interval
      BY <1>0, <2>1 DEF CommitReset, CommitBackoff, Write
    <2> QED BY <1>1, <2>2, <2>3, <2>4, ConstantsAssumption DEF InBounds
  <1>2. CASE ~Attempted(s) /\ Enables(s)
    BY <1>0, <1>2 DEF Enables, CommitAdmin
  <1>3. CASE ~Attempted(s) /\ ~Enables(s)
    <2>1. ASSUME NEW r \in Runs, RunStep(r) \/ SessionRaises(r) \/ RunEscapes(r)
          PROVE  dueIn'[s] = dueIn[s]
      <3>1. CASE CommitReset(r) \/ CommitBackoff(r)
        <4>1. run[r].source # s
          BY <1>3, <3>1 DEF Attempted
        <4> QED BY <1>0, <3>1, <4>1 DEF CommitReset, CommitBackoff, Write
      <3>2. CASE ~(CommitReset(r) \/ CommitBackoff(r))
        BY <2>1, <3>2 DEF RunStep, StartRun, RecordOutcome, LoadForReset, ScoreAffected,
           FetchRaises, RecordFailure, LoadForBackoff, LoadSource, SessionRaises, RunEscapes,
           SourceKept
      <3> QED BY <3>1, <3>2
    <2>2. CASE Advance
      BY <1>0, <1>3, <2>2 DEF Advance
    <2>3. CASE CommitAdmin
      <3>1. dueIn' = dueIn \/ (admin.source # s /\ dueIn' = [dueIn EXCEPT ![admin.source] = 0])
        BY <1>3, <2>3 DEF CommitAdmin, Enables
      <3> QED BY <1>0, <1>3, <3>1
    <2>4. CASE \/ TickSelect \/ TickDispatch \/ TickMiss \/ Crash \/ Startup \/ UNCHANGED vars
               \/ \E t \in Sources : \/ Trigger(t)
                                    \/ \E op \in {"enable", "disable"} : LoadAdmin(op, t)
      BY <1>3, <2>4 DEF TickSelect, TickDispatch, TickMiss, Crash, Startup, Trigger, LoadAdmin, vars
    <2> QED BY <1>3, <2>1, <2>2, <2>3, <2>4 DEF Next
  <1> QED BY <1>1, <1>2, <1>3

LEMMA StepKeepsSpaced ==
  ASSUME IInv, IInv', Spaced, [HistoryNext]_historyVars PROVE Spaced'
  <1>1. BaseInterval \in [Sources -> Nat] /\ dueIn \in [Sources -> Nat] /\ dueIn' \in [Sources -> Nat]
    BY ConstantsAssumption DEF IInv, TypeOK
  <1>2. CASE UNCHANGED historyVars
    BY <1>2 DEF historyVars, vars, Spaced
  <1>3. CASE HistoryNext
    <2>1. [Next]_vars
      BY <1>3 DEF HistoryNext
    <2>2. rested' = [s \in Sources |->
                      IF Attempted(s) THEN 0
                      ELSE IF Enables(s) \/ rested[s] = BaseInterval[s] THEN BaseInterval[s]
                      ELSE IF Advance THEN rested[s] + 1 ELSE rested[s]]
      BY <1>3 DEF HistoryNext
    <2>3. ASSUME NEW s \in Sources
          PROVE  /\ rested'[s] \in Nat /\ rested'[s] <= BaseInterval[s]
                 /\ BaseInterval[s] <= rested'[s] + dueIn'[s]
      <3>1. /\ rested[s] \in Nat /\ rested[s] <= BaseInterval[s]
            /\ BaseInterval[s] <= rested[s] + dueIn[s]
            /\ BaseInterval[s] \in Nat /\ dueIn[s] \in Nat /\ dueIn'[s] \in Nat
        BY <1>1 DEF Spaced
      <3> QED BY <2>1, <2>2, <3>1, WaitMoves
    <2> QED BY <2>2, <2>3 DEF Spaced
  <1> QED BY <1>2, <1>3

\* No source is selected sooner than its base interval after any run of it has written
\* its outcome, unless it is enabled: for all intervals and operators, however many runs
\* overlap, fail, crash and lose each other's updates.
THEOREM SpacedPolls == HistorySpec => PollsAreSpaced
  <1>1. HistoryInit => Init /\ Spaced
    BY ConstantsAssumption DEF HistoryInit, Init, Spaced
  <1>2. [HistoryNext]_historyVars => [Next]_vars
    BY DEF HistoryNext, historyVars
  <1>3. IInv /\ IInv' /\ Spaced /\ [HistoryNext]_historyVars => Spaced'
    BY StepKeepsSpaced
  <1>4. IInv /\ Spaced /\ [HistoryNext]_historyVars =>
          [\A s \in tick' \ tick : rested[s] = BaseInterval[s]]_historyVars
    <2> SUFFICES ASSUME IInv, Spaced, HistoryNext, NEW s \in tick' \ tick
                 PROVE  rested[s] = BaseInterval[s]
      OBVIOUS
    <2>1. s \in Due
      <3>1. CASE TickSelect
        BY <3>1 DEF TickSelect
      <3>2. CASE UNCHANGED tick \/ tick' = {}
        BY <3>2
      <3>3. TickSelect \/ UNCHANGED tick \/ tick' = {}
        BY DEF HistoryNext, Next, Advance, TickDispatch, TickMiss, RunStep, StartRun, RecordOutcome,
           LoadForReset, LoadForBackoff, LoadSource, CommitReset, ScoreAffected, FetchRaises,
           RecordFailure, CommitBackoff, SessionRaises, RunEscapes, RunOnly, Trigger, LoadAdmin,
           CommitAdmin, Crash, Startup
      <3> QED BY <3>1, <3>2, <3>3
    <2>2. s \in Sources /\ dueIn[s] = 0
      BY <2>1 DEF Due
    <2>3. rested[s] \in Nat /\ BaseInterval[s] \in Nat
      BY <2>2, ConstantsAssumption DEF Spaced
    <2> QED BY <2>2, <2>3 DEF Spaced
  <1> QED BY <1>1, <1>2, <1>3, <1>4, Inductive, PTL DEF Spec, HistorySpec, PollsAreSpaced
-----------------------------------------------------------------------------
\* What EnabledOnlyByOperator allows for one source in one step.
EnabledStep(s) ==
  row'[s].enabled # row[s].enabled =>
    ~up \/ (admin.op # "none" /\ admin.source = s /\ admin' = NoRequest)

\* A run writes its source's row back without touching `enabled`: it assigns
\* the value it loaded, so the column is not in the UPDATE.
LEMMA WriteKeepsEnabled ==
  ASSUME TypeOK, NEW s \in Sources, NEW loaded, NEW assigned,
         assigned.enabled = loaded.enabled, Write(s, loaded, assigned)
  PROVE  \A t \in Sources : row'[t].enabled = row[t].enabled
  BY DEF TypeOK, Write, Flush

LEMMA RunKeepsEnabled ==
  ASSUME IInv, NEW r \in Runs, RunStep(r) \/ SessionRaises(r) \/ RunEscapes(r)
  PROVE  \A s \in Sources : row'[s].enabled = row[s].enabled
  <1> DEFINE s == run[r].source
  <1>0. TypeOK /\ s \in Sources
    BY DEF IInv, TypeOK
  <1>1. CASE CommitReset(r)
    <2>1. Reset(s, run[r].loaded).enabled = run[r].loaded.enabled
      BY DEF Reset
    <2> QED BY <1>0, <1>1, <2>1, WriteKeepsEnabled DEF CommitReset
  <1>2. CASE CommitBackoff(r)
    <2>1. BackOff(run[r].loaded).enabled = run[r].loaded.enabled
      BY DEF BackOff
    <2> QED BY <1>0, <1>2, <2>1, WriteKeepsEnabled DEF CommitBackoff
  <1>3. CASE UNCHANGED row
    BY <1>3
  <1>4. CommitReset(r) \/ CommitBackoff(r) \/ UNCHANGED row
    BY DEF RunStep, StartRun, RecordOutcome, LoadForReset, LoadForBackoff, LoadSource,
           ScoreAffected, FetchRaises, RecordFailure, SessionRaises, RunEscapes, SourceKept
  <1> QED BY <1>1, <1>2, <1>3, <1>4

LEMMA StepKeepsEnabled ==
  ASSUME IInv, [Next]_vars, NEW s \in Sources PROVE EnabledStep(s)
  <1>1. CASE \E r \in Runs : RunStep(r) \/ SessionRaises(r) \/ RunEscapes(r)
    BY <1>1, RunKeepsEnabled DEF EnabledStep
  <1>2. CASE CommitAdmin
    <2>1. admin.op # "none" /\ admin' = NoRequest
      BY <1>2 DEF CommitAdmin
    <2>2. admin.source # s => row'[s] = row[s]
      BY <1>2 DEF CommitAdmin, IInv, TypeOK
    <2> QED BY <2>1, <2>2 DEF EnabledStep
  <1>3. CASE Startup
    BY <1>3 DEF Startup, EnabledStep
  <1>4. CASE UNCHANGED row
    BY <1>4 DEF EnabledStep
  <1>5. CASE \E t \in Sources :
               Trigger(t) \/ \E op \in {"enable", "disable"} : LoadAdmin(op, t)
    BY <1>4, <1>5 DEF Trigger, LoadAdmin
  <1>6. CASE Advance \/ TickSelect \/ TickDispatch \/ TickMiss \/ Crash
    BY <1>4, <1>6 DEF Advance, TickSelect, TickDispatch, TickMiss, Crash
  <1> QED BY <1>1, <1>2, <1>3, <1>4, <1>5, <1>6 DEF Next, vars

\* Runs, ticks and crashes never switch a source on or off: whatever they had
\* loaded before an operator disabled it, `enabled` is not written back.
THEOREM OnlyOperatorsEnable == Spec => EnabledOnlyByOperator
  <1>1. IInv /\ [Next]_vars => [\A s \in Sources : EnabledStep(s)]_vars
    BY StepKeepsEnabled
  <1>2. IInv /\ [Next]_vars =>
          [\A s \in Sources : row'[s].enabled # row[s].enabled =>
             ~up \/ (admin.op # "none" /\ admin.source = s /\ admin' = NoRequest)]_vars
    BY <1>1 DEF EnabledStep
  <1> QED BY <1>2, Inductive, PTL DEF Spec, EnabledOnlyByOperator
-----------------------------------------------------------------------------
(* The rows of collector_run.  While nothing has failed outside the fetch,   *)
(* every place of a run says what the status of its row is.                  *)

\* The slots a tick or an operator gives away are idle, and so is the row's status.
LEMMA NewRunsAreIdle ==
  ASSUME TypeOK, TickDispatch \/ \E s \in Sources : Trigger(s), NEW r \in Runs
  PROVE  pc'[r] = pc[r] \/ (pc[r] = "idle" /\ pc'[r] = "new")
  <1>1. CASE TickDispatch
    BY <1>1 DEF TickDispatch, Idle, TypeOK
  <1>2. CASE \E s \in Sources : Trigger(s)
    BY <1>2 DEF Trigger, Idle, Goto, TypeOK
  <1> QED BY <1>1, <1>2

LEMMA RunStepKeepsLive ==
  ASSUME TypeOK, RunningRowsAreLive, NEW r \in Runs, RunStep(r)
  PROVE  RunningRowsAreLive'
  <1> SUFFICES ASSUME crashes = 0, faults = 0, NEW q \in Runs
               PROVE  runRow'[q] = "running" <=> pc'[q] \in {"fetching", "failing"}
    <2>1. UNCHANGED <<crashes, faults>>
      BY DEF RunStep, StartRun, RecordOutcome, LoadForReset, LoadForBackoff, LoadSource,
             CommitReset, ScoreAffected, FetchRaises, RecordFailure, CommitBackoff, RunOnly
    <2> QED BY <2>1 DEF RunningRowsAreLive
  <1>0. /\ runRow[q] = "running" <=> pc[q] \in {"fetching", "failing"}
        /\ runRow[r] = "running" <=> pc[r] \in {"fetching", "failing"}
        /\ pc \in [Runs -> Places] /\ runRow \in [Runs -> Statuses]
    BY DEF RunningRowsAreLive, TypeOK
  <1>1. CASE StartRun(r)
    BY <1>0, <1>1 DEF StartRun, Goto
  <1>2. CASE RecordOutcome(r)
    BY <1>0, <1>2 DEF RecordOutcome, Goto, FinalStatus
  <1>3. CASE LoadForReset(r) \/ LoadForBackoff(r)
    BY <1>0, <1>3 DEF LoadForReset, LoadForBackoff, LoadSource, Goto
  <1>4. CASE CommitReset(r) \/ ScoreAffected(r) \/ CommitBackoff(r)
    BY <1>0, <1>4 DEF CommitReset, ScoreAffected, CommitBackoff, End, Goto
  <1>5. CASE FetchRaises(r)
    BY <1>0, <1>5 DEF FetchRaises, Recover, Goto
  <1>6. CASE RecordFailure(r)
    BY <1>0, <1>6 DEF RecordFailure, Goto
  <1> QED BY <1>1, <1>2, <1>3, <1>4, <1>5, <1>6 DEF RunStep

LEMMA StepKeepsLive ==
  ASSUME TypeOK, RunningRowsAreLive, [Next]_vars
  PROVE  RunningRowsAreLive'
  <1>1. ASSUME NEW r \in Runs, RunStep(r) PROVE RunningRowsAreLive'
    BY <1>1, RunStepKeepsLive
  <1>2. CASE Crash \/ TickMiss \/ \E r \in Runs : SessionRaises(r) \/ RunEscapes(r)
    <2>1. crashes' # 0 \/ faults' # 0
      BY <1>2 DEF Crash, TickMiss, SessionRaises, RunEscapes, TypeOK
    <2> QED BY <2>1 DEF RunningRowsAreLive
  <1>3. CASE TickDispatch \/ \E s \in Sources : Trigger(s)
    <2>1. UNCHANGED <<runRow, faults, crashes>>
      BY <1>3 DEF TickDispatch, Trigger
    <2> QED BY <1>3, <2>1, NewRunsAreIdle DEF RunningRowsAreLive
  <1>4. CASE UNCHANGED <<pc, runRow, faults, crashes>>
    BY <1>4 DEF RunningRowsAreLive
  <1>5. CASE \/ Advance \/ TickSelect \/ CommitAdmin \/ Startup \/ UNCHANGED vars
            \/ \E s \in Sources : \E op \in {"enable", "disable"} : LoadAdmin(op, s)
    BY <1>4, <1>5 DEF Advance, TickSelect, CommitAdmin, Startup, LoadAdmin, vars
  <1> QED BY <1>1, <1>2, <1>3, <1>5 DEF Next

\* As long as the process and the database hold, a collector_run row that says
\* `running` is that of a run in flight, and no run in flight whose outcome is open
\* is without one: no path through run() forgets to record how it ended.
THEOREM RowsAreLive == Spec => []RunningRowsAreLive
  <1>1. Init => RunningRowsAreLive
    BY DEF Init, RunningRowsAreLive
  <1> QED BY <1>1, StepKeepsLive, TypeCorrect, PTL DEF Spec
-----------------------------------------------------------------------------
(* One run of a source at a time.                                            *)

SingleRun ==
  \A q, r \in Runs :
    pc[q] # "idle" /\ pc[r] # "idle" /\ run[q].source = run[r].source => q = r

\* Runs start from what a tick has selected.  If the clock does not go on while they
\* are in flight, there is none when the next tick is due.
TicksFindIdle ==
  /\ tickDue \/ tick # {} => Idle = Runs
  /\ tickDue => tick = {}

\* A step of a run leaves its source alone or ends it.
LEMMA RunKeepsSource ==
  ASSUME TypeOK, NEW r \in Runs, RunStep(r) \/ SessionRaises(r) \/ RunEscapes(r),
         NEW q \in Runs
  PROVE  /\ pc[r] # "idle"
         /\ pc'[q] # "idle" => pc[q] # "idle" /\ run'[q].source = run[q].source
         /\ UNCHANGED <<tickDue, tick>>
  <1> USE DEF Goto, RunOnly, TypeOK
  <1>1. CASE StartRun(r) \/ RecordOutcome(r) \/ RecordFailure(r)
    BY <1>1 DEF StartRun, RecordOutcome, RecordFailure
  <1>2. CASE LoadForReset(r) \/ LoadForBackoff(r)
    BY <1>2 DEF LoadForReset, LoadForBackoff, LoadSource
  <1>3. CASE CommitReset(r)
    BY <1>3 DEF CommitReset, End
  <1>4. CASE ScoreAffected(r) \/ CommitBackoff(r) \/ RunEscapes(r)
    BY <1>4 DEF ScoreAffected, CommitBackoff, RunEscapes, End
  <1>5. CASE FetchRaises(r) \/ SessionRaises(r)
    BY <1>5 DEF FetchRaises, SessionRaises, Recover, NewRun
  <1> QED BY <1>1, <1>2, <1>3, <1>4, <1>5 DEF RunStep

\* A tick starts one run for each source it has selected.
LEMMA DispatchIsSingle ==
  ASSUME TypeOK, Idle = Runs, TickDispatch PROVE SingleRun'
  <1>1. PICK slot \in [tick -> Idle] :
          /\ \A s, t \in tick : slot[s] = slot[t] => s = t
          /\ pc' = [r \in Runs |-> IF \E s \in tick : slot[s] = r THEN "new" ELSE pc[r]]
          /\ run' = [r \in Runs |-> IF \E s \in tick : slot[s] = r
                                    THEN NewRun(CHOOSE s \in tick : slot[s] = r, FALSE)
                                    ELSE run[r]]
    BY DEF TickDispatch
  <1>2. ASSUME NEW r \in Runs, pc'[r] # "idle"
        PROVE  run'[r].source \in tick /\ slot[run'[r].source] = r
    <2>1. \E s \in tick : slot[s] = r
      BY <1>1, <1>2 DEF Idle
    <2> DEFINE s == CHOOSE t \in tick : slot[t] = r
    <2>2. s \in tick /\ slot[s] = r
      BY <2>1
    <2>3. run'[r].source = s
      BY <1>1, <2>1 DEF NewRun
    <2> QED BY <2>2, <2>3
  <1> QED BY <1>2 DEF SingleRun

LEMMA StepKeepsSingle ==
  ASSUME ~Overlap, "trigger" \notin AdminOps,
         TypeOK, SingleRun, TicksFindIdle, [Next]_vars
  PROVE  SingleRun' /\ TicksFindIdle'
  <1>1. ASSUME NEW r \in Runs, RunStep(r) \/ SessionRaises(r) \/ RunEscapes(r)
        PROVE  SingleRun' /\ TicksFindIdle'
    <2>1. pc[r] # "idle" /\ UNCHANGED <<tickDue, tick>>
      BY <1>1, RunKeepsSource
    <2>2. ~(tickDue \/ tick # {})
      BY <2>1 DEF TicksFindIdle, Idle
    <2>3. \A q \in Runs :
            pc'[q] # "idle" => pc[q] # "idle" /\ run'[q].source = run[q].source
      BY <1>1, RunKeepsSource
    <2> QED BY <2>1, <2>2, <2>3 DEF SingleRun, TicksFindIdle
  <1>2. CASE TickDispatch
    <2>1. Idle = Runs /\ ~tickDue'
      BY <1>2 DEF TickDispatch, TicksFindIdle, TypeOK
    <2>2. ~tickDue' /\ tick' = {}
      BY <1>2, <2>1 DEF TickDispatch
    <2> QED BY <1>2, <2>1, <2>2, DispatchIsSingle DEF TicksFindIdle
  <1>3. CASE Advance \/ TickSelect
    <2>1. /\ Idle = Runs /\ UNCHANGED <<pc, run>>
          /\ tickDue' => tick' = {}
      BY <1>3 DEF Advance, TickSelect, TicksFindIdle
    <2> QED BY <2>1 DEF SingleRun, TicksFindIdle, Idle
  <1>4. CASE Crash
    BY <1>4 DEF Crash, SingleRun, TicksFindIdle
  <1>5. CASE UNCHANGED <<pc, run, tick>> /\ (tickDue' => tickDue)
    BY <1>5 DEF SingleRun, TicksFindIdle, Idle
  <1>6. CASE \/ TickMiss \/ CommitAdmin \/ Startup \/ UNCHANGED vars
            \/ \E s \in Sources : \E op \in {"enable", "disable"} : LoadAdmin(op, s)
    <2>1. UNCHANGED <<pc, run, tick>> /\ (tickDue' = tickDue \/ tickDue' = FALSE)
      BY <1>6 DEF TickMiss, CommitAdmin, Startup, LoadAdmin, vars
    <2> QED BY <1>5, <2>1
  <1>7. ~\E s \in Sources : Trigger(s)
    BY DEF Trigger
  <1> QED BY <1>1, <1>2, <1>3, <1>4, <1>6, <1>7 DEF Next

\* What the two assumptions come to: a run has its source's row to itself.
LEMMA OneRunPerSource ==
  ASSUME ~Overlap, "trigger" \notin AdminOps
  PROVE  Spec => []SingleRun
  <1>1. Init => SingleRun /\ TicksFindIdle
    BY DEF Init, SingleRun, TicksFindIdle
  <1>2. TypeOK /\ SingleRun /\ TicksFindIdle /\ [Next]_vars => SingleRun' /\ TicksFindIdle'
    BY StepKeepsSingle
  <1> QED BY <1>1, <1>2, TypeCorrect, PTL DEF Spec
-----------------------------------------------------------------------------
(* Without overlap, and while nothing but fetches fails, the schedule is the *)
(* backoff of SourceBackoff.  A run writes what it has computed from its     *)
(* load into the row it has loaded, since nobody else has written failures   *)
(* or interval in between: an operator who disables writes neither.          *)

Serial == ~Overlap /\ AdminOps \subseteq {"disable"} /\ MaxFaults = 0

\* An attempt that has not been accounted for yet is one of a source that is due.
AttemptsAreDue ==
  /\ \A s \in tick : dueIn[s] = 0
  /\ \A r \in Runs : pc[r] \notin {"idle", "scoring"} => dueIn[run[r].source] = 0

SnapshotsAreCurrent ==
  \A r \in Runs : pc[r] \in {"toReset", "toBack"} =>
    /\ run[r].loaded.failures = row[run[r].source].failures
    /\ run[r].loaded.interval = row[run[r].source].interval

SInv ==
  /\ IInv /\ SingleRun /\ TicksFindIdle
  /\ AttemptsAreDue /\ SnapshotsAreCurrent
  /\ faults = 0 /\ admin.op \in {"none", "disable"}

\* What SourceBackoff sees of a step is its effect on these.
SameSchedule(s) ==
  /\ row'[s].failures = row[s].failures
  /\ row'[s].interval = row[s].interval
  /\ dueIn'[s] = dueIn[s]

\* What a run in flight relies on stays, if the rows of its source and it stay.
LEMMA Undisturbed ==
  ASSUME SInv, SingleRun', TicksFindIdle', IInv', faults' = 0, admin'.op \in {"none", "disable"},
         \A s \in tick' : dueIn'[s] = 0,
         \A r \in Runs : pc'[r] # "idle" =>
           \/ /\ pc'[r] = pc[r] /\ run'[r] = run[r] /\ SameSchedule(run[r].source)
           \/ /\ pc'[r] # "scoring" => dueIn'[run'[r].source] = 0
              /\ pc'[r] \in {"toReset", "toBack"} =>
                   /\ run'[r].loaded.failures = row'[run'[r].source].failures
                   /\ run'[r].loaded.interval = row'[run'[r].source].interval
  PROVE  SInv'
  <1>1. AttemptsAreDue'
    BY DEF AttemptsAreDue, SInv, SameSchedule
  <1>2. SnapshotsAreCurrent'
    BY DEF SnapshotsAreCurrent, SInv, SameSchedule
  <1> QED BY <1>1, <1>2 DEF SInv

\* The steps of a run that write nothing.
LEMMA RunQuiet ==
  ASSUME Serial, SInv, NEW r \in Runs,
         \/ StartRun(r) \/ RecordOutcome(r) \/ LoadForReset(r) \/ ScoreAffected(r)
         \/ FetchRaises(r) \/ RecordFailure(r) \/ LoadForBackoff(r)
  PROVE  SInv' /\ UNCHANGED <<row, dueIn>>
  <1>1. TypeOK /\ [Next]_vars
    BY DEF SInv, IInv, Next, RunStep
  <1>2. IInv' /\ SingleRun' /\ TicksFindIdle'
    BY <1>1, NextOK, StepKeepsSingle DEF SInv, Serial
  <1>3. /\ UNCHANGED <<row, dueIn, tick, admin, faults>>
        /\ \A q \in Runs \ {r} : pc'[q] = pc[q] /\ run'[q] = run[q]
    BY <1>1 DEF TypeOK, StartRun, RecordOutcome, LoadForReset, LoadForBackoff, LoadSource, ScoreAffected,
           FetchRaises, RecordFailure, Recover, End, Goto, RunOnly, SourceKept
  <1>4. \/ pc'[r] = "idle"
        \/ /\ pc[r] \notin {"idle", "scoring"} /\ run'[r].source = run[r].source
           /\ pc'[r] \in {"toReset", "toBack"} => run'[r].loaded = row[run[r].source]
    <2>1. CASE StartRun(r) \/ RecordOutcome(r) \/ RecordFailure(r)
      BY <1>1, <2>1 DEF TypeOK, StartRun, RecordOutcome, RecordFailure, Goto
    <2>2. CASE LoadForReset(r) \/ LoadForBackoff(r)
      BY <1>1, <2>2 DEF TypeOK, LoadForReset, LoadForBackoff, LoadSource, Goto
    <2>3. CASE FetchRaises(r)
      BY <1>1, <2>3 DEF TypeOK, FetchRaises, Recover, Goto, NewRun
    <2>4. CASE ScoreAffected(r)
      BY <1>1, <2>4 DEF TypeOK, ScoreAffected, End, Goto
    <2> QED BY <2>1, <2>2, <2>3, <2>4
  <1>5. dueIn[run[r].source] = 0 \/ pc'[r] = "idle"
    BY <1>4 DEF SInv, AttemptsAreDue
  <1> QED BY <1>2, <1>3, <1>4, <1>5, Undisturbed DEF SInv, AttemptsAreDue, SameSchedule

\* The writes: what is assigned replaces what is in the row, and ends the wait.
LEMMA WritesAll ==
  ASSUME TypeOK, NEW s \in Sources, NEW loaded \in Columns, NEW assigned \in Columns,
         loaded.failures = row[s].failures, loaded.interval = row[s].interval,
         Write(s, loaded, assigned)
  PROVE  /\ row'[s].failures = assigned.failures /\ row'[s].interval = assigned.interval
         /\ dueIn'[s] = assigned.interval
         /\ \A t \in Sources \ {s} : SameSchedule(t)
  BY DEF TypeOK, Write, Flush, SameSchedule, Columns

LEMMA RunWrites ==
  ASSUME Serial, SInv, NEW r \in Runs, CommitReset(r) \/ CommitBackoff(r)
  PROVE  LET s == run[r].source
             assigned == IF pc[r] = "toReset" THEN Reset(s, run[r].loaded)
                                              ELSE BackOff(run[r].loaded)
         IN /\ SInv'
            /\ s \in Sources /\ dueIn[s] = 0
            /\ run[r].loaded.failures = row[s].failures /\ run[r].loaded.interval = row[s].interval
            /\ row'[s].failures = assigned.failures /\ row'[s].interval = assigned.interval
            /\ dueIn'[s] = assigned.interval
            /\ \A t \in Sources \ {s} : SameSchedule(t)
  <1> DEFINE s == run[r].source
             assigned == IF pc[r] = "toReset" THEN Reset(s, run[r].loaded)
                                              ELSE BackOff(run[r].loaded)
  <1>1. /\ TypeOK /\ [Next]_vars /\ s \in Sources /\ run[r].loaded \in Columns
        /\ InBounds(s, run[r].loaded) /\ pc[r] \in {"toReset", "toBack"}
    BY DEF SInv, IInv, SnapshotsInBounds, TypeOK, Next, RunStep, CommitReset, CommitBackoff
  <1>2. IInv' /\ SingleRun' /\ TicksFindIdle'
    BY <1>1, NextOK, StepKeepsSingle DEF SInv, Serial
  <1>3. /\ dueIn[s] = 0
        /\ run[r].loaded.failures = row[s].failures /\ run[r].loaded.interval = row[s].interval
    BY <1>1 DEF SInv, AttemptsAreDue, SnapshotsAreCurrent
  <1>4. assigned \in Columns
    BY <1>1, ResetOK, BackOffOK
  <1>5. Write(s, run[r].loaded, assigned)
    BY DEF CommitReset, CommitBackoff
  <1> HIDE DEF assigned
  <1>6. /\ row'[s].failures = assigned.failures /\ row'[s].interval = assigned.interval
        /\ dueIn'[s] = assigned.interval
        /\ \A t \in Sources \ {s} : SameSchedule(t)
    BY <1>1, <1>3, <1>4, <1>5, WritesAll
  <1>7. /\ UNCHANGED <<tick, admin, faults>>
        /\ pc'[r] \in {"idle", "scoring"}
        /\ \A q \in Runs \ {r} : pc'[q] = pc[q] /\ run'[q] = run[q]
    BY <1>1 DEF TypeOK, CommitReset, CommitBackoff, End, Goto, RunOnly
  <1>8. tick = {}
    BY <1>1 DEF SInv, TicksFindIdle, Idle
  <1>9. ASSUME NEW q \in Runs \ {r}, pc[q] # "idle" PROVE SameSchedule(run[q].source)
    <2>1. run[q].source \in Sources \ {s}
      BY <1>1, <1>9 DEF SInv, SingleRun, TypeOK
    <2> QED BY <1>6, <2>1
  <1>10. SInv'
    BY <1>2, <1>7, <1>8, <1>9, Undisturbed DEF SInv
  <1> QED BY <1>1, <1>3, <1>6, <1>10 DEF assigned

\* The other steps but the clock's leave the schedule of every source alone.
LEMMA OtherSteps ==
  ASSUME Serial, SInv,
         \/ TickSelect \/ TickDispatch \/ Crash \/ Startup \/ CommitAdmin
         \/ \E s \in Sources : \E op \in {"enable", "disable"} : LoadAdmin(op, s)
  PROVE  SInv' /\ \A s \in Sources : SameSchedule(s)
  <1>1. TypeOK /\ [Next]_vars
    BY DEF SInv, IInv, Next
  <1>2. IInv' /\ SingleRun' /\ TicksFindIdle'
    BY <1>1, NextOK, StepKeepsSingle DEF SInv, Serial
  <1>3. ASSUME NEW r \in Runs PROVE run[r].source \in Sources
    BY <1>1 DEF TypeOK
  <1>4. CASE TickSelect
    <2>1. UNCHANGED <<row, dueIn, pc, run, admin, faults>> /\ \A s \in tick' : dueIn'[s] = 0
      BY <1>4 DEF TickSelect, Due
    <2> QED BY <1>2, <1>3, <2>1, Undisturbed DEF SInv, SameSchedule
  <1>5. CASE TickDispatch
    <2>1. UNCHANGED <<row, dueIn, admin, faults>> /\ tick' = {}
      BY <1>5 DEF TickDispatch
    <2>2. PICK slot \in [tick -> Idle] :
            /\ pc' = [r \in Runs |-> IF \E s \in tick : slot[s] = r THEN "new" ELSE pc[r]]
            /\ run' = [r \in Runs |-> IF \E s \in tick : slot[s] = r
                                      THEN NewRun(CHOOSE s \in tick : slot[s] = r, FALSE)
                                      ELSE run[r]]
      BY <1>5 DEF TickDispatch
    <2>3. ASSUME NEW r \in Runs, \E s \in tick : slot[s] = r
          PROVE  pc'[r] = "new" /\ run'[r].source \in tick
      <3>1. (CHOOSE s \in tick : slot[s] = r) \in tick
        BY <2>3
      <3> QED BY <2>2, <2>3, <3>1 DEF NewRun
    <2>4. ASSUME NEW r \in Runs, ~\E s \in tick : slot[s] = r
          PROVE  pc'[r] = pc[r] /\ run'[r] = run[r]
      BY <2>2, <2>4
    <2>5. \A s \in Sources : SameSchedule(s)
      BY <2>1 DEF SameSchedule
    <2>6. \A s \in tick : dueIn'[s] = 0
      BY <2>1 DEF SInv, AttemptsAreDue
    <2> QED BY <1>2, <1>3, <2>1, <2>3, <2>4, <2>5, <2>6, Undisturbed DEF SInv
  <1>6. CASE Crash
    <2>1. /\ UNCHANGED <<row, dueIn, faults>> /\ tick' = {} /\ admin'.op = "none"
          /\ \A r \in Runs : pc'[r] = "idle"
      BY <1>6, FreshOK DEF Crash
    <2> QED BY <1>2, <2>1, Undisturbed DEF SInv, SameSchedule
  <1>7. CASE Startup
    <2>1. PICK token \in [TokenGated -> BOOLEAN] :
            row' = [s \in Sources |->
                     [row[s] EXCEPT !.enabled = IF s \in TokenGated THEN token[s] ELSE TRUE]]
      BY <1>7 DEF Startup
    <2>2. \A s \in Sources : row'[s].failures = row[s].failures
                          /\ row'[s].interval = row[s].interval
      BY <1>1, <2>1 DEF TypeOK, Columns
    <2>3. UNCHANGED <<dueIn, tick, pc, run, admin, faults>>
      BY <1>7 DEF Startup
    <2>4. \A s \in Sources : SameSchedule(s)
      BY <2>2, <2>3 DEF SameSchedule
    <2>5. \A s \in tick : dueIn'[s] = 0
      BY <2>3 DEF SInv, AttemptsAreDue
    <2> QED BY <1>2, <1>3, <2>3, <2>4, <2>5, Undisturbed DEF SInv
  <1>8. CASE CommitAdmin
    <2>1. admin.op = "disable" /\ admin.source \in Sources /\ admin.loaded \in Columns
      BY <1>1, <1>8 DEF CommitAdmin, SInv, TypeOK
    <2>2. /\ UNCHANGED <<dueIn, tick, pc, run, faults>> /\ admin'.op = "none"
          /\ row' = [row EXCEPT ![admin.source] =
                      Flush(row[admin.source], admin.loaded, [admin.loaded EXCEPT !.enabled = FALSE])]
      BY <1>8, <2>1, FreshOK DEF CommitAdmin
    <2>3. \A s \in Sources : SameSchedule(s)
      BY <1>1, <2>1, <2>2 DEF SameSchedule, Flush, TypeOK, Columns
    <2>4. \A s \in tick : dueIn'[s] = 0
      BY <2>2 DEF SInv, AttemptsAreDue
    <2> QED BY <1>2, <1>3, <2>2, <2>3, <2>4, Undisturbed DEF SInv
  <1>9. ASSUME NEW s \in Sources, NEW op \in {"enable", "disable"}, LoadAdmin(op, s)
        PROVE  SInv' /\ \A t \in Sources : SameSchedule(t)
    <2>1. UNCHANGED <<row, dueIn, tick, pc, run, faults>> /\ admin'.op = "disable"
      BY <1>9 DEF LoadAdmin, Serial
    <2>2. \A t \in Sources : SameSchedule(t)
      BY <2>1 DEF SameSchedule
    <2>3. \A t \in tick : dueIn'[t] = 0
      BY <2>1 DEF SInv, AttemptsAreDue
    <2> QED BY <1>2, <1>3, <2>1, <2>2, <2>3, Undisturbed DEF SInv
  <1> QED BY <1>4, <1>5, <1>6, <1>7, <1>8, <1>9

LEMMA AdvanceSerial ==
  ASSUME Serial, SInv, Advance PROVE SInv'
  <1>1. TypeOK /\ [Next]_vars
    BY DEF SInv, IInv, Next
  <1>2. IInv' /\ SingleRun' /\ TicksFindIdle'
    BY <1>1, NextOK, StepKeepsSingle DEF SInv, Serial
  <1>3. UNCHANGED <<row, tick, pc, run, admin, faults>> /\ tick = {} /\ Idle = Runs
    BY DEF Advance, Serial
  <1>4. \A r \in Runs : pc'[r] = "idle"
    BY <1>3 DEF Idle
  <1> QED BY <1>2, <1>3, <1>4, Undisturbed DEF SInv

\* Nothing else happens: there are no triggers, and no errors but those of fetches.
LEMMA SerialSteps ==
  ASSUME Serial, SInv, [Next]_vars
  PROVE  \/ Advance
         \/ TickSelect \/ TickDispatch \/ Crash \/ Startup \/ CommitAdmin
         \/ \E s \in Sources : \E op \in {"enable", "disable"} : LoadAdmin(op, s)
         \/ \E r \in Runs : RunStep(r)
         \/ UNCHANGED vars
  <1>1. ~(faults < MaxFaults) /\ "trigger" \notin AdminOps
    BY DEF Serial, SInv
  <1>2. ~TickMiss /\ (\A r \in Runs : ~SessionRaises(r) /\ ~RunEscapes(r))
        /\ \A s \in Sources : ~Trigger(s)
    BY <1>1 DEF TickMiss, SessionRaises, RunEscapes, Trigger
  <1> QED BY <1>2 DEF Next

LEMMA StepSerial == Serial /\ SInv /\ [Next]_vars => SInv'
  <1> SUFFICES ASSUME Serial, SInv, [Next]_vars PROVE SInv'
    OBVIOUS
  <1>1. ASSUME NEW r \in Runs, RunStep(r) PROVE SInv'
    BY <1>1, RunQuiet, RunWrites DEF RunStep
  <1>2. CASE UNCHANGED vars
    <2>1. IInv' /\ SingleRun' /\ TicksFindIdle'
      BY <1>2, NextOK, StepKeepsSingle DEF SInv, Serial, IInv
    <2> QED BY <1>2, <2>1 DEF vars, SInv, AttemptsAreDue, SnapshotsAreCurrent
  <1> QED BY <1>1, <1>2, SerialSteps, OtherSteps, AdvanceSerial

LEMMA InitSerial == Init => SInv
  <1> SUFFICES ASSUME Init PROVE SInv
    OBVIOUS
  <1>1. IInv
    BY InitOK
  <1>2. /\ SingleRun /\ TicksFindIdle /\ AttemptsAreDue /\ SnapshotsAreCurrent
        /\ faults = 0 /\ admin.op = "none"
    BY FreshOK DEF Init, SingleRun, TicksFindIdle, AttemptsAreDue, SnapshotsAreCurrent
  <1> QED BY <1>1, <1>2 DEF SInv

\* What SourceBackoff sees of the source table.
Failures == [s \in Sources |-> row[s].failures]
Intervals == [s \in Sources |-> row[s].interval]

\* An attempt at s that ends, said of these.
Ended(s) ==
  /\ dueIn[s] = 0
  /\ Failures' = [Failures EXCEPT ![s] = row'[s].failures]
  /\ Intervals' = [Intervals EXCEPT ![s] = row'[s].interval]
  /\ dueIn' = [dueIn EXCEPT ![s] = row'[s].interval]

LEMMA AttemptEnds ==
  ASSUME TypeOK, TypeOK', NEW s \in Sources, dueIn[s] = 0,
         \A t \in Sources \ {s} : SameSchedule(t), dueIn'[s] = row'[s].interval
  PROVE  Ended(s)
  <1>1. Failures' = [Failures EXCEPT ![s] = row'[s].failures]
    BY DEF Failures, SameSchedule
  <1>2. Intervals' = [Intervals EXCEPT ![s] = row'[s].interval]
    BY DEF Intervals, SameSchedule
  <1>3. dueIn' = [dueIn EXCEPT ![s] = row'[s].interval]
    BY DEF SameSchedule, TypeOK
  <1> QED BY <1>1, <1>2, <1>3 DEF Ended

LEMMA AttemptSucceeds ==
  ASSUME NEW s \in Sources, Ended(s), row'[s].failures = 0, row'[s].interval = BaseInterval[s]
  PROVE  Promise!Next
  <1>1. Promise!Succeed(s)
    BY DEF Promise!Succeed, Promise!End, Ended, Failures, Intervals
  <1> QED BY <1>1 DEF Promise!Next

LEMMA AttemptFails ==
  ASSUME NEW s \in Sources, Ended(s), row'[s].failures = row[s].failures + 1,
         row'[s].interval = IF row[s].failures + 1 >= FailureThreshold
                            THEN Capped(2 * row[s].interval) ELSE row[s].interval
  PROVE  Promise!Next
  <1>1. row'[s].failures = Failures[s] + 1
    BY DEF Failures
  <1>2. row'[s].interval = IF Failures[s] + 1 >= FailureThreshold
                           THEN Promise!Capped(2 * Intervals[s]) ELSE Intervals[s]
    BY DEF Failures, Intervals, Capped, Promise!Capped
  <1>3. Promise!Fail(s)
    BY <1>1, <1>2 DEF Ended, Promise!Fail, Promise!End, Failures, Intervals
  <1> QED BY <1>3 DEF Promise!Next

LEMMA CommitsAttempt ==
  ASSUME Serial, SInv, NEW r \in Runs, CommitReset(r) \/ CommitBackoff(r)
  PROVE  Promise!Next
  <1> DEFINE s == run[r].source
  <1>1. /\ s \in Sources /\ TypeOK /\ TypeOK'
        /\ run[r].loaded.failures = row[s].failures /\ run[r].loaded.interval = row[s].interval
    BY RunWrites DEF SInv, IInv
  <1>2. CASE pc[r] = "toReset"
    <2>1. row'[s].failures = 0 /\ row'[s].interval = BaseInterval[s] /\ dueIn'[s] = BaseInterval[s]
      BY <1>2, RunWrites DEF Reset
    <2>2. dueIn[s] = 0 /\ \A t \in Sources \ {s} : SameSchedule(t)
      BY RunWrites
    <2> QED BY <1>1, <2>1, <2>2, AttemptEnds, AttemptSucceeds
  <1>3. CASE pc[r] # "toReset"
    <2>1. /\ BackOff(run[r].loaded).failures = row[s].failures + 1
          /\ BackOff(run[r].loaded).interval = IF row[s].failures + 1 >= FailureThreshold
                                               THEN Capped(2 * row[s].interval) ELSE row[s].interval
      BY <1>1 DEF BackOff
    <2>2. /\ row'[s].failures = BackOff(run[r].loaded).failures
          /\ row'[s].interval = BackOff(run[r].loaded).interval
          /\ dueIn'[s] = BackOff(run[r].loaded).interval
      BY <1>3, RunWrites
    <2>3. dueIn[s] = 0 /\ \A t \in Sources \ {s} : SameSchedule(t)
      BY RunWrites
    <2> QED BY <1>1, <2>1, <2>2, <2>3, AttemptEnds, AttemptFails
  <1> QED BY <1>2, <1>3

\* Without overlap, enabling and triggering by hand, and as long as the database does
\* not fail, every attempt is accounted for once, when it was due, and the schedule of
\* each source is the backoff that is promised; whatever crashes and disabling do.
THEOREM SerialIsBackoff ==
  ASSUME Serial
  PROVE  Spec => ImplementsBackoff
  <1>1. Init => Promise!Init
    BY ConstantsAssumption DEF Init, Promise!Init, Fresh
  <1>2. SInv /\ [Next]_vars => [Promise!Next]_(Promise!vars)
    <2> SUFFICES ASSUME SInv, [Next]_vars PROVE Promise!Next \/ UNCHANGED Promise!vars
      OBVIOUS
    <2>1. ASSUME \A s \in Sources : SameSchedule(s), dueIn' \in [Sources -> Nat]
          PROVE  UNCHANGED Promise!vars
      BY <2>1 DEF SInv, IInv, TypeOK, SameSchedule, Promise!vars
    <2>2. TypeOK'
      BY StepSerial DEF SInv, IInv
    <2>3. CASE Advance
      BY <2>3 DEF Advance, Promise!Next, Promise!Elapse
    <2>4. CASE UNCHANGED <<row, dueIn>>
      BY <2>4 DEF Promise!vars
    <2>5. ASSUME NEW r \in Runs, RunStep(r) PROVE Promise!Next \/ UNCHANGED <<row, dueIn>>
      BY <2>5, RunQuiet, CommitsAttempt DEF RunStep
    <2>6. CASE \/ TickSelect \/ TickDispatch \/ Crash \/ Startup \/ CommitAdmin
              \/ \E s \in Sources : \E op \in {"enable", "disable"} : LoadAdmin(op, s)
      BY <2>1, <2>2, <2>6, OtherSteps DEF TypeOK
    <2> QED BY <2>3, <2>4, <2>5, <2>6, SerialSteps DEF vars
  <1> QED BY <1>1, <1>2, InitSerial, StepSerial, PTL DEF Spec, ImplementsBackoff, Promise!Spec
-----------------------------------------------------------------------------
(* What follows from the promise, whatever is done by hand or crashes.       *)

\* BacksOffWhenDue of one source, by its failures, its interval and its wait.
BacksOff(s, failures, interval, wait) ==
  /\ failures < FailureThreshold => interval = BaseInterval[s]
  /\ failures >= FailureThreshold => interval = MaxInterval \/ interval >= 2 * BaseInterval[s]
  /\ wait <= interval

LEMMA FailBacksOff ==
  ASSUME NEW s \in Sources, NEW failures \in Nat, NEW interval \in 1 .. MaxInterval,
         NEW wait \in Nat, BacksOff(s, failures, interval, wait)
  PROVE  LET next == IF failures + 1 >= FailureThreshold THEN Promise!Capped(2 * interval)
                                                         ELSE interval
         IN BacksOff(s, failures + 1, next, next)
BY ConstantsAssumption DEF BacksOff, Promise!Capped, FailureThreshold

LEMMA StepBacksOff ==
  ASSUME IInv, IInv', BacksOffWhenDue, [Promise!Next]_(Promise!vars)
  PROVE  BacksOffWhenDue'
  <1> SUFFICES ASSUME NEW s \in Sources
               PROVE  BacksOff(s, row'[s].failures, row'[s].interval, dueIn'[s])
    BY DEF BacksOffWhenDue, BacksOff
  <1>1. BacksOff(s, row[s].failures, row[s].interval, dueIn[s])
    BY DEF BacksOffWhenDue, BacksOff
  <1>2. /\ row[s].failures \in Nat /\ row[s].interval \in 1 .. MaxInterval /\ dueIn[s] \in Nat
        /\ dueIn \in [Sources -> Nat] /\ dueIn' \in [Sources -> Nat]
    BY ConstantsAssumption DEF IInv, TypeOK, Columns, IntervalBounds, InBounds
  <1>3. \A t \in Sources : /\ Failures[t] = row[t].failures /\ Failures'[t] = row'[t].failures
                           /\ Intervals[t] = row[t].interval /\ Intervals'[t] = row'[t].interval
    BY DEF Failures, Intervals
  <1>4. CASE UNCHANGED Promise!vars
    <2>1. UNCHANGED <<Failures, Intervals, dueIn>>
      BY <1>4 DEF Promise!vars, Failures, Intervals
    <2> QED BY <1>1, <1>3, <2>1
  <1>5. CASE Promise!Elapse
    <2>1. /\ UNCHANGED <<Failures, Intervals>>
          /\ dueIn' = [t \in Sources |-> IF dueIn[t] = 0 THEN 0 ELSE dueIn[t] - 1]
      BY <1>5 DEF Promise!Elapse, Failures, Intervals
    <2>2. dueIn'[s] <= dueIn[s] /\ dueIn'[s] \in Nat
      BY <1>2, <2>1
    <2> QED BY <1>1, <1>2, <1>3, <2>1, <2>2 DEF BacksOff
  <1>6. ASSUME NEW t \in Sources, NEW n, NEW i,
              Failures' = [Failures EXCEPT ![t] = n], Intervals' = [Intervals EXCEPT ![t] = i],
              dueIn' = [dueIn EXCEPT ![t] = i]
        PROVE  /\ s = t => row'[s].failures = n /\ row'[s].interval = i /\ dueIn'[s] = i
               /\ s # t => BacksOff(s, row'[s].failures, row'[s].interval, dueIn'[s])
    <2>1. /\ Failures'[s] = IF s = t THEN n ELSE Failures[s]
          /\ Intervals'[s] = IF s = t THEN i ELSE Intervals[s]
          /\ dueIn'[s] = IF s = t THEN i ELSE dueIn[s]
      BY <1>2, <1>6 DEF Failures, Intervals
    <2> QED BY <1>1, <1>3, <2>1
  <1>7. ASSUME NEW t \in Sources, Promise!Succeed(t)
        PROVE  BacksOff(s, row'[s].failures, row'[s].interval, dueIn'[s])
    <2>1. BacksOff(t, 0, BaseInterval[t], BaseInterval[t])
      BY ConstantsAssumption DEF BacksOff, FailureThreshold
    <2>2. /\ Failures' = [Failures EXCEPT ![t] = 0]
          /\ Intervals' = [Intervals EXCEPT ![t] = BaseInterval[t]]
          /\ dueIn' = [dueIn EXCEPT ![t] = BaseInterval[t]]
      BY <1>7 DEF Promise!Succeed, Promise!End, Failures, Intervals
    <2> QED BY <1>6, <2>1, <2>2
  <1>8. ASSUME NEW t \in Sources, Promise!Fail(t)
        PROVE  BacksOff(s, row'[s].failures, row'[s].interval, dueIn'[s])
    <2>1. PICK next : next = IF row[t].failures + 1 >= FailureThreshold
                             THEN Promise!Capped(2 * row[t].interval) ELSE row[t].interval
      OBVIOUS
    <2>2. /\ Failures' = [Failures EXCEPT ![t] = row[t].failures + 1]
          /\ Intervals' = [Intervals EXCEPT ![t] = next]
          /\ dueIn' = [dueIn EXCEPT ![t] = next]
      BY <1>8, <2>1 DEF Promise!Fail, Promise!End, Failures, Intervals
    <2>3. s = t => BacksOff(s, row[t].failures + 1, next, next)
      BY <1>1, <1>2, <2>1, FailBacksOff
    <2>4. /\ s = t => row'[s].failures = row[t].failures + 1 /\ row'[s].interval = next
                      /\ dueIn'[s] = next
          /\ s # t => BacksOff(s, row'[s].failures, row'[s].interval, dueIn'[s])
      BY <1>6, <2>2
    <2> QED BY <2>3, <2>4
  <1> QED BY <1>4, <1>5, <1>7, <1>8 DEF Promise!Next

\* Without overlap, enabling and triggering by hand, and as long as the database does
\* not fail, no source is polled less often than its own interval before its third
\* failure in a row, and from then on it is, until the cap: no crash or disabling makes
\* the count and the interval disagree.
THEOREM SerialBacksOffWhenDue ==
  ASSUME Serial
  PROVE  Spec => []BacksOffWhenDue
  <1>1. Init => BacksOffWhenDue
    BY ConstantsAssumption DEF Init, Fresh, BacksOffWhenDue, FailureThreshold
  <1>2. IInv /\ IInv' /\ BacksOffWhenDue /\ [Promise!Next]_(Promise!vars) => BacksOffWhenDue'
    BY StepBacksOff
  <1> QED BY <1>1, <1>2, Inductive, SerialIsBackoff, PTL
             DEF Spec, ImplementsBackoff, Promise!Spec
=============================================================================
