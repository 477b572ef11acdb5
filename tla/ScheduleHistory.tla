--------------------------- MODULE ScheduleHistory ---------------------------
(***************************************************************************)
(* CollectorSchedule with a history variable: for how many minutes each    *)
(* source has been left alone, counted up to its base interval.  Nothing   *)
(* in the code knows of it.  The schedule itself goes by next_run_at, the  *)
(* one column that runs, requests and the clock all move, and which a run  *)
(* that is still in flight has not moved yet.                              *)
(***************************************************************************)
EXTENDS CollectorSchedule

VARIABLE rested

historyVars == <<vars, rested>>

\* A run of s, scheduled or manual, ends and says so in the source's row.
Attempted(s) ==
  \E r \in Runs : run[r].source = s /\ (CommitReset(r) \/ CommitBackoff(r))

\* An operator asks for a poll at once.
Enables(s) == CommitAdmin /\ admin.op = "enable" /\ admin.source = s

HistoryInit == Init /\ rested = BaseInterval

HistoryNext ==
  /\ Next
  /\ rested' = [s \in Sources |->
                 IF Attempted(s) THEN 0
                 ELSE IF Enables(s) \/ rested[s] = BaseInterval[s] THEN BaseInterval[s]
                 ELSE IF Advance THEN rested[s] + 1 ELSE rested[s]]

HistorySpec == HistoryInit /\ [][HistoryNext]_historyVars
-----------------------------------------------------------------------------
\* Once a run of a source has written its outcome, no tick selects the source before its base interval
\* is over, unless an operator enables it: however many other runs of it are in flight,
\* by hand or overlapping, whatever they have loaded, and across failures, disabling and
\* restarts.  (ingestion.py:140, 209 against scheduler.py:36-41.)  This is what bounds
\* overlap.  Until its first run has ended a source is selected again each minute, and so
\* it is when its run is cancelled or cannot write the row.
PollsAreSpaced ==
  [][\A s \in tick' \ tick : rested[s] = BaseInterval[s]]_historyVars
=============================================================================
