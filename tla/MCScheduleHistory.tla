------------------------- MODULE MCScheduleHistory -------------------------
(***************************************************************************)
(* ScheduleHistory with the constants of MCCollectorSchedule.              *)
(***************************************************************************)
EXTENDS MCCollectorSchedule, ScheduleHistory

EveryOtherMinute == [s \in Sources |-> 2]
=============================================================================
