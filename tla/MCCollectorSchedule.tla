------------------------ MODULE MCCollectorSchedule ------------------------
(***************************************************************************)
(* The constants of CollectorSchedule for TLC.  An interval of 1 minute    *)
(* that may grow to 4 is doubled twice, at the third and fourth failure,   *)
(* and capped at the fifth, as 360 minutes grow to 1440.                   *)
(***************************************************************************)
EXTENDS CollectorSchedule, TLC

CONSTANTS nvd, ghsa, r1, r2

OneSource == {ghsa}
TwoSources == {nvd, ghsa}
TwoRuns == {r1, r2}
OneRun == {r1}

EveryMinute == [s \in Sources |-> 1]
Uneven == [s \in Sources |-> IF s = ghsa THEN 2 ELSE 1]

AllOps == {"enable", "disable", "trigger"}
DisableOnly == {"disable"}

RunSymmetry == Permutations(Runs)
=============================================================================
