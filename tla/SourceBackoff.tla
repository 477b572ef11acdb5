--------------------------- MODULE SourceBackoff ---------------------------
(***************************************************************************)
(* What the collection schedule promises about one attempt after another,  *)
(* with no tasks, sessions or operators: each source has a count of        *)
(* consecutive failures, a polling interval and a wait.  An attempt ends   *)
(* only when the wait has expired; it either succeeds, which clears the    *)
(* backoff, or fails, which doubles the interval from the third failure in *)
(* a row on, up to MaxInterval.  Either way the source then waits for one  *)
(* full interval.                                                          *)
(*                                                                         *)
(* CollectorSchedule implements it when runs do not overlap (see MCSerial).*)
(***************************************************************************)
EXTENDS Integers

CONSTANTS Sources, BaseInterval, MaxInterval, FailureThreshold

VARIABLES failures, interval, wait

vars == <<failures, interval, wait>>

Init ==
  /\ failures = [s \in Sources |-> 0]
  /\ interval = BaseInterval
  /\ wait = [s \in Sources |-> 0]

Capped(minutes) == IF minutes <= MaxInterval THEN minutes ELSE MaxInterval

\* An attempt at s that ends leaves n failures in a row and interval i.
End(s, n, i) ==
  /\ wait[s] = 0
  /\ failures' = [failures EXCEPT ![s] = n]
  /\ interval' = [interval EXCEPT ![s] = i]
  /\ wait' = [wait EXCEPT ![s] = i]

Succeed(s) == End(s, 0, BaseInterval[s])

Fail(s) ==
  End(s, failures[s] + 1,
      IF failures[s] + 1 >= FailureThreshold THEN Capped(2 * interval[s])
                                             ELSE interval[s])

Elapse ==
  /\ wait' = [s \in Sources |-> IF wait[s] = 0 THEN 0 ELSE wait[s] - 1]
  /\ UNCHANGED <<failures, interval>>

Next == Elapse \/ \E s \in Sources : Succeed(s) \/ Fail(s)

Spec == Init /\ [][Next]_vars
=============================================================================
