------------------------------- MODULE MCFeed -------------------------------
(* Feed with two overlapping runs and two entries on pages of one, so that   *)
(* a change can move an entry from the first page of a fetch to the second.  *)
EXTENDS Feed, TLC

Symmetric == Permutations(Runs)
=============================================================================
