-------------------------- MODULE MCScheduledTurns --------------------------
(* Instances of ScheduledTurns for TLC: two or one job slots, one queue.   *)
EXTENDS ScheduledTurns
=============================================================================
