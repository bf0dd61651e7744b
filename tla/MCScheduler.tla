---------------------------- MODULE MCScheduler ----------------------------
(* TLC instances of Scheduler. *)
EXTENDS Scheduler, TLC

CONSTANTS a, b, c, p, q
=============================================================================
