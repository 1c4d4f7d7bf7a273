---------------------------- MODULE MCScheduler ----------------------------
(* Scheduler for TLC: two collectors of which one may block for ever, and  *)
(* a channel shorter than the number of workers.                           *)
EXTENDS Scheduler, TLC

CONSTANTS w1, w2
=============================================================================
