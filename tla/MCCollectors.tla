---------------------------- MODULE MCCollectors ----------------------------
(* Two instances on one adapter; the second is a loopback interface whose  *)
(* name does not say so, and has no transmit counter.                      *)
EXTENDS Collectors

CONSTANTS inst1, inst2

MCLuid == [i \in Insts |-> "adapter"]
=============================================================================
