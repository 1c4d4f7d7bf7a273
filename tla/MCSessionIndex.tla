------------------------- MODULE MCSessionIndex -------------------------
(* SessionIndex for TLC.                                               *)
EXTENDS SessionIndex, TLC

CONSTANTS t1, t2

Symmetry == Permutations(Threads)
=============================================================================
