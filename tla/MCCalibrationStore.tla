------------------------- MODULE MCCalibrationStore -------------------------
(* CalibrationStore for TLC.                                               *)
EXTENDS CalibrationStore

CONSTANTS t1, t2

Symmetry == Permutations(Threads)
=============================================================================
