-------------------------- MODULE MCExperimentStore -------------------------
(* ExperimentStore for TLC.                                                *)
EXTENDS ExperimentStore, TLC

CONSTANTS t1, t2, t3

Symmetry == Permutations(Threads)
=============================================================================
