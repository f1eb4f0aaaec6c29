-------------------------------- MODULE MCIdle --------------------------------
(* Model values for Idle; the keys are numbers, in the order of the scan.  *)
EXTENDS Idle, TLC

CONSTANTS t1, t2, idler, i1, i2, e1, e2, e3, e4

Symmetry == Permutations({i1, i2}) \cup Permutations({e1, e2, e3, e4})
                \cup Permutations({t1, t2})
=============================================================================
