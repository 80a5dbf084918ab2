---------------------------- MODULE MCHiProfiler ----------------------------
(* HiProfiler on a small instance.  The calls of startCapture are alike;   *)
(* the symmetry is used by the runs that check no liveness.                *)
EXTENDS HiProfiler, TLC

Symmetry == Permutations(Sessions)
=============================================================================
