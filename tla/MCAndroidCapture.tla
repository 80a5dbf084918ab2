-------------------------- MODULE MCAndroidCapture --------------------------
(* AndroidCapture on small instances.  The apps and the calls are alike;   *)
(* the symmetry is used by the runs that check no liveness.                *)
EXTENDS AndroidCapture, TLC

Symmetry == Permutations(Apps) \cup Permutations(Calls)
=============================================================================
