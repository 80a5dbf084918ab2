--------------------------- MODULE MCCaptureServer ---------------------------
(* Small instances of CaptureServer.  All members of a set are alike.      *)
EXTENDS CaptureServer, TLC

Symmetry ==
    UNION {Permutations(S) : S \in {Devices, Ports, Calls, Conns}}
=============================================================================
