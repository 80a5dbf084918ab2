---------------------------- MODULE MCCapturePage ----------------------------
(* The capture servers and the page that polls them, one of them at a time:  *)
(* `part' is the one that runs, the other rests in an initial state.         *)
EXTENDS MCCaptureServer

VARIABLES part, server, isCapturing, intervals, listeners, polls, call

pageVars == <<server, isCapturing, intervals, listeners, polls, call>>

Page == INSTANCE SophonPage WITH
    Devices <- {"d1", "d2"}, MaxPolls <- 2, timers <- intervals,
    listens <- listeners

PartInit ==
    /\ part \in {"servers", "page"}
    /\ Init /\ Page!Init
    /\ part = "servers" => server = None

PartNext ==
    \/ part = "servers" /\ Next /\ UNCHANGED <<part, pageVars>>
    \/ part = "page" /\ Page!Next /\ UNCHANGED <<part, vars>>

PartSpec ==
    /\ PartInit /\ [][PartNext]_<<part, vars, pageVars>>
    /\ Fairness /\ Page!Fairness

(* While the timer of a device runs, the page comes to show a server that    *)
(* ended elsewhere as ended, and one that runs as running again after each   *)
(* disconnection that it took for an end: startCaptureListeners and          *)
(* syncStatus of networkCaptureStore.ts.                                     *)
PollingConverges == Page!PollingConverges
==============================================================================
