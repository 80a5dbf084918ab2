------------------------------- MODULE SophonPage -----------------------------
(* The page of the HarmonyOS capture in Sophon mode with the status that     *)
(* networkCaptureStore.ts keeps per device and refreshes by polling.  The    *)
(* servers of the backend (module CaptureServer) all want the same port, so  *)
(* a start for one device ends the server of another.                        *)
EXTENDS Naturals, FiniteSets

CONSTANTS
    Devices,
    MaxPolls,  \* bound: calls of syncStatus in progress
    None

VARIABLES
    server,      \* the device whose server runs, or None
    isCapturing, \* what the store says of each device
    timers,      \* the devices with a statusInterval
    listens,     \* the devices with listeners
    polls,       \* calls of syncStatus: the device and the answer, if it is out
    call         \* the handler in progress: its device and what it waits for

sophonPageVars == <<server, isCapturing, timers, listens, polls, call>>

Poll == [of : Devices, answer : BOOLEAN \cup {None}]
Call == [of : Devices, at : {"start", "started", "refused", "stop", "stopped",
                             "storeStop", "storeStopped"}]

TypeOK ==
    /\ server \in Devices \cup {None}
    /\ isCapturing \in [Devices -> BOOLEAN]
    /\ timers \subseteq Devices /\ listens \subseteq Devices
    /\ polls \subseteq Poll
    /\ call \in Call \cup {None}

(* Another window may have started a server before.                          *)
Init ==
    /\ server \in Devices \cup {None}
    /\ isCapturing = [d \in Devices |-> FALSE]
    /\ timers = {} /\ listens = {} /\ polls = {} /\ call = None

-----------------------------------------------------------------------------
Asks(d) == polls' = polls \cup {[of |-> d, answer |-> None]}

(* syncStatus, as the page calls it for a device that is selected, and as    *)
(* the timer calls it every second.                                          *)
SelectDevice(d) ==
    /\ Cardinality(polls) < MaxPolls
    /\ Asks(d)
    /\ UNCHANGED <<server, isCapturing, timers, listens, call>>

Tick(d) ==
    /\ d \in timers
    /\ Cardinality(polls) < MaxPolls
    /\ Asks(d)
    /\ UNCHANGED <<server, isCapturing, timers, listens, call>>

AnswerPoll(p) ==
    /\ p \in polls /\ p.answer = None
    /\ polls' = (polls \ {p}) \cup {[p EXCEPT !.answer = (server = p.of)]}
    /\ UNCHANGED <<server, isCapturing, timers, listens, call>>

\* Mutant: a poll never takes back that a server runs.
TakeGoodAnswer(p) ==
    /\ p \in polls /\ p.answer # None
    /\ polls' = polls \ {p}
    /\ isCapturing' = [isCapturing EXCEPT ![p.of] = p.answer \/ @]
    /\ UNCHANGED <<server, timers, listens, call>>

(* getCaptureStatus sets what the answer says, however old it is.            *)
TakeAnswer(p) ==
    /\ p \in polls /\ p.answer # None
    /\ polls' = polls \ {p}
    /\ isCapturing' = [isCapturing EXCEPT ![p.of] = p.answer]
    /\ UNCHANGED <<server, timers, listens, call>>

Answered(d) == \E p \in polls : p.of = d /\ AnswerPoll(p)
Taken(d) == \E p \in polls : p.of = d /\ TakeAnswer(p)

-----------------------------------------------------------------------------
(* handleStartCapture, and the stop of a page whose server runs.             *)
PressStart(d) ==
    /\ call = None /\ ~isCapturing[d]
    /\ call' = [of |-> d, at |-> "start"]
    /\ UNCHANGED <<server, isCapturing, timers, listens, polls>>

PressStop(d) ==
    /\ call = None /\ isCapturing[d]
    /\ call' = [of |-> d, at |-> "stop"]
    /\ UNCHANGED <<server, isCapturing, timers, listens, polls>>

At(step) == call # None /\ call.at = step
Reaches(step) == call' = [call EXCEPT !.at = step]

(* StartCaptureServer and StopCaptureServer.                                 *)
Serve ==
    /\ \/ At("start") /\ server' = call.of /\ Reaches("started")
       \/ At("start") /\ UNCHANGED server /\ Reaches("refused")
       \/ \E s \in {<<"stop", "stopped">>, <<"storeStop", "storeStopped">>} :
            /\ At(s[1]) /\ Reaches(s[2])
            /\ server' = IF server = call.of THEN None ELSE server
    /\ UNCHANGED <<isCapturing, timers, listens, polls>>

(* startCaptureListeners: one set of listeners and one timer for a device.   *)
Started ==
    /\ At("started")
    /\ Cardinality(polls) < MaxPolls
    /\ listens' = listens \cup {call.of}
    /\ timers' = timers \cup {call.of}
    /\ Asks(call.of)
    /\ call' = None
    /\ UNCHANGED <<server, isCapturing>>

Refused ==
    /\ At("refused") /\ call' = None
    /\ UNCHANGED <<server, isCapturing, timers, listens, polls>>

(* The page stops the server and calls stopCapture, which stops it again.    *)
Stopped ==
    /\ At("stopped") /\ Reaches("storeStop")
    /\ UNCHANGED <<server, isCapturing, timers, listens, polls>>

(* The end of stopCapture.  The listeners stay.                              *)
StopCapture ==
    /\ At("storeStopped")
    /\ Cardinality(polls) < MaxPolls
    /\ isCapturing' = [isCapturing EXCEPT ![call.of] = FALSE]
    /\ timers' = timers \ {call.of}
    /\ Asks(call.of)
    /\ call' = None
    /\ UNCHANGED <<server, listens>>

-----------------------------------------------------------------------------
(* A client of the server disconnects: the event says closed, although the   *)
(* server still runs.                                                        *)
ClientCloses ==
    /\ server # None
    /\ isCapturing' = IF server \in listens THEN [isCapturing EXCEPT ![server] = FALSE]
                      ELSE isCapturing
    /\ UNCHANGED <<server, timers, listens, polls, call>>

(* The page captures with HiProfiler: the same listeners, and no timer.      *)
HiProfilerStarts(d) ==
    /\ listens' = listens \cup {d}
    /\ timers' = timers \ {d}
    /\ UNCHANGED <<server, isCapturing, polls, call>>

(* Another window starts or stops a server.                                  *)
OtherWindow ==
    /\ server' \in (Devices \cup {None}) \ {server}
    /\ UNCHANGED <<isCapturing, timers, listens, polls, call>>

Next ==
    \/ \E d \in Devices :
        SelectDevice(d) \/ Tick(d) \/ PressStart(d) \/ PressStop(d) \/ HiProfilerStarts(d)
    \/ \E p \in polls : AnswerPoll(p) \/ TakeAnswer(p)
    \/ Serve \/ Started \/ Refused \/ Stopped \/ StopCapture
    \/ ClientCloses \/ OtherWindow

(* Timers fire and calls are answered.  Nobody has to press a button.        *)
Fairness ==
    /\ \A d \in Devices : SF_sophonPageVars(Tick(d))
    /\ \A d \in Devices : WF_sophonPageVars(Answered(d)) /\ WF_sophonPageVars(Taken(d))
    /\ WF_sophonPageVars(Serve \/ Started \/ Refused \/ Stopped \/ StopCapture)

Spec == Init /\ [][Next]_sophonPageVars
FairSpec == Spec /\ Fairness

-----------------------------------------------------------------------------
(* While the timer of a device runs, the store comes to say what its server  *)
(* does: a server that was ended by a start for another device is shown as   *)
(* ended for good, and one that a disconnection was taken for an end of is   *)
(* shown as running again and again.                                         *)
PollingConverges == \A d \in Devices :
    /\ <>[](d \in timers /\ server # d) => <>[]~isCapturing[d]
    /\ <>[](d \in timers /\ server = d) => []<>isCapturing[d]
==============================================================================
