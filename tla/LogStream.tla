------------------------------ MODULE LogStream ------------------------------
(* The log streams of the user interface: the hook useLogStream of the page  *)
(* SystemLogsPage, which starts, restarts, pauses and stops the one hilog or *)
(* logcat process that the backend keeps per device.                         *)
(*                                                                           *)
(* A hook is one mounted instance of the page, in the main window or in a    *)
(* panel window.  A start is a chain of awaits (stop the old stream, wait    *)
(* 300 ms, start the new one), and the user may select another device,       *)
(* change the filter, pause, or leave the page between any two of them.      *)
(* The generation counter of the code only ever decides whether the start in *)
(* progress is the newest one: `stale' is that verdict.                      *)
EXTENDS Naturals, FiniteSets

CONSTANTS
    Hooks,      \* instances of the hook, at most one of them mounted
    Devices,    \* connect keys
    Pids,       \* values of the pid filter that the backend gets
    HandOvers,  \* the ways to leave: TRUE for a panel window that takes over
    None

VARIABLES
    hook,    \* the refs and the state of each hook
    stream,  \* activeHilogStreams: who started the process of a device, and how
    stops    \* stop calls that nobody awaits

logVars == <<hook, stream, stops>>

HookRecord ==
    [mounted : BOOLEAN, device : Devices \cup {None}, pids : Pids,
     timer : BOOLEAN,              \* the page's 200 ms timer is set
     paused : BOOLEAN, streaming : BOOLEAN, subscribed : BOOLEAN,
     active : Devices \cup {None}, \* activeStreamRef
     pc : {"idle", "stopping", "delay", "starting", "undo"},
     key : Devices \cup {None},    \* the device and the filter of the call
     opts : Pids,                  \* in progress
     stale : BOOLEAN, pending : BOOLEAN]

AnyPids == CHOOSE p \in Pids : TRUE

Unmounted ==
    [mounted |-> FALSE, device |-> None, pids |-> AnyPids, timer |-> FALSE,
     paused |-> FALSE, streaming |-> FALSE, subscribed |-> FALSE,
     active |-> None, pc |-> "idle", key |-> None, opts |-> AnyPids,
     stale |-> FALSE, pending |-> FALSE]

TypeOK ==
    /\ hook \in [Hooks -> HookRecord]
    /\ stream \in [Devices -> [by : Hooks, pids : Pids] \cup {None}]
    /\ stops \subseteq Hooks \X Devices

Init ==
    /\ hook = [h \in Hooks |-> Unmounted]
    /\ stream = [d \in Devices |-> None]
    /\ stops = {}

-----------------------------------------------------------------------------
(* A start begins: it unsubscribes and stops the stream of this hook, or, if *)
(* it has none, that of the selected device.  During another start it only   *)
(* leaves a note.                                                            *)
BeginStart(k) ==
    IF k.device = None THEN k
    ELSE IF k.pc # "idle" THEN [k EXCEPT !.pending = TRUE, !.stale = TRUE]
    ELSE [k EXCEPT !.pc = "stopping", !.stale = FALSE, !.pending = FALSE,
                   !.subscribed = FALSE, !.active = None,
                   !.key = IF k.active # None THEN k.active ELSE k.device]

\* Mutant: the note of a start that was called during another one is ignored.
FinishStartForGood(k) ==
    [k EXCEPT !.pc = "idle", !.key = None, !.opts = AnyPids,
              !.stale = FALSE, !.pending = FALSE]

(* The `finally' of a start: the noted start follows at once.                *)
FinishStart(k) ==
    LET done == [k EXCEPT !.pc = "idle", !.key = None, !.opts = AnyPids,
                          !.stale = FALSE, !.pending = FALSE]
    IN  IF k.pending /\ k.mounted THEN BeginStart(done) ELSE done

(* stopStream has stopped the old stream.                                    *)
StopReturns(h) ==
    /\ hook[h].pc = "stopping"
    /\ stream' = [stream EXCEPT ![hook[h].key] = None]
    /\ hook' = [hook EXCEPT ![h].pc = "delay", ![h].streaming = FALSE]
    /\ UNCHANGED stops

(* The 300 ms after the stop are over.  They are taken to be long enough for *)
(* the stop calls that this hook did not await.                              *)
DelayElapsed(h) ==
    /\ hook[h].pc = "delay"
    /\ \A s \in stops : s[1] # h
    /\ LET k == hook[h] IN
       hook' = [hook EXCEPT ![h] =
           IF k.stale \/ ~k.mounted \/ k.device = None THEN FinishStart(k)
           ELSE [k EXCEPT !.pc = "starting", !.key = k.device,
                          !.opts = k.pids, !.streaming = TRUE, !.paused = FALSE,
                          !.subscribed = TRUE]]
    /\ UNCHANGED <<stream, stops>>

\* Mutant: a start does not look whether it is still the newest one.
StartReturnsUnchecked(h) ==
    /\ hook[h].pc = "starting"
    /\ LET k == hook[h] IN
       \E ok \in BOOLEAN :
           /\ stream' = [stream EXCEPT ![k.key] =
                             IF ok THEN [by |-> h, pids |-> k.opts] ELSE None]
           /\ hook' = [hook EXCEPT ![h] =
                  IF ok THEN FinishStart([k EXCEPT !.active = k.key])
                  ELSE FinishStart([k EXCEPT !.subscribed = FALSE,
                                             !.streaming = FALSE])]
    /\ UNCHANGED stops

(* StartHilogStream replaces the process of the device, or fails after it    *)
(* has cancelled the old one.                                                *)
StartReturns(h) ==
    /\ hook[h].pc = "starting"
    /\ LET k == hook[h] IN
       \E ok \in BOOLEAN :
           /\ stream' = [stream EXCEPT ![k.key] =
                             IF ok THEN [by |-> h, pids |-> k.opts] ELSE None]
           /\ hook' = [hook EXCEPT ![h] =
                  IF k.stale THEN [k EXCEPT !.pc = "undo"]
                  ELSE IF ok THEN FinishStart([k EXCEPT !.active = k.key])
                  ELSE FinishStart([k EXCEPT !.subscribed = FALSE,
                                             !.streaming = FALSE])]
    /\ UNCHANGED stops

(* A start that is no longer the newest stops what it has started.           *)
UndoReturns(h) ==
    /\ hook[h].pc = "undo"
    /\ stream' = [stream EXCEPT ![hook[h].key] = None]
    /\ hook' = [hook EXCEPT ![h] = FinishStart([hook[h] EXCEPT !.subscribed = FALSE])]
    /\ UNCHANGED stops

-----------------------------------------------------------------------------
(* The page.                                                                 *)

Mount(h, d) ==
    /\ \A g \in Hooks : ~hook[g].mounted
    /\ hook[h].pc = "idle"
    /\ hook' = [hook EXCEPT ![h] =
           [Unmounted EXCEPT !.mounted = TRUE, !.device = d,
                             !.timer = (d # None)]]
    /\ UNCHANGED <<stream, stops>>

(* Another device is selected, here or in another window: its timer replaces *)
(* the one that is running.  The old stream goes on until the timer fires.   *)
SelectDevice(h, d) ==
    /\ hook[h].mounted /\ d # hook[h].device
    /\ hook' = [hook EXCEPT ![h].device = d, ![h].timer = (d # None)]
    /\ UNCHANGED <<stream, stops>>

TimerFires(h) ==
    /\ hook[h].timer
    /\ hook' = [hook EXCEPT ![h] = BeginStart([@ EXCEPT !.timer = FALSE])]
    /\ UNCHANGED <<stream, stops>>

(* The applications of the filter, or their pids, change.                    *)
ChangePids(h, p) ==
    /\ hook[h].mounted /\ p # hook[h].pids
    /\ LET k == [hook[h] EXCEPT !.pids = p] IN
       hook' = [hook EXCEPT ![h] =
                    IF k.streaming /\ ~k.paused THEN BeginStart(k) ELSE k]
    /\ UNCHANGED <<stream, stops>>

(* pause neither waits for the stop it sends nor ends a start in progress.   *)
Pause(h) ==
    /\ hook[h].mounted /\ ~hook[h].paused /\ hook[h].device # None
    /\ hook' = [hook EXCEPT ![h].paused = TRUE, ![h].subscribed = FALSE,
                            ![h].active = None, ![h].streaming = FALSE]
    /\ stops' = stops \cup ({<<h, hook[h].active>>} \ {<<h, None>>})
    /\ UNCHANGED stream

Resume(h) ==
    /\ hook[h].mounted /\ hook[h].paused /\ hook[h].device # None
    /\ hook' = [hook EXCEPT ![h] = BeginStart([@ EXCEPT !.paused = FALSE])]
    /\ UNCHANGED <<stream, stops>>

(* The page is left.  When a panel window takes over, or the panel itself    *)
(* closes, the stream is left to the next hook.                              *)
Leave(h, handOver) ==
    /\ hook[h].mounted
    /\ hook' = [hook EXCEPT ![h] =
           [Unmounted EXCEPT !.pc = hook[h].pc, !.key = hook[h].key,
                             !.stale = (hook[h].pc # "idle")]]
    /\ stops' = IF handOver THEN stops
                ELSE stops \cup ({<<h, hook[h].active>>} \ {<<h, None>>})
    /\ UNCHANGED stream

(* The backend gets a stop call nobody waits for.                            *)
StopArrives(s) ==
    /\ s \in stops
    /\ stream' = [stream EXCEPT ![s[2]] = None]
    /\ stops' = stops \ {s}
    /\ UNCHANGED hook

(* The process ends by itself: the device is gone.  The hook hears of it in  *)
(* an error message that changes nothing.                                    *)
StreamExits(d) ==
    /\ stream[d] # None
    /\ stream' = [stream EXCEPT ![d] = None]
    /\ UNCHANGED <<hook, stops>>

CallReturns(h) ==
    StopReturns(h) \/ DelayElapsed(h) \/ StartReturns(h) \/ UndoReturns(h)

Next ==
    \/ \E h \in Hooks :
        \/ CallReturns(h)
        \/ TimerFires(h)
        \/ \E d \in Devices \cup {None} : Mount(h, d) \/ SelectDevice(h, d)
        \/ \E p \in Pids : ChangePids(h, p)
        \/ Pause(h)
        \/ Resume(h)
        \/ \E handOver \in HandOvers : Leave(h, handOver)
    \/ \E s \in Hooks \X Devices : StopArrives(s)
    \/ \E d \in Devices : StreamExits(d)

Spec == Init /\ [][Next]_logVars

-----------------------------------------------------------------------------
AtRest ==
    /\ stops = {}
    /\ \A h \in Hooks : hook[h].pc = "idle" /\ ~hook[h].timer

(* No process is left behind: once nothing is in progress, each process that *)
(* runs is the one the mounted page would stop.  A start that was overtaken  *)
(* by another device, by a pause or by leaving the page must have undone     *)
(* itself (useLogStream.ts, activeStreamRef and startGenerationRef).         *)
NoStreamIsLeftBehind ==
    AtRest => \A d \in Devices : stream[d] # None =>
                  \E h \in Hooks : hook[h].mounted /\ hook[h].active = d

(* What the page shows is what the user asked for: once nothing is in        *)
(* progress, a page that says it streams listens to the selected device, and *)
(* its process was started with the filter of now, however the changes of    *)
(* device and filter fell between the awaits of the starts.                  *)
StreamsAreCurrent ==
    AtRest => \A h \in Hooks :
        hook[h].streaming /\ hook[h].device # None =>
            /\ hook[h].subscribed
            /\ hook[h].active = hook[h].device
            /\ stream[hook[h].device] \in
                   {None, [by |-> h, pids |-> hook[h].pids]}

(* "pause" is said to stop the stream of the backend (useLogStream.ts:742).  *)
(* Does not hold: a pause during a start does not end the start.             *)
PauseStopsTheBackend ==
    AtRest => \A h \in Hooks : hook[h].mounted /\ hook[h].paused =>
                  \A d \in Devices : stream[d] = None

(* A page that hands its stream over must not stop the stream of the next    *)
(* page (useLogStream.ts:704, log-stream-ownership.ts).  Does not hold: a    *)
(* start that was overtaken by leaving the page undoes itself by the key of  *)
(* the device, whoever streams from it by then.                              *)
NoHookStopsAnothers ==
    [][\A h \in Hooks : UndoReturns(h) =>
           \A d \in Devices : stream[d] # None /\ stream'[d] = None =>
               stream[d].by = h]_logVars
=============================================================================
