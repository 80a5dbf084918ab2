----------------------------- MODULE HiProfiler -----------------------------
(***************************************************************************)
(* backend/hiprofiler/capture_session.go: capturing the traffic of one     *)
(* process of one device.  A capture follows its process: when the process *)
(* exits, the session is wound down and a restart watcher waits for the    *)
(* next PID to start a session again.                                      *)
(*                                                                         *)
(* A member of Sessions is a call of startCapture and the session it may   *)
(* produce; the watcher that the session leaves behind has the same name.  *)
(* Calls run in the user's threads and in watchers, one at a time under    *)
(* startMutex; a session is stopped once (stopOnce), by whoever comes      *)
(* first, while every other caller of stop waits for it.                   *)
(***************************************************************************)
EXTENDS Naturals, FiniteSets

CONSTANTS Sessions,  \* calls of startCapture (bounds them)
          MaxPid,    \* the process lives at most this many times
          User,      \* the thread that handles the stop button
          None

ASSUME PidAssumption == MaxPid \in Nat \ {0}
ASSUME NameAssumption == User \notin Sessions /\ None \notin Sessions \cup {User}

Pids == 1 .. MaxPid

VARIABLES
    process,         \* the process on the device: its last PID, and if it runs
    startMutex,      \* the call that holds it
    captureSessions, \* registry of sessions, by PID
    restartWatcher,  \* registry of watchers: one process, so one entry
    call,            \* the calls of startCapture
    stop,            \* progress of stop(reason), per session
    reason,          \* stopReason, per session
    timedOut,        \* sessions whose drain ended by the 5 second timeout
    fetch,           \* goroutine fetchDataLoop, per session
    monitor,         \* goroutine monitorProcess, per session
    watcher,         \* goroutine run of the restart watchers
    cancelled,       \* watchers whose stopCh is closed
    todo,            \* what a thread has still to stop
    button           \* the stop handler of the page

vars == <<process, startMutex, captureSessions, restartWatcher, call, stop,
          reason, timedOut, fetch, monitor, watcher, cancelled, todo, button>>

sessionVars == <<stop, reason, timedOut, fetch, monitor>>
watcherVars == <<restartWatcher, watcher, cancelled>>

Threads == Sessions \cup {User}

\* A call: the thread is the watcher it runs in, or User.
CallRecords == [pc: {"unused", "queued", "clean", "cleaning", "launch",
                     "register", "live", "failed"},
                thread: Threads, pid: Pids]

\* What is left of a StopAllCaptures or StopCapture: a watcher, then sessions.
Worklists == [watcher: Sessions \cup {None}, sessions: SUBSET Sessions]
Nothing == [watcher |-> None, sessions |-> {}]

TypeOK ==
    /\ process \in [pid: 0 .. MaxPid, up: BOOLEAN]
    /\ startMutex \in Sessions \cup {None}
    /\ captureSessions \in [Pids -> Sessions \cup {None}]
    /\ restartWatcher \in Sessions \cup {None}
    /\ call \in [Sessions -> CallRecords]
    /\ stop \in [Sessions -> {"no", "entered", "closing", "done"}]
    /\ reason \in [Sessions -> {"", "manual", "processExited", "streamError"}]
    /\ timedOut \subseteq Sessions
    /\ fetch \in [Sessions -> {"none", "reading", "broken", "stopping", "done"}]
    /\ monitor \in [Sessions -> {"none", "watching", "exited", "stopping",
                                 "marked", "armed", "done"}]
    /\ watcher \in [Sessions -> {"none", "polling", "starting", "started",
                                 "collecting", "done"}]
    /\ cancelled \subseteq Sessions
    /\ todo \in [Threads -> Worklists]
    /\ button \in {"released", "one", "all", "idle"}

Init ==
    /\ process = [pid |-> 0, up |-> FALSE]
    /\ startMutex = None
    /\ captureSessions = [p \in Pids |-> None]
    /\ restartWatcher = None
    /\ call = [s \in Sessions |-> [pc |-> "unused", thread |-> User, pid |-> 1]]
    /\ stop = [s \in Sessions |-> "no"]
    /\ reason = [s \in Sessions |-> ""]
    /\ timedOut = {}
    /\ fetch = [s \in Sessions |-> "none"]
    /\ monitor = [s \in Sessions |-> "none"]
    /\ watcher = [s \in Sessions |-> "none"]
    /\ cancelled = {}
    /\ todo = [t \in Threads |-> Nothing]
    /\ button = "released"

Registered == {captureSessions[p] : p \in Pids} \ {None}

Running(s) == call[s].pc = "live" /\ stop[s] = "no"

Everything == [watcher |-> restartWatcher, sessions |-> Registered]

\* StopCapture(pid): the session of that PID, or else the watcher that waits
\* for a successor of that PID.
Matching(p) ==
    IF captureSessions[p] # None
    THEN [watcher |-> None, sessions |-> {captureSessions[p]}]
    ELSE [watcher |-> IF restartWatcher # None /\ call[restartWatcher].pid = p
                      THEN restartWatcher ELSE None,
          sessions |-> {}]

-----------------------------------------------------------------------------
(* The process.                                                            *)

ProcessStarts ==
    /\ ~process.up /\ process.pid < MaxPid
    /\ process' = [pid |-> process.pid + 1, up |-> TRUE]
    /\ UNCHANGED <<startMutex, captureSessions, watcherVars, call, sessionVars,
                   todo, button>>

ProcessExits ==
    /\ process.up
    /\ process' = [process EXCEPT !.up = FALSE]
    /\ UNCHANGED <<startMutex, captureSessions, watcherVars, call, sessionVars,
                   todo, button>>

-----------------------------------------------------------------------------
(* startCapture.                                                           *)

\* A call that fails; its name is free again once its watcher has noticed.
Failed(s) == IF call[s].thread = User THEN "unused" ELSE "failed"

\* A thread calls startCapture(s) for the PID it saw.
Call(s, t) ==
    call' = [call EXCEPT ![s] = [pc |-> "queued", thread |-> t,
                                 pid |-> process.pid]]

\* The page shows neither button while a start of its own is under way.
NoStartUnderWay ==
    \A s \in Sessions : call[s].thread = User => call[s].pc \in {"unused", "live"}

\* Mutant: the start button works before there is a process.
StartCaptureOfNothing(s) ==
    /\ call[s].pc = "unused"
    /\ button \in {"released", "idle"}
    /\ NoStartUnderWay
    /\ Call(s, User)
    /\ button' = "released"
    /\ UNCHANGED <<process, startMutex, captureSessions, watcherVars,
                   sessionVars, todo>>

\* StartCapture, by the start button.
StartCapture(s) ==
    /\ call[s].pc = "unused"
    /\ button \in {"released", "idle"}
    /\ NoStartUnderWay
    /\ process.up
    /\ Call(s, User)
    /\ button' = "released"
    /\ UNCHANGED <<process, startMutex, captureSessions, watcherVars,
                   sessionVars, todo>>

\* startMutex is taken; a call whose watcher was stopped, and one for a PID
\* that has a session, return at once.
EnterStart(s) ==
    LET refused == \/ call[s].thread \in cancelled
                   \/ captureSessions[call[s].pid] # None
    IN  /\ call[s].pc = "queued" /\ startMutex = None
        /\ call' = [call EXCEPT ![s].pc =
              IF refused THEN Failed(s)
              ELSE IF call[s].thread = User THEN "clean" ELSE "launch"]
        /\ startMutex' = IF refused THEN None ELSE s
        /\ UNCHANGED <<process, captureSessions, watcherVars, sessionVars,
                       todo, button>>

\* A start by the user first stops everything on the device.
CleanExisting(s) ==
    /\ call[s].pc = "clean"
    /\ todo' = [todo EXCEPT ![s] = Everything]
    /\ call' = [call EXCEPT ![s].pc = "cleaning"]
    /\ UNCHANGED <<process, startMutex, captureSessions, watcherVars,
                   sessionVars, button>>

Cleaned(s) ==
    /\ call[s].pc = "cleaning" /\ todo[s] = Nothing
    /\ call' = [call EXCEPT ![s].pc = "launch"]
    /\ UNCHANGED <<process, startMutex, captureSessions, watcherVars,
                   sessionVars, todo, button>>

\* Restart hiprofilerd, forward a port, create and start the session: any of
\* these may fail.
Launch(s) ==
    /\ call[s].pc = "launch"
    /\ \/ /\ call' = [call EXCEPT ![s].pc = "register"]
          /\ UNCHANGED startMutex
       \/ /\ call' = [call EXCEPT ![s].pc = Failed(s)]
          /\ startMutex' = None
    /\ UNCHANGED <<process, captureSessions, watcherVars, sessionVars, todo,
                   button>>

Register(s) ==
    /\ call[s].pc = "register"
    /\ captureSessions' = [captureSessions EXCEPT ![call[s].pid] = s]
    /\ call' = [call EXCEPT ![s].pc = "live"]
    /\ fetch' = [fetch EXCEPT ![s] = "reading"]
    /\ monitor' = [monitor EXCEPT ![s] = "watching"]
    /\ startMutex' = None
    /\ UNCHANGED <<process, watcherVars, stop, reason, timedOut, todo, button>>

-----------------------------------------------------------------------------
(* stop(reason).  The first caller runs it; its steps belong to the session. *)

EnterStop(s, why) ==
    IF stop[s] = "no"
    THEN /\ stop' = [stop EXCEPT ![s] = "entered"]
         /\ reason' = [reason EXCEPT ![s] = why]
    ELSE UNCHANGED <<stop, reason>>

\* Mutant: after a process exit the tail is not waited for.
DrainsWhenManual(s) == reason[s] \in {"manual"}

\* The StopSession call makes the device flush its last batch.  A manual stop
\* and a process exit then wait for fetchDataLoop to end, but not for ever.
Drains(s) == reason[s] \in {"manual", "processExited"}

\* Mutant: the session leaves the registry before it is wound down.
StopSessionUnregisters(s) ==
    /\ stop[s] = "entered"
    /\ Drains(s) => fetch[s] = "done"
    /\ stop' = [stop EXCEPT ![s] = "closing"]
    /\ captureSessions' = [captureSessions EXCEPT ![call[s].pid] = None]
    /\ UNCHANGED <<process, startMutex, watcherVars, call,
                   reason, timedOut, fetch, monitor, todo, button>>

StopSession(s) ==
    /\ stop[s] = "entered"
    /\ Drains(s) => fetch[s] = "done"
    /\ stop' = [stop EXCEPT ![s] = "closing"]
    /\ UNCHANGED <<process, startMutex, captureSessions, watcherVars, call,
                   reason, timedOut, fetch, monitor, todo, button>>

\* Mutant: the wait for fetchDataLoop has no timeout.
NoDrainTimeout(s) ==
    /\ FALSE /\ stop[s] = "entered"
    /\ Drains(s) /\ fetch[s] # "done"
    /\ stop' = [stop EXCEPT ![s] = "closing"]
    /\ timedOut' = timedOut \cup {s}
    /\ UNCHANGED <<process, startMutex, captureSessions, watcherVars, call,
                   reason, fetch, monitor, todo, button>>

DrainTimeout(s) ==
    /\ stop[s] = "entered"
    /\ Drains(s) /\ fetch[s] # "done"
    /\ stop' = [stop EXCEPT ![s] = "closing"]
    /\ timedOut' = timedOut \cup {s}
    /\ UNCHANGED <<process, startMutex, captureSessions, watcherVars, call,
                   reason, fetch, monitor, todo, button>>

\* stopCh and the connection are closed, the port forward is removed, and the
\* session leaves the registry.
CloseSession(s) ==
    /\ stop[s] = "closing"
    /\ stop' = [stop EXCEPT ![s] = "done"]
    /\ captureSessions' = [p \in Pids |->
          IF captureSessions[p] = s THEN None ELSE captureSessions[p]]
    /\ UNCHANGED <<process, startMutex, watcherVars, call, reason, timedOut,
                   fetch, monitor, todo, button>>

-----------------------------------------------------------------------------
(* fetchDataLoop and monitorProcess.                                       *)

\* The stream ends, or fails; a loop that still believes in its session will
\* report an error and stop it.
FetchEnds(s) ==
    /\ fetch[s] = "reading"
    /\ fetch' = [fetch EXCEPT ![s] = IF stop[s] = "no" THEN "broken" ELSE "done"]
    /\ UNCHANGED <<process, startMutex, captureSessions, watcherVars, call,
                   stop, reason, timedOut, monitor, todo, button>>

FetchStops(s) ==
    /\ fetch[s] = "broken"
    /\ EnterStop(s, "streamError")
    /\ fetch' = [fetch EXCEPT ![s] = "stopping"]
    /\ UNCHANGED <<process, startMutex, captureSessions, watcherVars, call,
                   timedOut, monitor, todo, button>>

FetchReturns(s) ==
    /\ fetch[s] = "stopping" /\ stop[s] = "done"
    /\ fetch' = [fetch EXCEPT ![s] = "done"]
    /\ UNCHANGED <<process, startMutex, captureSessions, watcherVars, call,
                   stop, reason, timedOut, monitor, todo, button>>

\* The PID query finds that the process is gone or has another PID.  A tick
\* may still win over a stopCh that is already closed.
MonitorSeesExit(s) ==
    /\ monitor[s] = "watching"
    /\ ~process.up \/ process.pid # call[s].pid
    /\ monitor' = [monitor EXCEPT ![s] = "exited"]
    /\ UNCHANGED <<process, startMutex, captureSessions, watcherVars, call,
                   stop, reason, timedOut, fetch, todo, button>>

MonitorQuits(s) ==
    /\ monitor[s] = "watching" /\ stop[s] \in {"closing", "done"}
    /\ monitor' = [monitor EXCEPT ![s] = "done"]
    /\ UNCHANGED <<process, startMutex, captureSessions, watcherVars, call,
                   stop, reason, timedOut, fetch, todo, button>>

MonitorStops(s) ==
    /\ monitor[s] = "exited"
    /\ EnterStop(s, "processExited")
    /\ monitor' = [monitor EXCEPT ![s] = "stopping"]
    /\ UNCHANGED <<process, startMutex, captureSessions, watcherVars, call,
                   timedOut, fetch, todo, button>>

\* If it was the exit that stopped the session, the boundary marker goes out.
EmitProcessKilledMarker(s) ==
    /\ monitor[s] = "stopping" /\ stop[s] = "done"
    /\ monitor' = [monitor EXCEPT ![s] =
          IF reason[s] = "processExited" THEN "marked" ELSE "done"]
    /\ UNCHANGED <<process, startMutex, captureSessions, watcherVars, call,
                   stop, reason, timedOut, fetch, todo, button>>

\* startRestartWatcher, then the waiting state is announced.
StartRestartWatcher(s) ==
    /\ monitor[s] = "marked"
    /\ monitor' = [monitor EXCEPT ![s] = "done"]
    /\ IF restartWatcher = None
       THEN /\ restartWatcher' = s
            /\ watcher' = [watcher EXCEPT ![s] = "polling"]
       ELSE UNCHANGED <<restartWatcher, watcher>>
    /\ UNCHANGED <<process, startMutex, captureSessions, cancelled, call, stop,
                   reason, timedOut, fetch, todo, button>>

-----------------------------------------------------------------------------
(* HiProfilerRestartWatcher.run.                                           *)

WatcherQuits(w) ==
    /\ watcher[w] = "polling" /\ w \in cancelled
    /\ watcher' = [watcher EXCEPT ![w] = "done"]
    /\ UNCHANGED <<process, startMutex, captureSessions, restartWatcher,
                   cancelled, call, sessionVars, todo, button>>

\* A PID is found, and the watcher has not been stopped: startCapture.
WatcherRestarts(w, s) ==
    /\ watcher[w] = "polling" /\ w \notin cancelled
    /\ process.up
    /\ call[s].pc = "unused"
    /\ Call(s, w)
    /\ watcher' = [watcher EXCEPT ![w] = "starting"]
    /\ UNCHANGED <<process, startMutex, captureSessions, restartWatcher,
                   cancelled, sessionVars, todo, button>>

\* startCapture returned.  After a failure the watcher polls again; after a
\* success it looks once more whether it was stopped meanwhile, and if so
\* stops what it has started.
WatcherReturns(w, s) ==
    /\ watcher[w] = "starting"
    /\ call[s].thread = w
    /\ \/ /\ call[s].pc = "failed"
          /\ call' = [call EXCEPT ![s].pc = "unused"]
          /\ watcher' = [watcher EXCEPT ![w] =
                IF w \in cancelled THEN "done" ELSE "polling"]
          /\ UNCHANGED todo
       \/ /\ call[s].pc = "live" /\ w \in cancelled
          /\ watcher' = [watcher EXCEPT ![w] = "collecting"]
          /\ todo' = [todo EXCEPT ![w] = Matching(call[s].pid)]
          /\ UNCHANGED call
       \/ /\ call[s].pc = "live" /\ w \notin cancelled
          /\ watcher' = [watcher EXCEPT ![w] = "started"]
          /\ UNCHANGED <<call, todo>>
    /\ UNCHANGED <<process, startMutex, captureSessions, restartWatcher,
                   cancelled, sessionVars, button>>

\* Mutant: the entry is deleted whoever owns it.
WatcherDeregistersAny(w) ==
    /\ watcher[w] = "started"
    /\ restartWatcher' = None
    /\ watcher' = [watcher EXCEPT ![w] = "done"]
    /\ UNCHANGED <<process, startMutex, captureSessions, cancelled, call,
                   sessionVars, todo, button>>

\* delete(restartWatchers, key), if the entry is still its own.
WatcherDeregisters(w) ==
    /\ watcher[w] = "started"
    /\ restartWatcher' = IF restartWatcher = w THEN None ELSE restartWatcher
    /\ watcher' = [watcher EXCEPT ![w] = "done"]
    /\ UNCHANGED <<process, startMutex, captureSessions, cancelled, call,
                   sessionVars, todo, button>>

WatcherCollected(w) ==
    /\ watcher[w] = "collecting" /\ todo[w] = Nothing
    /\ watcher' = [watcher EXCEPT ![w] = "done"]
    /\ UNCHANGED <<process, startMutex, captureSessions, restartWatcher,
                   cancelled, call, sessionVars, todo, button>>

-----------------------------------------------------------------------------
(* StopCapture and StopAllCaptures, once their snapshot is taken.          *)

\* watcher.stop(): stopCh is closed and the registry entry removed.
StopWatcher(t) ==
    LET w == todo[t].watcher
    IN  /\ w # None
        /\ todo' = [todo EXCEPT ![t].watcher = None]
        /\ cancelled' = cancelled \cup {w}
        /\ restartWatcher' = IF restartWatcher = w THEN None ELSE restartWatcher
        /\ UNCHANGED <<process, startMutex, captureSessions, watcher, call,
                       sessionVars, button>>

\* session.stop("manual") for the next session of the snapshot.
StopNext(t, s) ==
    /\ todo[t].watcher = None
    /\ s \in todo[t].sessions /\ stop[s] = "no"
    /\ EnterStop(s, "manual")
    /\ UNCHANGED <<process, startMutex, captureSessions, watcherVars, call,
                   timedOut, fetch, monitor, todo, button>>

\* stop returns to a caller only when the session is wound down.
StopReturns(t, s) ==
    /\ todo[t].watcher = None
    /\ s \in todo[t].sessions /\ stop[s] = "done"
    /\ todo' = [todo EXCEPT ![t].sessions = @ \ {s}]
    /\ UNCHANGED <<process, startMutex, captureSessions, watcherVars, call,
                   sessionVars, button>>

\* handleStopHiProfilerCapture of NetworkCapturePage.tsx: StopCapture for the
\* PID the page knows, then StopAllCaptures, then the page shows "idle".
PressStop(p) ==
    /\ button \in {"released", "idle"}
    /\ NoStartUnderWay
    /\ p \in {call[s].pid : s \in Sessions}
    /\ button' = "one"
    /\ todo' = [todo EXCEPT ![User] = Matching(p)]
    /\ UNCHANGED <<process, startMutex, captureSessions, watcherVars, call,
                   sessionVars>>

StopAllCaptures ==
    /\ button = "one" /\ todo[User] = Nothing
    /\ button' = "all"
    /\ todo' = [todo EXCEPT ![User] = Everything]
    /\ UNCHANGED <<process, startMutex, captureSessions, watcherVars, call,
                   sessionVars>>

StopHandled ==
    /\ button = "all" /\ todo[User] = Nothing
    /\ button' = "idle"
    /\ UNCHANGED <<process, startMutex, captureSessions, watcherVars, call,
                   sessionVars, todo>>

-----------------------------------------------------------------------------
Starting(s) ==
    \/ EnterStart(s) \/ CleanExisting(s) \/ Cleaned(s) \/ Launch(s) \/ Register(s)

Stopping(s) == StopSession(s) \/ DrainTimeout(s) \/ CloseSession(s)

Monitoring(s) ==
    \/ MonitorSeesExit(s) \/ MonitorQuits(s) \/ MonitorStops(s)
    \/ EmitProcessKilledMarker(s) \/ StartRestartWatcher(s)

Watching(w) ==
    \/ WatcherQuits(w) \/ WatcherDeregisters(w) \/ WatcherCollected(w)
    \/ \E s \in Sessions : WatcherRestarts(w, s) \/ WatcherReturns(w, s)

Collecting(t) ==
    \/ StopWatcher(t)
    \/ \E s \in Sessions : StopNext(t, s) \/ StopReturns(t, s)

Handling == StopAllCaptures \/ StopHandled

Next ==
    \/ ProcessStarts \/ ProcessExits \/ Handling
    \/ \E p \in Pids : PressStop(p)
    \/ \E s \in Sessions :
          \/ StartCapture(s) \/ Starting(s) \/ Stopping(s)
          \/ FetchEnds(s) \/ FetchStops(s) \/ FetchReturns(s)
          \/ Monitoring(s) \/ Watching(s)
    \/ \E t \in Threads : Collecting(t)

Spec == Init /\ [][Next]_vars

\* Every thread runs on.  A stream need not end by itself, but it does once
\* its connection is closed.
Fairness ==
    /\ WF_vars(Handling)
    /\ \A s \in Sessions :
          /\ WF_vars(Starting(s))
          /\ WF_vars(Stopping(s))
          /\ WF_vars(FetchEnds(s) /\ stop[s] \in {"closing", "done"})
          /\ WF_vars(FetchStops(s) \/ FetchReturns(s))
          /\ WF_vars(Monitoring(s))
          /\ WF_vars(Watching(s))
    /\ \A t \in Threads : WF_vars(Collecting(t))

FairSpec == Spec /\ Fairness

-----------------------------------------------------------------------------
(* Properties.                                                             *)

\* A session is in the registry from its start until it is wound down, so
\* that a stop can find it; in particular the second existence check of
\* startCapture, which would discard a session, never succeeds.
SessionsAreRegistered ==
    \A s \in Sessions :
        /\ call[s].pc = "live" /\ stop[s] # "done"
              => captureSessions[call[s].pid] = s
        /\ call[s].pc = "register" => captureSessions[call[s].pid] = None

\* A watcher that may still start a capture, and that nobody stopped, is in
\* the registry, so that a stop can find it.
WatchersAreRegistered ==
    \A w \in Sessions :
        watcher[w] \in {"polling", "starting"} /\ w \notin cancelled
            => restartWatcher = w

\* The marker of a process exit is not followed by requests of the tail
\* batch: it waits for fetchDataLoop, except when draining times out.
MarkerFollowsTail ==
    \A s \in Sessions :
        reason[s] = "processExited" /\ monitor[s] \in {"marked", "done"}
            => fetch[s] = "done" \/ s \in timedOut

\* The stop button always comes back, although fetchDataLoop and stop may
\* each wait for the other, and a process exit may be stopping the session.
StopsReturn == button = "one" ~> button = "idle"

\* "Stop capture" ends the capture: when the handler is through and the page
\* says idle, no session runs and no watcher waits to start one.
StopEndsCapture ==
    button = "idle" =>
        /\ restartWatcher = None
        /\ \A s \in Sessions : ~Running(s)
=============================================================================
