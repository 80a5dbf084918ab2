----------------------------- MODULE ShellSession -----------------------------
(* One shell of the terminal page: its processes in the backend (shell.go),  *)
(* and the panes that start, restart and leave it (ShellSessionPane of       *)
(* HdcShellPage.tsx).  A shell outlives its pane, so that the page can move  *)
(* between the main window and a window of its own; the pane that appears    *)
(* there attaches to what runs.  What a pane shows, and whether it listens,  *)
(* is left out.                                                              *)
(*                                                                           *)
(* Each call of a pane is served by a goroutine of its own, and each process *)
(* has one that waits for its end.                                           *)
EXTENDS Naturals, FiniteSets

CONSTANTS
    Processes,  \* the shells that are ever started under this id
    Windows,    \* where the pane may be
    Calls,      \* starts and restarts in progress
    None

VARIABLES
    active,    \* activeShells[shellId]
    process,   \* each process, its isClosed, and its goroutine waitForExit
    tab,       \* "open", "closing" once StopShell is sent, "closed"
    pane,      \* the window the pane is mounted in, or None
    calls      \* each call: the window of its pane, and how far it is

shellVars == <<active, process, tab, pane, calls>>

Process == [state : {"none", "runs", "ended"}, closed : BOOLEAN,
            waiter : {"waiting", "removing", "done"}]
Call == [by : Windows \cup {None}, at : {"ask", "told", "stop", "start", "done"}]

TypeOK ==
    /\ active \in Processes \cup {None}
    /\ process \in [Processes -> Process]
    /\ tab \in {"open", "closing", "closed"}
    /\ pane \in Windows \cup {None}
    /\ calls \in [Calls -> Call \cup {None}]

Init ==
    /\ active = None
    /\ process = [p \in Processes |->
                    [state |-> "none", closed |-> FALSE, waiter |-> "waiting"]]
    /\ tab = "open"
    /\ pane = None
    /\ calls = [c \in Calls |-> None]

-----------------------------------------------------------------------------
(* The backend.                                                              *)

(* The user leaves the shell, or it dies.                                    *)
Exit(p) ==
    /\ process[p].state = "runs"
    /\ process' = [process EXCEPT ![p].state = "ended"]
    /\ UNCHANGED <<active, tab, pane, calls>>

(* waitForExit finds out under sp.mu whether the shell was stopped; a        *)
(* stopped one is removed by whoever stopped it.                             *)
ExitNoticed(p) ==
    /\ process[p].state = "ended" /\ process[p].waiter = "waiting"
    /\ process' = [process EXCEPT
           ![p].closed = TRUE,
           ![p].waiter = IF process[p].closed THEN "done" ELSE "removing"]
    /\ UNCHANGED <<active, tab, pane, calls>>

\* Mutant: whatever is registered is removed.
DeregisterAny(p) ==
    /\ process[p].waiter = "removing"
    /\ process' = [process EXCEPT ![p].waiter = "done"]
    /\ active' = None
    /\ UNCHANGED <<tab, pane, calls>>

(* Then, under shellMutex, it removes this process if no other took its      *)
(* place meanwhile.                                                          *)
Deregister(p) ==
    /\ process[p].waiter = "removing"
    /\ process' = [process EXCEPT ![p].waiter = "done"]
    /\ active' = IF active = p THEN None ELSE active
    /\ UNCHANGED <<tab, pane, calls>>

(* stop, and the removal that follows it under shellMutex.  Closing the      *)
(* terminal ends the process.                                                *)
StopActive ==
    /\ active' = None
    /\ process' = IF active = None \/ process[active].closed THEN process
                  ELSE [process EXCEPT ![active].closed = TRUE,
                                       ![active].state = "ended"]

(* StartShell, under shellMutex: what is registered is attached to, whether  *)
(* its process still runs or not; a start may fail.                          *)
StartShell ==
    \/ UNCHANGED <<active, process>>
    \/ /\ active = None
       /\ \E p \in Processes :
            /\ process[p].state = "none"
            /\ active' = p
            /\ process' = [process EXCEPT ![p].state = "runs"]

(* One more request of a call is served: IsShellRunning, whose answer only   *)
(* decides what is restored to the screen; RestartShell, which unlocks       *)
(* between its halves; StartShell.                                           *)
Serve(c) ==
    /\ calls[c] # None
    /\ \/ /\ calls[c].at = "ask"
          /\ calls' = [calls EXCEPT ![c].at = "told"]
          /\ UNCHANGED <<active, process>>
       \/ /\ calls[c].at = "stop"
          /\ calls' = [calls EXCEPT ![c].at = "start"]
          /\ StopActive
       \/ /\ calls[c].at = "start"
          /\ calls' = [calls EXCEPT ![c].at = "done"]
          /\ StartShell
    /\ UNCHANGED <<tab, pane>>

(* StopShell, which the closing tab sent.                                    *)
ServeStop ==
    /\ tab = "closing" /\ tab' = "closed"
    /\ StopActive
    /\ UNCHANGED <<pane, calls>>

-----------------------------------------------------------------------------
(* The panes.                                                                *)

Mount(w, c) ==
    /\ tab = "open" /\ pane = None /\ calls[c] = None
    /\ pane' = w
    /\ calls' = [calls EXCEPT ![c] = [by |-> w, at |-> "ask"]]
    /\ UNCHANGED <<active, process, tab>>

PressRestart(w, c) ==
    /\ pane = w /\ calls[c] = None
    /\ calls' = [calls EXCEPT ![c] = [by |-> w, at |-> "stop"]]
    /\ UNCHANGED <<active, process, tab, pane>>

(* The pane goes; a request under way is served all the same, and its        *)
(* answer ignored.                                                           *)
Unmounted ==
    /\ pane # None /\ pane' = None
    /\ calls' = [c \in Calls |-> IF calls[c] = None THEN None
                                 ELSE [calls[c] EXCEPT !.by = None]]
    /\ UNCHANGED <<active, process>>

(* The page moves to another window or is left; the shell goes on.           *)
Unmount == Unmounted /\ UNCHANGED tab

CloseTab == Unmounted /\ tab' = "closing"

(* The answer: a pane that is still there asks for the start after           *)
(* IsShellRunning.                                                           *)
Answer(c) ==
    /\ calls[c] # None /\ calls[c].at \in {"told", "done"}
    /\ calls' = [calls EXCEPT ![c] =
                    IF calls[c].at = "told" /\ calls[c].by # None
                    THEN [@ EXCEPT !.at = "start"] ELSE None]
    /\ UNCHANGED <<active, process, tab, pane>>

(* The id of a closed tab is not used again.                                 *)
Closed == tab = "closed" /\ UNCHANGED <<active, process, tab, pane, calls>>

Next ==
    \/ \E p \in Processes : Exit(p) \/ ExitNoticed(p) \/ Deregister(p)
    \/ \E c \in Calls : Serve(c) \/ Answer(c)
    \/ \E w \in Windows, c \in Calls : Mount(w, c) \/ PressRestart(w, c)
    \/ Unmount \/ CloseTab \/ ServeStop \/ Closed

Spec == Init /\ [][Next]_shellVars

-----------------------------------------------------------------------------
(* No shell runs out of reach: a process that runs is the registered one, so *)
(* that the next pane attaches to it and a stop, a restart or the shutdown   *)
(* ends it.  And no dead shell stays: if the registered process has ended,   *)
(* its goroutine is still to remove it, so that a later start is not         *)
(* answered by attaching to nothing.  Both however exits, stops, restarts    *)
(* and starts of several panes interleave.                                   *)
RegisteredShellRuns ==
    \A p \in Processes :
        /\ process[p].state = "runs" => active = p
        /\ active = p /\ process[p].state = "ended" =>
            \/ process[p].waiter = "waiting" /\ ~process[p].closed
            \/ process[p].waiter = "removing"
==============================================================================
