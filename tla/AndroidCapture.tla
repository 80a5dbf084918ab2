--------------------------- MODULE AndroidCapture ---------------------------
(***************************************************************************)
(* backend/android/capture_session.go: capturing the traffic of Android    *)
(* apps.  Hadice listens on a local port, a reverse forward carries the    *)
(* connection of the agent in the app to it, and a monitor follows the     *)
(* process: when the app restarts, the agent is loaded into the new one.   *)
(*                                                                         *)
(* A member of Calls is a call of StartAndroidCapture, and the server it   *)
(* makes.  There is one device, and one local port, 6200, which is what    *)
(* the page always asks for.                                               *)
(***************************************************************************)
EXTENDS Naturals, FiniteSets

CONSTANTS Apps,    \* package names
          Calls,   \* calls of StartAndroidCapture (bounds them)
          Conns,   \* TCP connections that are there at a time
          MaxPid,  \* an app is started at most so often
          None     \* Go's nil, and "no such entry"

ASSUME PidAssumption == MaxPid \in Nat \ {0}
ASSUME NilAssumption == None \notin Apps \cup Calls \cup Conns \cup Nat

VARIABLES
    androidCaptureServers,  \* the registry: app -> server
    call,        \* where each call of StartAndroidCapture is
    server,      \* what the servers know
    listening,   \* the open listeners; the port admits one
    webViews,    \* the WebViewCDPSessions that run: <<server, PID>>
    acceptor,    \* goroutine acceptAndroidConnections, per server
    monitor,     \* goroutine monitorAndroidCaptureProcess, per server
    conn,        \* the connections, and their readAndroidCaptureData
    forwards,    \* the forwards that adb has for this port
    process,     \* the apps on the device, by name
    agent        \* the PID into which the agent was loaded last, by app

vars == <<androidCaptureServers, call, server, listening, webViews, acceptor,
          monitor, conn, forwards, process, agent>>

device == <<process, agent>>

Pids == 1 .. MaxPid

Starters == [pc: {"unused", "probe", "listen", "relisten", "register",
                  "reverse", "jdwp", "spawn", "wait", "attach", "serve",
                  "undo", "clean", "returned", "failed"},
             app: Apps \cup {None}, pid: Pids \cup {None}, loaded: BOOLEAN]

\* AndroidCaptureServer: pending is PendingPID, and fresh says that
\* NextConnectionSeq has passed PendingStartSeq.
Servers == [running: BOOLEAN, waiting: BOOLEAN, pid: Pids \cup {None},
            webView: Pids \cup {None}, pending: Pids \cup {None},
            fresh: BOOLEAN]

Acceptors == [pc: {"none", "accept", "accepted", "done"},
              got: Conns \cup {None}]

\* The monitor: the PID it found, and its own waitingForRestart.
Monitors == [pc: {"none", "poll", "queried", "restore", "inject", "wait",
                  "web view", "install", "commit", "failed", "done"},
             pid: Pids \cup {None}, waiting: BOOLEAN]

\* ClientSession: up is IsConnected, of is the server whose Clients it is in,
\* via the listener it came in by, from the app and the process it is of.
ConnRecords == [link: {"unused", "backlog", "open", "dead"},
                via: Calls \cup {None}, of: Calls \cup {None}, up: BOOLEAN,
                from: (Apps \X Pids) \cup {None}]

Unused == [link |-> "unused", via |-> None, of |-> None, up |-> FALSE,
           from |-> None]

TypeOK ==
    /\ androidCaptureServers \in [Apps -> Calls \cup {None}]
    /\ call \in [Calls -> Starters]
    /\ server \in [Calls -> Servers]
    /\ listening \subseteq Calls /\ Cardinality(listening) <= 1
    /\ webViews \subseteq Calls \X Pids
    /\ acceptor \in [Calls -> Acceptors]
    /\ monitor \in [Calls -> Monitors]
    /\ conn \in [Conns -> ConnRecords]
    /\ forwards \subseteq {"reverse", "jdwp"}
    /\ process \in [Apps -> [pid: 0 .. MaxPid, up: BOOLEAN]]
    /\ agent \in [Apps -> 0 .. MaxPid]

Init ==
    /\ androidCaptureServers = [a \in Apps |-> None]
    /\ call = [g \in Calls |->
          [pc |-> "unused", app |-> None, pid |-> None, loaded |-> FALSE]]
    /\ server = [g \in Calls |->
          [running |-> FALSE, waiting |-> FALSE, pid |-> None,
           webView |-> None, pending |-> None, fresh |-> FALSE]]
    /\ listening = {} /\ webViews = {} /\ forwards = {}
    /\ acceptor = [g \in Calls |-> [pc |-> "none", got |-> None]]
    /\ monitor = [g \in Calls |-> [pc |-> "none", pid |-> None, waiting |-> FALSE]]
    /\ conn = [c \in Conns |-> Unused]
    /\ process = [a \in Apps |-> [pid |-> 0, up |-> FALSE]]
    /\ agent = [a \in Apps |-> 0]

-----------------------------------------------------------------------------
Registered == {androidCaptureServers[a] : a \in Apps} \ {None}

\* isAndroidCaptureServerActive
IsActive(g) == androidCaptureServers[call[g].app] = g /\ server[g].running

HasClient(g) == \E c \in Conns : conn[c].of = g /\ conn[c].up

Runs(a, p) == process[a] = [pid |-> p, up |-> TRUE]

Goto(g, pc) == call' = [call EXCEPT ![g].pc = pc]

\* Mutant: the servers are closed, but stay in the registry.
CleanupButKeep(S) ==
    /\ server' = [g \in Calls |->
          IF g \in S THEN [server[g] EXCEPT !.running = FALSE, !.webView = None]
          ELSE server[g]]
    /\ listening' = listening \ S
    /\ webViews' = webViews \ {<<g, server[g].webView>> : g \in S}
    /\ conn' = [c \in Conns |->
          IF conn[c].of \in S THEN [conn[c] EXCEPT !.up = FALSE, !.link = "dead"]
          ELSE IF conn[c].link = "backlog" /\ conn[c].via \in S THEN Unused
          ELSE conn[c]]
    /\ UNCHANGED androidCaptureServers

\* cleanupAndroidCaptureServerLocked, for the servers of S.  It deletes the
\* entry of the app, whichever server that is.
Cleanup(S) ==
    /\ server' = [g \in Calls |->
          IF g \in S THEN [server[g] EXCEPT !.running = FALSE, !.webView = None]
          ELSE server[g]]
    /\ listening' = listening \ S
    /\ webViews' = webViews \ {<<g, server[g].webView>> : g \in S}
    /\ conn' = [c \in Conns |->
          IF conn[c].of \in S THEN [conn[c] EXCEPT !.up = FALSE, !.link = "dead"]
          ELSE IF conn[c].link = "backlog" /\ conn[c].via \in S THEN Unused
          ELSE conn[c]]
    /\ androidCaptureServers' = [a \in Apps |->
          IF \E g \in S : call[g].app = a THEN None
          ELSE androidCaptureServers[a]]

-----------------------------------------------------------------------------
(* StartAndroidCapture.                                                    *)

\* For the PID that runs; a call for an app that has a running server returns.
StartAndroidCapture(g, a) ==
    /\ call[g].pc = "unused"
    /\ process[a].up
    /\ androidCaptureServers[a] = None
    /\ call' = [call EXCEPT ![g] =
          [pc |-> "probe", app |-> a, pid |-> process[a].pid, loaded |-> FALSE]]
    /\ UNCHANGED <<androidCaptureServers, server, listening, webViews, acceptor,
                   monitor, conn, forwards, device>>

\* IsAgentLoaded, and the agent is pushed if it is not; both may fail.
Probe(g) ==
    /\ call[g].pc = "probe"
    /\ \/ call' = [call EXCEPT ![g] = [@ EXCEPT
              !.pc = "listen", !.loaded = agent[call[g].app] = call[g].pid]]
       \/ Goto(g, "failed")
    /\ UNCHANGED <<androidCaptureServers, server, listening, webViews, acceptor,
                   monitor, conn, forwards, device>>

\* net.Listen; if the port is in use, StopAndroidCapturesByPort.
Listen(g) ==
    /\ call[g].pc = "listen"
    /\ \/ /\ listening = {}
          /\ listening' = {g}
          /\ Goto(g, "register")
          /\ UNCHANGED <<androidCaptureServers, server, webViews, conn, forwards>>
       \/ /\ listening # {}
          /\ Cleanup(Registered)
          /\ IF Registered = {} THEN UNCHANGED forwards
             ELSE forwards' \in SUBSET forwards
          /\ Goto(g, "relisten")
    /\ UNCHANGED <<acceptor, monitor, device>>

\* Mutant: the retry is taken to succeed.
RelistenAnyway(g) ==
    /\ call[g].pc = "relisten"
    /\ listening' = listening \cup {g}
    /\ Goto(g, "register")
    /\ UNCHANGED <<androidCaptureServers, server, webViews, acceptor, monitor,
                   conn, forwards, device>>

\* The one retry.
Relisten(g) ==
    /\ call[g].pc = "relisten"
    /\ \/ /\ listening = {}
          /\ listening' = {g}
          /\ Goto(g, "register")
       \/ /\ listening # {}
          /\ Goto(g, "failed")
          /\ UNCHANGED listening
    /\ UNCHANGED <<androidCaptureServers, server, webViews, acceptor, monitor,
                   conn, forwards, device>>

Register(g) ==
    /\ call[g].pc = "register"
    /\ server' = [server EXCEPT ![g] = [@ EXCEPT !.running = TRUE,
                                                 !.pid = call[g].pid]]
    /\ androidCaptureServers' = [androidCaptureServers EXCEPT ![call[g].app] = g]
    /\ Goto(g, "reverse")
    /\ UNCHANGED <<listening, webViews, acceptor, monitor, conn, forwards, device>>

\* SetupReversePortForwardWithVerify: on failure the forward may be there.
SetUpReverse(g) ==
    /\ call[g].pc = "reverse"
    /\ \/ /\ forwards' = forwards \cup {"reverse"}
          /\ Goto(g, IF call[g].loaded THEN "spawn" ELSE "jdwp")
       \/ /\ forwards' \in {forwards, forwards \cup {"reverse"}}
          /\ Goto(g, "clean")
    /\ UNCHANGED <<androidCaptureServers, server, listening, webViews, acceptor,
                   monitor, conn, device>>

SetUpJDWP(g) ==
    /\ call[g].pc = "jdwp"
    /\ \/ /\ forwards' = forwards \cup {"jdwp"}
          /\ Goto(g, "spawn")
       \/ /\ forwards' \in {forwards, forwards \ {"reverse"}}
          /\ Goto(g, "clean")
    /\ UNCHANGED <<androidCaptureServers, server, listening, webViews, acceptor,
                   monitor, conn, device>>

SpawnAcceptor(g) ==
    /\ call[g].pc = "spawn"
    /\ acceptor' = [acceptor EXCEPT ![g].pc = "accept"]
    /\ Goto(g, IF call[g].loaded THEN "wait" ELSE "attach")
    /\ UNCHANGED <<androidCaptureServers, server, listening, webViews, monitor,
                   conn, forwards, device>>

\* waitForAndroidAgentConnection: a loaded agent connects by itself, or not
\* within 8 seconds.
WaitForAgent(g) ==
    /\ call[g].pc = "wait"
    /\ Goto(g, IF IsActive(g) /\ HasClient(g) THEN "serve" ELSE "undo")
    /\ UNCHANGED <<androidCaptureServers, server, listening, webViews, acceptor,
                   monitor, conn, forwards, device>>

\* AttachAgentViaAM, AttachAgentViaJDWP
Attach(g) ==
    LET a == call[g].app
    IN  /\ call[g].pc = "attach"
        /\ \/ /\ Runs(a, call[g].pid)
              /\ agent' = [agent EXCEPT ![a] = call[g].pid]
              /\ Goto(g, "serve")
           \/ Goto(g, "undo") /\ UNCHANGED agent
        /\ UNCHANGED <<androidCaptureServers, server, listening, webViews,
                       acceptor, monitor, conn, forwards, process>>

\* startAndroidCaptureBackgroundServices: the field is written under no lock,
\* and whether or not the capture was stopped meanwhile.
StartBackgroundServices(g) ==
    /\ call[g].pc = "serve"
    /\ server' = [server EXCEPT ![g].webView = call[g].pid]
    /\ webViews' = webViews \cup {<<g, call[g].pid>>}
    /\ monitor' = [monitor EXCEPT ![g].pc = "poll"]
    /\ Goto(g, "returned")
    /\ UNCHANGED <<androidCaptureServers, listening, acceptor, conn, forwards,
                   device>>

\* A late failure takes the forwards back as far as adb does, and then the
\* server.
UndoForwards(g) ==
    /\ call[g].pc = "undo"
    /\ \E F \in SUBSET (IF call[g].loaded THEN {"reverse"}
                         ELSE {"reverse", "jdwp"}) :
          forwards' = forwards \ F
    /\ Goto(g, "clean")
    /\ UNCHANGED <<androidCaptureServers, server, listening, webViews, acceptor,
                   monitor, conn, device>>

CleanUpFailedStart(g) ==
    /\ call[g].pc = "clean"
    /\ Cleanup({g})
    /\ Goto(g, "failed")
    /\ UNCHANGED <<acceptor, monitor, forwards, device>>

-----------------------------------------------------------------------------
(* StopAndroidCapture, and StopAllAndroidCaptures for the device.  That    *)
(* adb cannot remove a forward is logged, no more.                         *)

Stop(S) ==
    /\ S # {}
    /\ Cleanup(S)
    /\ forwards' \in SUBSET forwards
    /\ UNCHANGED <<call, acceptor, monitor, device>>

StopAndroidCapture(a) == Stop({androidCaptureServers[a]} \ {None})

StopAllAndroidCaptures == Stop(Registered)

-----------------------------------------------------------------------------
(* acceptAndroidConnections, readAndroidCaptureData.                       *)

Accept(g, c) ==
    /\ acceptor[g].pc = "accept"
    /\ conn[c].link = "backlog" /\ conn[c].via = g
    /\ acceptor' = [acceptor EXCEPT ![g] = [pc |-> "accepted", got |-> c]]
    /\ conn' = [conn EXCEPT ![c].link =
          IF Runs(conn[c].from[1], conn[c].from[2]) THEN "open" ELSE "dead"]
    /\ UNCHANGED <<androidCaptureServers, call, server, listening, webViews,
                   monitor, forwards, device>>

AcceptFails(g) ==
    /\ acceptor[g].pc = "accept" /\ g \notin listening
    /\ acceptor' = [acceptor EXCEPT ![g].pc = "done"]
    /\ UNCHANGED <<androidCaptureServers, call, server, listening, webViews,
                   monitor, conn, forwards, device>>

\* Mutant: the connection is filed under the server that accepted it.
FileUnderAcceptor(g) ==
    LET c == acceptor[g].got
    IN  /\ acceptor[g].pc = "accepted"
        /\ acceptor' = [acceptor EXCEPT ![g] = [pc |-> "accept", got |-> None]]
        /\ conn' = [conn EXCEPT ![c].of = g, ![c].up = TRUE]
        /\ server' = [server EXCEPT ![g].fresh = TRUE]
        /\ UNCHANGED <<androidCaptureServers, call, listening, webViews, monitor,
                       forwards, device>>

\* The connection joins the clients of the server that the registry has for
\* the app by now, or is closed if there is none.
FileConnection(g) ==
    LET c == acceptor[g].got
        s == androidCaptureServers[call[g].app]
    IN  /\ acceptor[g].pc = "accepted"
        /\ acceptor' = [acceptor EXCEPT ![g] = [pc |-> "accept", got |-> None]]
        /\ \/ /\ s # None => ~server[s].running
              /\ conn' = [conn EXCEPT ![c] = Unused]
              /\ UNCHANGED server
           \/ /\ s # None /\ server[s].running
              /\ conn' = [conn EXCEPT ![c] = [@ EXCEPT !.of = s, !.up = TRUE]]
              /\ server' = [server EXCEPT ![s].fresh = TRUE]
        /\ UNCHANGED <<androidCaptureServers, call, listening, webViews, monitor,
                       forwards, device>>

\* pushMockConfigToClient: the write fails.
PushFails(c) ==
    /\ conn[c].of # None /\ conn[c].link = "dead" /\ conn[c].up
    /\ conn' = [conn EXCEPT ![c].up = FALSE]
    /\ UNCHANGED <<androidCaptureServers, call, server, listening, webViews,
                   acceptor, monitor, forwards, device>>

\* The scanner meets the end.  A client that is through has no further
\* effect, and its name is free for another connection.
ReadEnds(c) ==
    /\ conn[c].of # None /\ conn[c].link = "dead"
    /\ conn' = [conn EXCEPT ![c] = Unused]
    /\ UNCHANGED <<androidCaptureServers, call, server, listening, webViews,
                   acceptor, monitor, forwards, device>>

-----------------------------------------------------------------------------
(* monitorAndroidCaptureProcess, reattachAndroidCaptureProcess.            *)

MonitorGoes(g, pc) == monitor' = [monitor EXCEPT ![g].pc = pc]

\* MonitorStop is closed.
MonitorQuits(g) ==
    /\ monitor[g].pc = "poll" /\ ~server[g].running
    /\ MonitorGoes(g, "done")
    /\ UNCHANGED <<androidCaptureServers, call, server, listening, webViews,
                   acceptor, conn, forwards, device>>

\* QueryPidByProcessName
MonitorQueries(g) ==
    LET now == process[call[g].app]
    IN  /\ monitor[g].pc = "poll"
        /\ monitor' = [monitor EXCEPT ![g] = [@ EXCEPT
              !.pc = "queried", !.pid = IF now.up THEN now.pid ELSE None]]
        /\ UNCHANGED <<androidCaptureServers, call, server, listening, webViews,
                       acceptor, conn, forwards, device>>

\* Nothing is left to do, or the process is gone, or as it was, or it is a
\* new one.  PendingStartSeq stays if an earlier attempt for it failed.
MonitorDecides(g) ==
    LET p == monitor[g].pid
    IN  /\ monitor[g].pc = "queried"
        /\ \/ /\ ~IsActive(g)
              /\ MonitorGoes(g, "done")
              /\ UNCHANGED server
           \/ /\ IsActive(g) /\ p = None
              /\ monitor' = [monitor EXCEPT ![g] = [@ EXCEPT
                    !.pc = "poll", !.waiting = TRUE]]
              /\ server' = [server EXCEPT ![g].waiting =
                    @ \/ ~monitor[g].waiting]
           \/ /\ IsActive(g) /\ p = server[g].pid /\ ~monitor[g].waiting
              /\ MonitorGoes(g, "poll")
              /\ UNCHANGED server
           \/ /\ IsActive(g) /\ p # None
              /\ p # server[g].pid \/ monitor[g].waiting
              /\ MonitorGoes(g, "restore")
              /\ server' = IF server[g].pending = p THEN server
                           ELSE [server EXCEPT ![g] = [@ EXCEPT
                                    !.pending = p, !.fresh = FALSE]]
        /\ UNCHANGED <<androidCaptureServers, call, listening, webViews,
                       acceptor, conn, forwards, device>>

MonitorRestores(g) ==
    /\ monitor[g].pc = "restore"
    /\ \/ /\ forwards' = forwards \cup {"reverse"}
          /\ MonitorGoes(g, "inject")
       \/ /\ forwards' \in {forwards, forwards \cup {"reverse"}}
          /\ MonitorGoes(g, "failed")
    /\ UNCHANGED <<androidCaptureServers, call, server, listening, webViews,
                   acceptor, conn, device>>

\* Mutant: an agent that was loaded into any process will do.
InjectsOnce(g) ==
    LET a == call[g].app
        p == monitor[g].pid
    IN  /\ monitor[g].pc = "inject"
        /\ \/ /\ agent[a] # 0
              /\ MonitorGoes(g, "wait")
              /\ UNCHANGED <<agent, forwards>>
           \/ /\ agent[a] = 0 /\ Runs(a, p)
              /\ forwards' = forwards \cup {"jdwp"}
              /\ agent' = [agent EXCEPT ![a] = p]
              /\ MonitorGoes(g, "wait")
           \/ /\ MonitorGoes(g, "failed")
              /\ forwards' \in {forwards, forwards \ {"jdwp"},
                                forwards \cup {"jdwp"}}
              /\ UNCHANGED agent
        /\ UNCHANGED <<androidCaptureServers, call, server, listening, webViews,
                       acceptor, conn, process>>

\* The agent is in the new process, or is loaded into it, or a step fails
\* before or after the JDWP forward is replaced.
MonitorInjects(g) ==
    LET a == call[g].app
        p == monitor[g].pid
    IN  /\ monitor[g].pc = "inject"
        /\ \/ /\ agent[a] = p
              /\ MonitorGoes(g, "wait")
              /\ UNCHANGED <<agent, forwards>>
           \/ /\ agent[a] # p /\ Runs(a, p)
              /\ forwards' = forwards \cup {"jdwp"}
              /\ agent' = [agent EXCEPT ![a] = p]
              /\ MonitorGoes(g, "wait")
           \/ /\ MonitorGoes(g, "failed")
              /\ forwards' \in {forwards, forwards \ {"jdwp"},
                                forwards \cup {"jdwp"}}
              /\ UNCHANGED agent
        /\ UNCHANGED <<androidCaptureServers, call, server, listening, webViews,
                       acceptor, conn, process>>

\* waitForAndroidAgentConnectionAfter: a connection since the first attempt,
\* and a client that is connected.
MonitorWaits(g) ==
    /\ monitor[g].pc = "wait"
    /\ MonitorGoes(g, IF IsActive(g) /\ server[g].fresh /\ HasClient(g)
                      THEN "web view" ELSE "failed")
    /\ UNCHANGED <<androidCaptureServers, call, server, listening, webViews,
                   acceptor, conn, forwards, device>>

\* restartAndroidWebViewSession
RestartWebView(g) ==
    /\ monitor[g].pc = "web view"
    /\ server' = [server EXCEPT ![g].webView = None]
    /\ webViews' = (webViews \ {<<g, server[g].webView>>})
                        \cup {<<g, monitor[g].pid>>}
    /\ MonitorGoes(g, "install")
    /\ UNCHANGED <<androidCaptureServers, call, listening, acceptor, conn,
                   forwards, device>>

InstallWebView(g) ==
    /\ monitor[g].pc = "install"
    /\ \/ /\ IsActive(g)
          /\ server' = [server EXCEPT ![g].webView = monitor[g].pid]
          /\ MonitorGoes(g, "commit")
          /\ UNCHANGED webViews
       \/ /\ ~IsActive(g)
          /\ webViews' = webViews \ {<<g, monitor[g].pid>>}
          /\ MonitorGoes(g, "failed")
          /\ UNCHANGED server
    /\ UNCHANGED <<androidCaptureServers, call, listening, acceptor, conn,
                   forwards, device>>

MonitorSwitches(g) ==
    /\ monitor[g].pc = "commit"
    /\ \/ /\ IsActive(g)
          /\ server' = [server EXCEPT ![g] = [@ EXCEPT
                !.pid = monitor[g].pid, !.waiting = FALSE, !.pending = None]]
          /\ monitor' = [monitor EXCEPT ![g] = [@ EXCEPT
                !.pc = "poll", !.waiting = FALSE]]
       \/ /\ ~IsActive(g)
          /\ MonitorGoes(g, "done")
          /\ UNCHANGED server
    /\ UNCHANGED <<androidCaptureServers, call, listening, webViews, acceptor,
                   conn, forwards, device>>

\* Mutant: a failed attempt is the last.
GivesUp(g) ==
    /\ monitor[g].pc = "failed"
    /\ MonitorGoes(g, "done")
    /\ UNCHANGED <<androidCaptureServers, call, server, listening, webViews,
                   acceptor, conn, forwards, device>>

\* Another attempt follows, unless the capture was stopped.
MonitorFails(g) ==
    /\ monitor[g].pc = "failed"
    /\ monitor' = [monitor EXCEPT ![g] =
          IF IsActive(g) THEN [@ EXCEPT !.pc = "poll", !.waiting = TRUE]
          ELSE [@ EXCEPT !.pc = "done"]]
    /\ UNCHANGED <<androidCaptureServers, call, server, listening, webViews,
                   acceptor, conn, forwards, device>>

-----------------------------------------------------------------------------
(* The device.                                                             *)

AppStarts(a) ==
    /\ ~process[a].up /\ process[a].pid < MaxPid
    /\ process' = [process EXCEPT ![a] = [pid |-> @.pid + 1, up |-> TRUE]]
    /\ UNCHANGED <<androidCaptureServers, call, server, listening, webViews,
                   acceptor, monitor, conn, forwards, agent>>

\* Its connections end with it.
AppExits(a) ==
    /\ process[a].up
    /\ process' = [process EXCEPT ![a].up = FALSE]
    /\ conn' = [c \in Conns |->
          IF conn[c].link = "open" /\ conn[c].from = <<a, process[a].pid>>
          THEN [conn[c] EXCEPT !.link = "dead"] ELSE conn[c]]
    /\ UNCHANGED <<androidCaptureServers, call, server, listening, webViews,
                   acceptor, monitor, forwards, agent>>

\* An agent without a connection keeps trying (see AgentSocket); it asks for
\* the port, not for a capture.
Dial(c, a) ==
    /\ process[a].up /\ agent[a] = process[a].pid
    /\ "reverse" \in forwards
    /\ conn[c].link = "unused"
    /\ \A d \in Conns : conn[d].link \in {"backlog", "open"} =>
                            conn[d].from # <<a, process[a].pid>>
    /\ \E l \in listening :
          conn' = [conn EXCEPT ![c] = [@ EXCEPT
              !.link = "backlog", !.via = l, !.from = <<a, process[a].pid>>]]
    /\ UNCHANGED <<androidCaptureServers, call, server, listening, webViews,
                   acceptor, monitor, forwards, device>>

\* adb loses the link.
LinkBreaks(c) ==
    /\ conn[c].link = "open"
    /\ conn' = [conn EXCEPT ![c].link = "dead"]
    /\ UNCHANGED <<androidCaptureServers, call, server, listening, webViews,
                   acceptor, monitor, forwards, device>>

-----------------------------------------------------------------------------
Starting(g) ==
    \/ Probe(g) \/ Listen(g) \/ Relisten(g) \/ Register(g)
    \/ SetUpReverse(g) \/ SetUpJDWP(g) \/ SpawnAcceptor(g)
    \/ WaitForAgent(g) \/ Attach(g) \/ StartBackgroundServices(g)
    \/ UndoForwards(g) \/ CleanUpFailedStart(g)

Accepting(g) ==
    \/ AcceptFails(g) \/ FileConnection(g)
    \/ \E c \in Conns : Accept(g, c)

Monitoring(g) ==
    \/ MonitorQuits(g) \/ MonitorQueries(g) \/ MonitorDecides(g)
    \/ MonitorRestores(g) \/ MonitorInjects(g) \/ MonitorWaits(g)
    \/ RestartWebView(g) \/ InstallWebView(g) \/ MonitorSwitches(g)
    \/ MonitorFails(g)

Next ==
    \/ \E g \in Calls, a \in Apps : StartAndroidCapture(g, a)
    \/ \E a \in Apps : StopAndroidCapture(a) \/ AppStarts(a) \/ AppExits(a)
    \/ StopAllAndroidCaptures
    \/ \E g \in Calls : Starting(g) \/ Accepting(g) \/ Monitoring(g)
    \/ \E c \in Conns : \/ PushFails(c) \/ ReadEnds(c) \/ LinkBreaks(c)
                       \/ \E a \in Apps : Dial(c, a)

Spec == Init /\ [][Next]_vars

\* A step of a call, of an acceptor or of a monitor is taken in the end; a step
\* that adb may fail succeeds if it is tried over and over.  Nobody has to
\* start or to stop a capture, or an app.
Fairness ==
    /\ \A g \in Calls :
          /\ WF_vars(Starting(g)) /\ WF_vars(Accepting(g))
          /\ WF_vars(Monitoring(g))
          /\ SF_vars(MonitorRestores(g) /\ monitor'[g].pc = "inject")
          /\ SF_vars(MonitorInjects(g) /\ monitor'[g].pc = "wait")
          /\ SF_vars(MonitorWaits(g) /\ monitor'[g].pc = "web view")
    /\ \A c \in Conns : WF_vars(ReadEnds(c))
    /\ \A a \in Apps : SF_vars(\E c \in Conns : Dial(c, a))

FairSpec == Spec /\ Fairness

-----------------------------------------------------------------------------
(* Properties.                                                             *)

\* The capture that the registry names for an app is one of that app, runs,
\* and has the port: what status, stop and mock updates find is the real one.
RegisteredServersListen ==
    \A a \in Apps : LET s == androidCaptureServers[a]
                    IN  s # None => /\ call[s].app = a
                                    /\ server[s].running
                                    /\ s \in listening

\* No connection of a capture survives it: one accepted while the capture is
\* stopped is closed by the stop or by the acceptor, whichever comes last.
StoppedCapturesAreQuiet ==
    \A c \in Conns : conn[c].of # None /\ conn[c].link = "open" =>
                        server[conn[c].of].running

\* A capture follows its app only into a process that has the agent.
SwitchesFollowTheAgent ==
    [][\A g \in Calls :
          server[g].pid # None /\ server'[g].pid # server[g].pid =>
              agent[call[g].app] >= server'[g].pid]_vars

\* The app that has the port, for the promise in PortOwnership.
Owners == INSTANCE PortOwnership WITH
    Devices <- Apps, Ports <- {6200},
    owner <- [p \in {6200} |->
        IF Registered = {} THEN None
        ELSE CHOOSE a \in Apps : androidCaptureServers[a] # None]

\* Between the apps of a device the port changes hands by way of nobody.
ImplementsPortOwnership == Owners!Spec

\* If an app stays up after a restart, its capture ends up on the new process,
\* provided that adb does not break the connection over and over.
RestartIsFollowed ==
    \A a \in Apps, g \in Calls, p \in Pids :
        /\ <>[](androidCaptureServers[a] = g /\ Runs(a, p))
        /\ <>[][\A c \in Conns : ~LinkBreaks(c)]_vars
        => <>[](server[g].pid = p /\ ~server[g].waiting)

\* When every start is through and no capture is left, the port is free.
ListenersAreReleased ==
    (/\ Registered = {}
     /\ \A g \in Calls : call[g].pc \in {"unused", "returned", "failed"})
    => listening = {}
=============================================================================
