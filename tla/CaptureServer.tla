---------------------------- MODULE CaptureServer ----------------------------
(***************************************************************************)
(* The capture servers of backend/capture_session.go ("new architecture"): *)
(* Hadice listens on a local TCP port, a reverse forward carries the app's *)
(* connections to it, and per server one goroutine accepts, one sends      *)
(* heartbeats, one watches the clients, and one per connection reads.      *)
(*                                                                         *)
(* A call of StartCaptureServer is a member of Calls.  What the call makes *)
(* is named after it: its listener, its ticker, its server object and the  *)
(* goroutines it starts.  An action is one critical section, or one step   *)
(* on an unprotected field.                                                *)
(***************************************************************************)
EXTENDS Naturals, FiniteSets

CONSTANTS Devices,   \* device ids
          Ports,     \* local TCP ports
          Calls,     \* calls of StartCaptureServer (bounds the starts)
          Conns,     \* TCP connections from the devices (bounds them)
          None       \* Go's nil, and "no such entry"

ASSUME NilAssumption ==
    None \notin Devices \cup Ports \cup Calls \cup Conns

VARIABLES
    captureServers,  \* the registry: key <<device, local port>> -> object
    object,          \* the server objects, by the call that made them
    starter,         \* where each call of StartCaptureServer is
    listening,       \* the listeners that are open, by call
    tickers,         \* the heartbeat tickers that still fire, by call
    acceptor,        \* goroutine acceptConnections, by call
    heart,           \* heartbeat goroutine, by call
    monitor,         \* goroutine monitorClientConnections, by call
    conn,            \* the connections and their readClientData goroutine
    panicked         \* a nil dereference ended the program

vars == <<captureServers, object, starter, listening, tickers, acceptor,
          heart, monitor, conn, panicked>>

Keys == Devices \X Ports

\* CaptureServer: Clients maps device ids to sessions, but acceptConnections
\* always files under the server's own DeviceID, so it holds one or none.
Objects == [dev: Devices \cup {None}, port: Ports \cup {None},
            server: Calls \cup {None}, running: BOOLEAN,
            client: Conns \cup {None}, timer: Calls \cup {None}]

Starters == [pc: {"unused", "check", "forward", "listen", "register", "arm",
                  "spawn", "returned", "failed"},
             dev: Devices \cup {None}, port: Ports \cup {None},
             obj: Calls \cup {None}]

\* acceptConnections: the listener it waits on and the connection in hand.
Acceptors == [pc: {"none", "top", "accept", "accepted", "done"},
              on: Calls \cup {None}, got: Conns \cup {None}]

\* The heartbeat goroutine, and the ticker it ranges over.
Hearts == [pc: {"none", "spawned", "ticking", "done"}, on: Calls \cup {None}]

\* ClientSession: up is IsConnected, stale says that the last message is
\* more than 60 seconds old, via is the listener the connection came in by.
ConnRecords == [link: {"unused", "backlog", "open", "dead"},
                via: Calls \cup {None}, up: BOOLEAN, stale: BOOLEAN,
                reader: {"none", "reading", "ending", "done"}]

TypeOK ==
    /\ captureServers \in [Keys -> Calls \cup {None}]
    /\ object \in [Calls -> Objects]
    /\ starter \in [Calls -> Starters]
    /\ listening \subseteq Calls
    /\ tickers \subseteq Calls
    /\ acceptor \in [Calls -> Acceptors]
    /\ heart \in [Calls -> Hearts]
    /\ monitor \in [Calls -> {"none", "ticking", "done"}]
    /\ conn \in [Conns -> ConnRecords]
    /\ panicked \in BOOLEAN

Init ==
    /\ captureServers = [k \in Keys |-> None]
    /\ object = [g \in Calls |->
          [dev |-> None, port |-> None, server |-> None, running |-> FALSE,
           client |-> None, timer |-> None]]
    /\ starter = [g \in Calls |->
          [pc |-> "unused", dev |-> None, port |-> None, obj |-> None]]
    /\ listening = {}
    /\ tickers = {}
    /\ acceptor = [g \in Calls |-> [pc |-> "none", on |-> None, got |-> None]]
    /\ heart = [g \in Calls |-> [pc |-> "none", on |-> None]]
    /\ monitor = [g \in Calls |-> "none"]
    /\ conn = [c \in Conns |->
          [link |-> "unused", via |-> None, up |-> FALSE, stale |-> FALSE,
           reader |-> "none"]]
    /\ panicked = FALSE

-----------------------------------------------------------------------------
(* Shared pieces.                                                          *)

Registered == {captureServers[k] : k \in Keys} \ {None}

\* The object whose goroutines the call g started.
Served(g) == starter[g].obj

Clients(S) == {object[s].client : s \in S} \ {None}

\* Closing the listeners in L resets the connections waiting in their
\* backlog; closing the connections in C kills their links.
CloseLinks(L, C) ==
    conn' = [c \in Conns |->
        IF c \in C \/ (conn[c].link = "backlog" /\ conn[c].via \in L)
        THEN [conn[c] EXCEPT !.link = "dead"] ELSE conn[c]]

CloseListenersAndClients(S) ==
    LET L == {object[s].server : s \in S}
    IN  /\ listening' = listening \ L
        /\ tickers' = tickers \ {object[s].timer : s \in S}
        /\ CloseLinks(L, Clients(S))

-----------------------------------------------------------------------------
(* StartCaptureServer.                                                     *)

\* The servers of this device or on this port are closed and forgotten, but
\* their objects still say IsRunning.
StartCaptureServer(g, d, p) ==
    LET old == {s \in Registered : object[s].dev = d \/ object[s].port = p}
    IN  /\ starter[g].pc = "unused"
        /\ starter' = [starter EXCEPT ![g] =
              [pc |-> "check", dev |-> d, port |-> p, obj |-> None]]
        /\ captureServers' = [k \in Keys |->
              IF captureServers[k] \in old THEN None ELSE captureServers[k]]
        /\ CloseListenersAndClients(old)
        /\ UNCHANGED <<object, acceptor, heart, monitor, panicked>>

\* The registry lock was released: an overtaking start of the same key may
\* have registered a running server, and this one returns.
CheckExisting(g) ==
    LET s == captureServers[<<starter[g].dev, starter[g].port>>]
    IN  /\ starter[g].pc = "check"
        /\ starter' = [starter EXCEPT ![g].pc =
              IF s # None /\ object[s].running /\ object[s].server # None
              THEN "returned" ELSE "forward"]
        /\ UNCHANGED <<captureServers, object, listening, tickers, acceptor,
                       heart, monitor, conn, panicked>>

\* hdc reports the reverse forward, or configures it, or the start fails.
EnsureForward(g) ==
    /\ starter[g].pc = "forward"
    /\ \E outcome \in {"listen", "failed"} :
          starter' = [starter EXCEPT ![g].pc = outcome]
    /\ UNCHANGED <<captureServers, object, listening, tickers, acceptor,
                   heart, monitor, conn, panicked>>

\* Mutant: the error of net.Listen is ignored.
ListenAnyway(g) ==
    /\ starter[g].pc = "listen"
    /\ \/ /\ \A h \in listening : starter[h].port # starter[g].port
          /\ listening' = listening \cup {g}
          /\ starter' = [starter EXCEPT ![g].pc = "register"]
       \/ /\ \E h \in listening : starter[h].port = starter[g].port
          /\ starter' = [starter EXCEPT ![g].pc = "register"]
          /\ UNCHANGED listening
    /\ UNCHANGED <<captureServers, object, tickers, acceptor, heart, monitor,
                   conn, panicked>>

\* net.Listen: the port is free and bound, or the start fails.
Listen(g) ==
    /\ starter[g].pc = "listen"
    /\ \/ /\ \A h \in listening : starter[h].port # starter[g].port
          /\ listening' = listening \cup {g}
          /\ starter' = [starter EXCEPT ![g].pc = "register"]
       \/ /\ \E h \in listening : starter[h].port = starter[g].port
          /\ starter' = [starter EXCEPT ![g].pc = "failed"]
          /\ UNCHANGED listening
    /\ UNCHANGED <<captureServers, object, tickers, acceptor, heart, monitor,
                   conn, panicked>>

\* A new object, or the stopped one that the registry keeps under the key.
Register(g) ==
    LET key == <<starter[g].dev, starter[g].port>>
        s   == IF captureServers[key] = None THEN g ELSE captureServers[key]
    IN  /\ starter[g].pc = "register"
        /\ starter' = [starter EXCEPT ![g] = [@ EXCEPT !.pc = "arm", !.obj = s]]
        /\ captureServers' = [captureServers EXCEPT ![key] = s]
        /\ object' = [object EXCEPT ![s] =
              IF s = g
              THEN [dev |-> key[1], port |-> key[2], server |-> g,
                    running |-> TRUE, client |-> None, timer |-> None]
              ELSE [@ EXCEPT !.server = g, !.running = TRUE]]
        /\ UNCHANGED <<listening, tickers, acceptor, heart, monitor, conn,
                       panicked>>

\* Mutant: the ticker is taken from the server before it is stored there.
ArmTimerOfServer(g) ==
    /\ starter[g].pc = "arm"
    /\ starter' = [starter EXCEPT ![g].pc = "spawn"]
    /\ object' = [object EXCEPT ![Served(g)].timer = g]
    /\ tickers' = tickers \cup {object[Served(g)].timer}
    /\ UNCHANGED <<captureServers, listening, acceptor, heart, monitor, conn,
                   panicked>>

\* server.HeartbeatTimer = time.NewTicker(..), under no lock.
ArmTimer(g) ==
    /\ starter[g].pc = "arm"
    /\ starter' = [starter EXCEPT ![g].pc = "spawn"]
    /\ object' = [object EXCEPT ![Served(g)].timer = g]
    /\ tickers' = tickers \cup {g}
    /\ UNCHANGED <<captureServers, listening, acceptor, heart, monitor, conn,
                   panicked>>

\* Mutant: a server object that is used again gets no goroutines.
SpawnForNewServer(g) ==
    /\ starter[g].pc = "spawn"
    /\ starter' = [starter EXCEPT ![g].pc = "returned"]
    /\ acceptor' = [acceptor EXCEPT ![g].pc = IF Served(g) = g THEN "top" ELSE "done"]
    /\ heart' = [heart EXCEPT ![g].pc = "spawned"]
    /\ monitor' = [monitor EXCEPT ![g] = "ticking"]
    /\ UNCHANGED <<captureServers, object, listening, tickers, conn, panicked>>

SpawnGoroutines(g) ==
    /\ starter[g].pc = "spawn"
    /\ starter' = [starter EXCEPT ![g].pc = "returned"]
    /\ acceptor' = [acceptor EXCEPT ![g].pc = "top"]
    /\ heart' = [heart EXCEPT ![g].pc = "spawned"]
    /\ monitor' = [monitor EXCEPT ![g] = "ticking"]
    /\ UNCHANGED <<captureServers, object, listening, tickers, conn, panicked>>

-----------------------------------------------------------------------------
(* StopCaptureServer and stopCaptureServersByPort.                         *)

\* Mutant: IsRunning is not cleared.
StopServersStillRunning(S) ==
    /\ object' = [s \in Calls |->
          IF s \in S
          THEN [object[s] EXCEPT !.timer = None, !.server = None, !.client = None]
          ELSE object[s]]
    /\ CloseListenersAndClients(S)
    /\ UNCHANGED <<starter, acceptor, heart, monitor, panicked>>

\* Each server of S in turn under its mutex; the registry lock, which both
\* callers hold, makes the sequence one step for everybody else.
StopServers(S) ==
    /\ object' = [s \in Calls |->
          IF s \in S
          THEN [object[s] EXCEPT !.timer = None, !.server = None,
                                 !.client = None, !.running = FALSE]
          ELSE object[s]]
    /\ CloseListenersAndClients(S)
    /\ UNCHANGED <<starter, acceptor, heart, monitor, panicked>>

StopCaptureServer(d) ==
    LET S == {s \in Registered : object[s].dev = d}
    IN  /\ S # {}
        /\ StopServers(S)
        /\ UNCHANGED captureServers

\* Called before an Android capture takes the port: the objects go too.
StopCaptureServersByPort(p) ==
    LET S == {s \in Registered : object[s].port = p}
    IN  /\ S # {}
        /\ StopServers(S)
        /\ captureServers' = [k \in Keys |->
              IF captureServers[k] \in S THEN None ELSE captureServers[k]]

-----------------------------------------------------------------------------
(* acceptConnections.                                                      *)

\* server.Server.Accept(): the field is read under no lock, and a stopped
\* server has it nil.
EvaluateListener(g) ==
    LET l == object[Served(g)].server
    IN  /\ acceptor[g].pc = "top"
        /\ IF l = None
           THEN panicked' = TRUE /\ UNCHANGED acceptor
           ELSE /\ acceptor' = [acceptor EXCEPT
                                 ![g] = [@ EXCEPT !.pc = "accept", !.on = l]]
                /\ UNCHANGED panicked
        /\ UNCHANGED <<captureServers, object, starter, listening, tickers,
                       heart, monitor, conn>>

Accept(g, c) ==
    /\ acceptor[g].pc = "accept"
    /\ conn[c].link = "backlog" /\ conn[c].via = acceptor[g].on
    /\ acceptor' = [acceptor EXCEPT
                        ![g] = [@ EXCEPT !.pc = "accepted", !.got = c]]
    /\ conn' = [conn EXCEPT ![c] = [@ EXCEPT !.link = "open", !.up = TRUE]]
    /\ UNCHANGED <<captureServers, object, starter, listening, tickers, heart,
                   monitor, panicked>>

\* The listener is closed: the loop ends only if IsRunning is false, and
\* otherwise tries again.
AcceptFails(g) ==
    /\ acceptor[g].pc = "accept"
    /\ acceptor[g].on \notin listening
    /\ acceptor' = [acceptor EXCEPT ![g].pc =
          IF object[Served(g)].running THEN "top" ELSE "done"]
    /\ UNCHANGED <<captureServers, object, starter, listening, tickers, heart,
                   monitor, conn, panicked>>

\* server.Clients[deviceId] = client, whatever was there and whether or not
\* the server still runs; then the reader starts.
RegisterClient(g) ==
    /\ acceptor[g].pc = "accepted"
    /\ object' = [object EXCEPT ![Served(g)].client = acceptor[g].got]
    /\ conn' = [conn EXCEPT ![acceptor[g].got].reader = "reading"]
    /\ acceptor' = [acceptor EXCEPT ![g] = [@ EXCEPT !.pc = "top", !.got = None]]
    /\ UNCHANGED <<captureServers, starter, listening, tickers, heart, monitor,
                   panicked>>

-----------------------------------------------------------------------------
(* readClientData, and the goroutines that answer a client.                *)

\* Every well-formed message counts as a sign of life.
ReadMessage(c) ==
    /\ conn[c].reader = "reading" /\ conn[c].link = "open"
    /\ conn[c].stale
    /\ conn' = [conn EXCEPT ![c].stale = FALSE]
    /\ UNCHANGED <<captureServers, object, starter, listening, tickers,
                   acceptor, heart, monitor, panicked>>

\* sendHeartbeatResponse, sendMockConfigResponse: a failed write.
RespondFails(c) ==
    /\ conn[c].reader # "none" /\ conn[c].link = "dead" /\ conn[c].up
    /\ conn' = [conn EXCEPT ![c].up = FALSE]
    /\ UNCHANGED <<captureServers, object, starter, listening, tickers,
                   acceptor, heart, monitor, panicked>>

Disconnect(c) ==
    /\ conn' = [conn EXCEPT ![c] = [@ EXCEPT !.up = FALSE, !.link = "dead",
                                              !.reader = "ending"]]
    /\ UNCHANGED <<captureServers, object, starter, listening, tickers,
                   acceptor, heart, monitor, panicked>>

\* The scanner meets the end of the link.
ReadEnds(c) ==
    /\ conn[c].reader = "reading" /\ conn[c].link = "dead"
    /\ Disconnect(c)

\* Five lines in a row that are not JSON.
GiveUpReading(c) ==
    /\ conn[c].reader = "reading" /\ conn[c].link = "open"
    /\ Disconnect(c)

\* Mutant: the reader leaves its client on the list.
UnregisterNobody(c) ==
    /\ conn[c].reader = "ending"
    /\ conn' = [conn EXCEPT ![c].reader = "done"]
    /\ UNCHANGED <<captureServers, object, starter, listening, tickers, acceptor,
                   heart, monitor, panicked>>

\* delete(server.Clients, client.DeviceID): by device, so that the entry may
\* be that of a connection which came later.
UnregisterClient(c) ==
    /\ conn[c].reader = "ending"
    /\ conn' = [conn EXCEPT ![c].reader = "done"]
    /\ object' = [object EXCEPT ![Served(conn[c].via)].client = None]
    /\ UNCHANGED <<captureServers, starter, listening, tickers, acceptor,
                   heart, monitor, panicked>>

-----------------------------------------------------------------------------
(* The heartbeat and the monitor goroutines.                               *)

\* for range server.HeartbeatTimer.C: the field is read once, unprotected.
StartHeart(g) ==
    LET t == object[Served(g)].timer
    IN  /\ heart[g].pc = "spawned"
        /\ IF t = None
           THEN panicked' = TRUE /\ UNCHANGED heart
           ELSE /\ heart' = [heart EXCEPT
                              ![g] = [@ EXCEPT !.pc = "ticking", !.on = t]]
                /\ UNCHANGED panicked
        /\ UNCHANGED <<captureServers, object, starter, listening, tickers,
                       acceptor, monitor, conn>>

\* A client that is silent for too long, or that cannot be written to, is
\* disconnected; it stays registered.
HeartTick(g) ==
    LET s == Served(g)
        c == object[s].client
    IN  /\ heart[g].pc = "ticking" /\ heart[g].on \in tickers
        /\ \/ /\ ~object[s].running
              /\ heart' = [heart EXCEPT ![g].pc = "done"]
              /\ UNCHANGED conn
           \/ /\ object[s].running
              /\ c # None
              /\ conn[c].up /\ (conn[c].stale \/ conn[c].link = "dead")
              /\ conn' = [conn EXCEPT
                              ![c] = [@ EXCEPT !.up = FALSE, !.link = "dead"]]
              /\ UNCHANGED heart
        /\ UNCHANGED <<captureServers, object, starter, listening, tickers,
                       acceptor, monitor, panicked>>

\* Mutant: the monitor does not look at IsRunning.
MonitorForEver(g) ==
    LET s == Served(g)
        c == object[s].client
    IN  /\ monitor[g] = "ticking"
        /\ c # None
        /\ ~conn[c].up \/ conn[c].stale
        /\ object' = [object EXCEPT ![s].client = None]
        /\ CloseLinks({}, {c})
        /\ UNCHANGED monitor
        /\ UNCHANGED <<captureServers, starter, listening, tickers, acceptor,
                       heart, panicked>>

MonitorTick(g) ==
    LET s == Served(g)
        c == object[s].client
    IN  /\ monitor[g] = "ticking"
        /\ \/ /\ ~object[s].running
              /\ monitor' = [monitor EXCEPT ![g] = "done"]
              /\ UNCHANGED <<object, conn>>
           \/ /\ object[s].running
              /\ c # None
              /\ ~conn[c].up \/ conn[c].stale
              /\ object' = [object EXCEPT ![s].client = None]
              /\ CloseLinks({}, {c})
              /\ UNCHANGED monitor
        /\ UNCHANGED <<captureServers, starter, listening, tickers, acceptor,
                       heart, panicked>>

-----------------------------------------------------------------------------
(* The device's end of the connections.                                    *)

Dial(c, l) ==
    /\ conn[c].link = "unused"
    /\ l \in listening
    /\ conn' = [conn EXCEPT ![c] = [@ EXCEPT !.link = "backlog", !.via = l]]
    /\ UNCHANGED <<captureServers, object, starter, listening, tickers,
                   acceptor, heart, monitor, panicked>>

HangUp(c) ==
    /\ conn[c].link = "open"
    /\ conn' = [conn EXCEPT ![c].link = "dead"]
    /\ UNCHANGED <<captureServers, object, starter, listening, tickers,
                   acceptor, heart, monitor, panicked>>

FallSilent(c) ==
    /\ conn[c].link = "open" /\ ~conn[c].stale
    /\ conn' = [conn EXCEPT ![c].stale = TRUE]
    /\ UNCHANGED <<captureServers, object, starter, listening, tickers,
                   acceptor, heart, monitor, panicked>>

-----------------------------------------------------------------------------
User ==
    \/ \E g \in Calls, d \in Devices, p \in Ports : StartCaptureServer(g, d, p)
    \/ \E d \in Devices : StopCaptureServer(d)
    \/ \E p \in Ports : StopCaptureServersByPort(p)

Starting(g) ==
    \/ CheckExisting(g) \/ EnsureForward(g) \/ Listen(g)
    \/ Register(g) \/ ArmTimer(g) \/ SpawnGoroutines(g)

Accepting(g) ==
    \/ EvaluateListener(g) \/ AcceptFails(g) \/ RegisterClient(g)
    \/ \E c \in Conns : Accept(g, c)

Reading(c) == ReadEnds(c) \/ UnregisterClient(c)

Remote(c) ==
    \/ HangUp(c) \/ FallSilent(c)
    \/ \E l \in Calls : Dial(c, l)

Next ==
    /\ ~panicked
    /\ \/ User
       \/ \E g \in Calls : \/ Starting(g) \/ Accepting(g)
                          \/ StartHeart(g) \/ HeartTick(g) \/ MonitorTick(g)
       \/ \E c \in Conns : \/ Reading(c) \/ ReadMessage(c) \/ RespondFails(c)
                          \/ GiveUpReading(c) \/ Remote(c)

Spec == Init /\ [][Next]_vars

\* The Go scheduler runs every goroutine that can run; hdc commands, and so
\* the calls of StartCaptureServer, have timeouts.  Users and devices owe
\* nothing.
Fairness ==
    /\ \A g \in Calls :
          /\ WF_vars(~panicked /\ Starting(g))
          /\ WF_vars(~panicked /\ Accepting(g))
          /\ WF_vars(~panicked /\ (StartHeart(g) \/ HeartTick(g)))
          /\ WF_vars(~panicked /\ MonitorTick(g))
    /\ \A c \in Conns : WF_vars(~panicked /\ Reading(c))

FairSpec == Spec /\ Fairness

-----------------------------------------------------------------------------
(* Why the invariants below hold: the parts of an inductive invariant.     *)

\* A call has its key from the start, its server from Register on, and
\* brings an open listener to Register.
CallsKnowTheirKey ==
    \A g \in Calls :
        /\ starter[g].pc # "unused" =>
              starter[g].dev \in Devices /\ starter[g].port \in Ports
        /\ starter[g].pc \in {"arm", "spawn"} => Served(g) # None
        /\ starter[g].pc \notin {"arm", "spawn", "returned"} => Served(g) = None
        /\ starter[g].pc = "register" => g \in listening

\* The kernel binds a port once.
ListenersHavePorts ==
    \A g \in listening :
        /\ starter[g].pc # "unused"
        /\ \A h \in listening : starter[g].port = starter[h].port => g = h

RegistryMatches ==
    \A k \in Keys :
        LET s == captureServers[k]
        IN  s # None => /\ Served(s) = s
                        /\ object[s].dev = k[1] /\ object[s].port = k[2]

\* A listener is the Server of at most one object, the one its call served,
\* and Server is nil unless IsRunning.
ServersAreServed ==
    \A s \in Calls :
        LET l == object[s].server
        IN  l # None => /\ Served(l) = s
                        /\ starter[l].port = object[s].port
                        /\ object[s].running

\* Goroutines come with a server; when the accept loop or the monitor is
\* through, the server has lost the listener of their start for good.
GoroutinesHaveServers ==
    \A g \in Calls :
        /\ acceptor[g].pc # "none" \/ heart[g].pc # "none" \/ monitor[g] # "none"
              => Served(g) # None /\ starter[g].pc = "returned"
        /\ starter[g].pc = "returned" /\ Served(g) # None
              => acceptor[g].pc # "none" /\ monitor[g] # "none"
        /\ acceptor[g].pc = "done" \/ monitor[g] = "done"
              => object[Served(g)].server # g

\* The accept loop hands a server only connections that came in by one of
\* that server's listeners.
ConnectionsBelong ==
    /\ \A g \in Calls :
          /\ acceptor[g].pc \in {"accept", "accepted"} =>
                acceptor[g].on # None /\ Served(acceptor[g].on) = Served(g)
          /\ acceptor[g].pc = "accepted" =>
                /\ acceptor[g].got # None
                /\ conn[acceptor[g].got].link # "unused"
                /\ conn[acceptor[g].got].via = acceptor[g].on
    /\ \A s \in Calls :
          LET c == object[s].client
          IN  c # None => /\ conn[c].link # "unused" /\ conn[c].via # None
                          /\ Served(conn[c].via) = s

-----------------------------------------------------------------------------
(* Properties.                                                             *)

\* GetCaptureServerStatus tells the truth about the port: a server that the
\* registry shows as running has its own port bound, by its own listener.
RunningServersListen ==
    \A s \in Registered : object[s].running =>
        /\ object[s].server \in listening
        /\ starter[object[s].server].port = object[s].port

\* A client on a server's list has a goroutine that will take it off again.
ClientsHaveReaders ==
    \A s \in Calls : object[s].client # None =>
        conn[object[s].client].reader \in {"reading", "ending"}

\* The inductive invariant; see CaptureServer_proofs.
Inv ==
    /\ TypeOK
    /\ CallsKnowTheirKey /\ ListenersHavePorts /\ RegistryMatches
    /\ ServersAreServed /\ GoroutinesHaveServers /\ ConnectionsBelong
    /\ RunningServersListen /\ ClientsHaveReaders

\* Once its start has returned, a running server has an accept loop, and a
\* monitor that has not given up.
RunningServersAreServed ==
    \A s \in Registered :
        (/\ object[s].running
         /\ \A g \in Calls : Served(g) = s => starter[g].pc = "returned")
          => \E g \in Calls : /\ Served(g) = s
                              /\ acceptor[g].pc \in {"top", "accept", "accepted"}
                              /\ monitor[g] = "ticking"

\* The device that captures on port p, if any does.
CapturingDevice(p) ==
    LET on == {d \in Devices : captureServers[<<d, p>>] # None
                               /\ object[captureServers[<<d, p>>]].running}
    IN  IF on = {} THEN None ELSE CHOOSE d \in on : TRUE

Owners == INSTANCE PortOwnership
              WITH owner <- [p \in Ports |-> CapturingDevice(p)]

\* The registry implements PortOwnership: starts and stops, however they
\* overlap, hand a port over only when it is free and leave the captures of
\* other devices alone.
ImplementsPortOwnership == Owners!Spec

Stopped(g) == starter[g].pc = "returned" /\ Served(g) # None
              /\ ~object[Served(g)].running

\* The accept loop and the monitor of a stopped server come to an end,
\* unless the server is started again.
StoppedServersWindDown ==
    \A g \in Calls :
        Stopped(g) ~> \/ acceptor[g].pc = "done" /\ monitor[g] = "done"
                      \/ ~Stopped(g)
                      \/ panicked

\* Stopping a server closes all its client connections (the comment in
\* StopCaptureServer): no reader is left with an open one.
StopClosesConnections ==
    [][\A c \in Conns :
          LET s == Served(conn[c].via)
          IN  (/\ conn[c].reader = "reading" /\ conn[c].link = "open"
               /\ object[s].running /\ ~object'[s].running)
                => conn'[c].link = "dead"]_vars

\* The loop that finds its listener closed asks whether the server still
\* runs and returns (acceptConnections): stopping never takes the
\* listener from under it.
NoNilDereference == ~panicked
=============================================================================
