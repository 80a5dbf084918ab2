------------------------ MODULE AndroidCapture_proofs ------------------------
(***************************************************************************)
(* Theorems about AndroidCapture, for any apps, calls and connections.     *)
(* The inductive invariant has three parts beside the types: who owns the  *)
(* port (Ownership), where a connection is (Connections), and which        *)
(* process a monitor follows (Following).  For each part a predicate says  *)
(* what a step must leave alone to keep it; an action that does more has a *)
(* proof of its own.                                                       *)
(***************************************************************************)
EXTENDS AndroidCapture, FiniteSetTheorems, TLAPS

\* A call has an app and a PID from the moment it is made.
CallsKnowTheirApp ==
    \A g \in Calls : call[g].pc # "unused" =>
        call[g].app \in Apps /\ call[g].pid \in Pids

\* Until Register a call has nothing but, at last, the listener.
Early == {"unused", "probe", "listen", "relisten", "register"}

EarlyCallsOwnNothing ==
    \A g \in Calls : call[g].pc \in Early =>
        /\ ~server[g].running /\ server[g].pid = None
        /\ acceptor[g].pc = "none" /\ monitor[g].pc = "none"
        /\ g \in listening <=> call[g].pc = "register"

OneListener == listening = {} \/ \E g \in Calls : listening = {g}

Ownership ==
    /\ CallsKnowTheirApp /\ EarlyCallsOwnNothing /\ OneListener
    /\ RegisteredServersListen

\* A connection between Accept and FileConnection is in one acceptor's hand,
\* and in no server's Clients.
AcceptedAreInHand ==
    \A g \in Calls : acceptor[g].pc = "accepted" =>
        /\ acceptor[g].got \in Conns
        /\ conn[acceptor[g].got].link \in {"open", "dead"}
        /\ conn[acceptor[g].got].of = None
        /\ \A h \in Calls :
              acceptor[h].pc = "accepted" /\ acceptor[h].got = acceptor[g].got
                  => h = g

\* A client was accepted.
ClientsWereAccepted ==
    \A c \in Conns : conn[c].of # None => conn[c].link \in {"open", "dead"}

Connections == AcceptedAreInHand /\ ClientsWereAccepted /\ StoppedCapturesAreQuiet

\* The agent is in a process that was started.
AgentsAreInProcesses ==
    \A a \in Apps : /\ process[a].up => process[a].pid \in Pids
                    /\ agent[a] <= process[a].pid

\* A monitor that follows a restart knows the new PID; once it has loaded the
\* agent, the agent is in that process, or in a later one.
Knowing == {"restore", "inject", "wait", "web view", "install", "commit"}
Loaded  == {"wait", "web view", "install", "commit"}

MonitorsKnowTheProcess ==
    \A g \in Calls :
        /\ monitor[g].pc \in Knowing => monitor[g].pid \in Pids
        /\ monitor[g].pc \in Loaded => agent[call[g].app] >= monitor[g].pid

Following == AgentsAreInProcesses /\ MonitorsKnowTheProcess

\* The inductive invariant.
Inv == TypeOK /\ Ownership /\ Connections /\ Following

-----------------------------------------------------------------------------
(* What keeps each part.                                                   *)

OwnershipStays ==
    /\ UNCHANGED <<androidCaptureServers, listening>>
    /\ \A g \in Calls :
          /\ call'[g].app = call[g].app /\ call'[g].pid = call[g].pid
          /\ call[g].pc = "unused" => call'[g].pc = "unused"
          /\ server'[g].running = server[g].running
          /\ call'[g].pc \in Early =>
                /\ call[g].pc \in Early
                /\ call'[g].pc = "register" <=> call[g].pc = "register"
                /\ server'[g].pid = server[g].pid
                /\ acceptor'[g].pc = acceptor[g].pc
                /\ monitor'[g].pc = monitor[g].pc

LEMMA OwnershipKept ==
    ASSUME TypeOK, TypeOK', Ownership, OwnershipStays
    PROVE  Ownership'
<1> USE DEF Ownership, OwnershipStays
<1>1. CallsKnowTheirApp'
  BY DEF CallsKnowTheirApp
<1>2. EarlyCallsOwnNothing'
  BY DEF EarlyCallsOwnNothing
<1>3. OneListener'
  BY DEF OneListener
<1>4. RegisteredServersListen'
  <2>1. \A a \in Apps : androidCaptureServers[a] # None => androidCaptureServers[a] \in Calls
    BY DEF TypeOK
  <2> QED
    BY <2>1 DEF RegisteredServersListen
<1> QED
  BY <1>1, <1>2, <1>3, <1>4

ConnectionsStay ==
    /\ UNCHANGED conn
    /\ \A g \in Calls :
          /\ acceptor'[g].pc = "accepted" =>
                acceptor[g].pc = "accepted" /\ acceptor'[g].got = acceptor[g].got
          /\ server[g].running => server'[g].running

LEMMA ConnectionsKept ==
    ASSUME TypeOK, Connections, ConnectionsStay
    PROVE  Connections'
<1> USE DEF Connections, ConnectionsStay
<1>1. AcceptedAreInHand'
  BY DEF AcceptedAreInHand
<1>2. ClientsWereAccepted'
  BY DEF ClientsWereAccepted
<1>3. StoppedCapturesAreQuiet'
  <2>1. \A c \in Conns : conn[c].of # None => conn[c].of \in Calls
    BY DEF TypeOK, ConnRecords
  <2> QED
    BY <2>1 DEF StoppedCapturesAreQuiet
<1> QED
  BY <1>1, <1>2, <1>3

FollowingStays ==
    /\ UNCHANGED <<process, agent>>
    /\ \A g \in Calls :
          /\ call[g].pc # "unused" => call'[g].app = call[g].app
          /\ monitor'[g].pc \in Knowing =>
                /\ monitor[g].pc \in Knowing
                /\ monitor'[g].pid = monitor[g].pid
                /\ monitor'[g].pc \in Loaded => monitor[g].pc \in Loaded

\* A monitor runs only for a call that was made.
LEMMA MonitoredCallsAreMade ==
    ASSUME Ownership
    PROVE  \A g \in Calls : monitor[g].pc # "none" \/ acceptor[g].pc # "none" =>
               call[g].pc \notin Early /\ call[g].app \in Apps /\ call[g].pid \in Pids
  BY DEF Ownership, EarlyCallsOwnNothing, CallsKnowTheirApp, Early

LEMMA FollowingKept ==
    ASSUME TypeOK, Ownership, Following, FollowingStays
    PROVE  Following'
<1> USE DEF Following, FollowingStays
<1>1. AgentsAreInProcesses'
  BY DEF AgentsAreInProcesses
<1>2. MonitorsKnowTheProcess'
  BY MonitoredCallsAreMade DEF MonitorsKnowTheProcess, Knowing, Loaded, Early
<1> QED
  BY <1>1, <1>2

-----------------------------------------------------------------------------
(* What the shared pieces of the actions do.                               *)

CallPcs == {"unused", "probe", "listen", "relisten", "register", "reverse", "jdwp",
            "spawn", "wait", "attach", "serve", "undo", "clean", "returned", "failed"}

\* Goto moves one call, and nothing but its program counter.
Moves(g, pc) ==
    /\ call' \in [Calls -> Starters]
    /\ call'[g].pc = pc
    /\ \A h \in Calls : /\ call'[h].app = call[h].app /\ call'[h].pid = call[h].pid
                        /\ h # g => call'[h].pc = call[h].pc

LEMMA GotoMoves ==
    ASSUME TypeOK, NEW g \in Calls, NEW pc \in CallPcs, Goto(g, pc)
    PROVE  Moves(g, pc)
<1>1. call \in [Calls -> Starters] /\ call' = [call EXCEPT ![g].pc = pc]
  BY DEF TypeOK, Goto
<1>2. \A r \in Starters : /\ [r EXCEPT !.pc = pc] \in Starters
                          /\ [r EXCEPT !.pc = pc].pc = pc
                          /\ [r EXCEPT !.pc = pc].app = r.app
                          /\ [r EXCEPT !.pc = pc].pid = r.pid
  BY DEF Starters, CallPcs
<1> QED
  BY <1>1, <1>2 DEF Moves

MonitorPcs == {"none", "poll", "queried", "restore", "inject", "wait", "web view",
               "install", "commit", "failed", "done"}

\* So does MonitorGoes with one monitor.
MonitorMoves(g, pc) ==
    /\ monitor' \in [Calls -> Monitors]
    /\ monitor'[g].pc = pc
    /\ \A h \in Calls : /\ monitor'[h].pid = monitor[h].pid
                        /\ monitor'[h].waiting = monitor[h].waiting
                        /\ h # g => monitor'[h].pc = monitor[h].pc

LEMMA MonitorGoesMoves ==
    ASSUME TypeOK, NEW g \in Calls, NEW pc \in MonitorPcs, MonitorGoes(g, pc)
    PROVE  MonitorMoves(g, pc)
<1>1. monitor \in [Calls -> Monitors] /\ monitor' = [monitor EXCEPT ![g].pc = pc]
  BY DEF TypeOK, MonitorGoes
<1>2. \A r \in Monitors : /\ [r EXCEPT !.pc = pc] \in Monitors
                          /\ [r EXCEPT !.pc = pc].pc = pc
                          /\ [r EXCEPT !.pc = pc].pid = r.pid
                          /\ [r EXCEPT !.pc = pc].waiting = r.waiting
  BY DEF Monitors, MonitorPcs
<1> QED
  BY <1>1, <1>2 DEF MonitorMoves

\* The port admits one listener.
LEMMA OneListenerCounts ==
    ASSUME NEW L, L = {} \/ \E g \in Calls : L = {g}
    PROVE  Cardinality(L) <= 1
  BY FS_EmptySet, FS_Singleton

\* What cleanupAndroidCaptureServerLocked does to each variable.
LEMMA CleanupEffect ==
    ASSUME TypeOK, NEW S \in SUBSET Calls, Cleanup(S)
    PROVE  /\ server' \in [Calls -> Servers]
           /\ \A g \in Calls : /\ server'[g].pid = server[g].pid
                               /\ server'[g].running = (g \notin S /\ server[g].running)
           /\ listening' = listening \ S
           /\ webViews' \subseteq webViews
           /\ conn' \in [Conns -> ConnRecords]
           /\ \A c \in Conns :
                 IF conn[c].of \in S
                 THEN conn'[c].link = "dead" /\ conn'[c].of = conn[c].of
                 ELSE \/ conn'[c] = conn[c]
                      \/ conn[c].link = "backlog" /\ conn'[c] = Unused
           /\ androidCaptureServers' \in [Apps -> Calls \cup {None}]
           /\ \A a \in Apps : androidCaptureServers'[a] =
                 IF \E g \in S : call[g].app = a THEN None ELSE androidCaptureServers[a]
<1> DEFINE Stopped(r) == [r EXCEPT !.running = FALSE, !.webView = None]
           Dead(r) == [r EXCEPT !.up = FALSE, !.link = "dead"]
<1>1. \A r \in Servers : /\ Stopped(r) \in Servers
                         /\ Stopped(r).pid = r.pid /\ Stopped(r).running = FALSE
  BY DEF Servers
<1>2. \A r \in ConnRecords : /\ Dead(r) \in ConnRecords
                             /\ Dead(r).link = "dead" /\ Dead(r).of = r.of
  BY DEF ConnRecords
<1>3. Unused \in ConnRecords
  BY DEF Unused, ConnRecords
<1>4. \A g \in Calls : server[g] \in Servers /\ server[g].running \in BOOLEAN
  BY DEF TypeOK, Servers
<1>5. \A c \in Conns : conn[c] \in ConnRecords
  BY DEF TypeOK
<1>6. server' = [g \in Calls |-> IF g \in S THEN Stopped(server[g]) ELSE server[g]]
  BY DEF Cleanup
<1>7. conn' = [c \in Conns |->
          IF conn[c].of \in S THEN Dead(conn[c])
          ELSE IF conn[c].link = "backlog" /\ conn[c].via \in S THEN Unused
          ELSE conn[c]]
  BY DEF Cleanup
<1> HIDE DEF Stopped, Dead
<1>8. /\ server' \in [Calls -> Servers]
      /\ \A g \in Calls : server'[g].pid = server[g].pid
  BY <1>1, <1>4, <1>6
<1>9. \A g \in Calls : server'[g].running = (g \notin S /\ server[g].running)
  <2>1. ASSUME NEW g \in Calls, g \in S
        PROVE  server'[g].running = FALSE
    BY <1>1, <1>4, <1>6, <2>1
  <2>2. ASSUME NEW g \in Calls, g \notin S
        PROVE  server'[g].running = server[g].running
    BY <1>6, <2>2
  <2> QED
    BY <1>4, <2>1, <2>2
<1>10. /\ conn' \in [Conns -> ConnRecords]
       /\ \A c \in Conns :
             IF conn[c].of \in S
             THEN conn'[c].link = "dead" /\ conn'[c].of = conn[c].of
             ELSE \/ conn'[c] = conn[c]
                  \/ conn[c].link = "backlog" /\ conn'[c] = Unused
  BY <1>2, <1>3, <1>5, <1>7
<1>11. listening' = listening \ S /\ webViews' \subseteq webViews
  BY DEF Cleanup
<1>12. /\ androidCaptureServers' \in [Apps -> Calls \cup {None}]
       /\ \A a \in Apps : androidCaptureServers'[a] =
             IF \E g \in S : call[g].app = a THEN None ELSE androidCaptureServers[a]
  BY DEF Cleanup, TypeOK
<1> QED
  BY <1>8, <1>9, <1>10, <1>11, <1>12

\* Connections that are not closed stay; those that are, were of S.
LEMMA CleanupKeepsConnections ==
    ASSUME TypeOK, Connections, NEW S \in SUBSET Calls, Cleanup(S), UNCHANGED acceptor
    PROVE  Connections'
<1>1. \A c \in Conns :
          IF conn[c].of \in S
          THEN conn'[c].link = "dead" /\ conn'[c].of = conn[c].of
          ELSE \/ conn'[c] = conn[c]
               \/ conn[c].link = "backlog" /\ conn'[c] = Unused
  BY CleanupEffect
<1>2. \A g \in Calls : server'[g].running = (g \notin S /\ server[g].running)
  BY CleanupEffect
<1>3. /\ Unused.of = None /\ None \notin Calls
      /\ \A c \in Conns : conn[c].of \in Calls \cup {None}
  BY NilAssumption DEF Unused, TypeOK, ConnRecords
<1>4. AcceptedAreInHand'
  BY <1>1, <1>3 DEF Connections, AcceptedAreInHand
<1>5. ClientsWereAccepted'
  BY <1>1, <1>3 DEF Connections, ClientsWereAccepted
<1>6. StoppedCapturesAreQuiet'
  BY <1>1, <1>2, <1>3 DEF Connections, StoppedCapturesAreQuiet
<1> QED
  BY <1>4, <1>5, <1>6 DEF Connections

\* A server that keeps its entry keeps its listener, whichever calls of the
\* same app are cleaned up.
LEMMA CleanupKeepsOwnership ==
    ASSUME TypeOK, Ownership, NEW S \in SUBSET Calls, Cleanup(S),
           \A g \in S : call[g].pc \notin Early,
           UNCHANGED <<acceptor, monitor>>,
           \A g \in Calls :
              /\ call'[g].app = call[g].app /\ call'[g].pid = call[g].pid
              /\ call[g].pc = "unused" => call'[g].pc = "unused"
              /\ call'[g].pc \in Early =>
                    /\ call[g].pc \in Early
                    /\ call'[g].pc = "register" <=> call[g].pc = "register"
    PROVE  Ownership'
<1> USE DEF Ownership
<1>1. /\ \A g \in Calls : /\ server'[g].pid = server[g].pid
                          /\ server'[g].running = (g \notin S /\ server[g].running)
      /\ listening' = listening \ S
      /\ \A a \in Apps : androidCaptureServers'[a] =
            IF \E g \in S : call[g].app = a THEN None ELSE androidCaptureServers[a]
  BY CleanupEffect
<1>2. CallsKnowTheirApp'
  BY DEF CallsKnowTheirApp
<1>3. EarlyCallsOwnNothing'
  BY <1>1 DEF EarlyCallsOwnNothing
<1>4. OneListener'
  BY <1>1 DEF OneListener
<1>5. RegisteredServersListen'
  <2> SUFFICES ASSUME NEW a \in Apps, NEW s, s = androidCaptureServers'[a], s # None
               PROVE  call'[s].app = a /\ server'[s].running /\ s \in listening'
    BY DEF RegisteredServersListen
  <2>1. s = androidCaptureServers[a] /\ s \in Calls /\ ~(\E g \in S : call[g].app = a)
    BY <1>1 DEF TypeOK
  <2>2. call[s].app = a /\ server[s].running /\ s \in listening
    BY <2>1 DEF RegisteredServersListen
  <2> QED
    BY <1>1, <2>1, <2>2
<1> QED
  BY <1>2, <1>3, <1>4, <1>5

\* A registered server is past Register.
LEMMA RegisteredAreLate ==
    ASSUME TypeOK, Ownership
    PROVE  Registered \subseteq Calls /\ \A g \in Registered : call[g].pc \notin Early
<1>1. \A a \in Apps : androidCaptureServers[a] # None =>
          androidCaptureServers[a] \in Calls /\ server[androidCaptureServers[a]].running
  BY DEF TypeOK, Ownership, RegisteredServersListen
<1> QED
  BY <1>1 DEF Registered, Ownership, EarlyCallsOwnNothing

\* A record as a whole, for what leaves the types alone.
LEMMA CleanupTyped ==
    ASSUME TypeOK, Ownership, Ownership', NEW S \in SUBSET Calls, Cleanup(S),
           call' \in [Calls -> Starters], UNCHANGED <<acceptor, monitor, device>>,
           forwards' \subseteq forwards
    PROVE  TypeOK'
<1>1. /\ server' \in [Calls -> Servers] /\ webViews' \subseteq webViews
      /\ listening' = listening \ S
      /\ conn' \in [Conns -> ConnRecords]
      /\ androidCaptureServers' \in [Apps -> Calls \cup {None}]
  BY CleanupEffect
<1>2. listening' = {} \/ \E g \in Calls : listening' = {g}
  BY DEF Ownership, OneListener
<1>3. Cardinality(listening') <= 1
  BY <1>2, OneListenerCounts
<1> QED
  BY <1>1, <1>3 DEF TypeOK, device

-----------------------------------------------------------------------------
(* StartAndroidCapture.                                                    *)

\* Most steps of a start move its program counter past what was done, and
\* touch at most the forwards.
LEMMA QuietGoto ==
    ASSUME Inv, NEW g \in Calls, NEW pc \in CallPcs, Goto(g, pc),
           call[g].pc # "unused", pc \notin Early,
           UNCHANGED <<androidCaptureServers, server, listening, webViews, acceptor,
                       monitor, conn, device>>,
           forwards' \subseteq {"reverse", "jdwp"}
    PROVE  Inv'
<1>0. Moves(g, pc)
  BY GotoMoves DEF Inv
<1>1. TypeOK'
  BY <1>0 DEF Inv, TypeOK, Moves, device
<1>2. OwnershipStays
  BY <1>0 DEF OwnershipStays, Moves
<1>3. ConnectionsStay
  BY DEF ConnectionsStay
<1>4. FollowingStays
  BY <1>0 DEF FollowingStays, Moves, device
<1> QED
  BY <1>1, <1>2, <1>3, <1>4, OwnershipKept, ConnectionsKept, FollowingKept DEF Inv

LEMMA StartAndroidCaptureKeeps ==
    ASSUME Inv, NEW g \in Calls, NEW a \in Apps, StartAndroidCapture(g, a)
    PROVE  Inv'
<1> USE DEF StartAndroidCapture, device
<1>1. process[a].pid \in Pids
  BY DEF Inv, Following, AgentsAreInProcesses
<1>2. /\ call' \in [Calls -> Starters]
      /\ call'[g].pc = "probe" /\ call'[g].app = a /\ call'[g].pid \in Pids
      /\ \A h \in Calls \ {g} : call'[h] = call[h]
  BY <1>1 DEF Inv, TypeOK, Starters
<1>3. TypeOK'
  BY <1>2 DEF Inv, TypeOK
<1>4. Ownership'
  <2>0. call[g].pc = "unused"
    OBVIOUS
  <2>1. CallsKnowTheirApp'
    BY <1>2 DEF Inv, Ownership, CallsKnowTheirApp
  <2>2. EarlyCallsOwnNothing'
    BY <1>2 DEF Inv, Ownership, EarlyCallsOwnNothing, Early
  <2>3. OneListener'
    BY DEF Inv, Ownership, OneListener
  <2>4. RegisteredServersListen'
    <3>1. \A b \in Apps : androidCaptureServers[b] # None =>
              androidCaptureServers[b] \in Calls /\ androidCaptureServers[b] # g
      <4>1. \A b \in Apps : androidCaptureServers[b] # None =>
              androidCaptureServers[b] \in Registered
        BY DEF Registered
      <4> QED
        BY <4>1, RegisteredAreLate DEF Inv, Early
    <3> QED
      BY <1>2, <3>1 DEF Inv, Ownership, RegisteredServersListen
  <2> QED
    BY <2>1, <2>2, <2>3, <2>4 DEF Ownership
<1>5. ConnectionsStay
  BY DEF ConnectionsStay
<1>6. FollowingStays
  BY <1>2 DEF FollowingStays
<1> QED
  BY <1>3, <1>4, <1>5, <1>6, ConnectionsKept, FollowingKept DEF Inv

LEMMA ProbeKeeps ==
    ASSUME Inv, NEW g \in Calls, Probe(g)
    PROVE  Inv'
<1> USE DEF Probe, device
<1>1. CASE Goto(g, "failed")
  BY <1>1, QuietGoto DEF Early, CallPcs, Inv, TypeOK
<1>2. CASE call' = [call EXCEPT ![g] = [@ EXCEPT
              !.pc = "listen", !.loaded = agent[call[g].app] = call[g].pid]]
  <2>1. PICK b \in BOOLEAN : b = (agent[call[g].app] = call[g].pid)
    OBVIOUS
  <2>2. call' = [call EXCEPT ![g] = [@ EXCEPT !.pc = "listen", !.loaded = b]]
    BY <1>2, <2>1
  <2>3. /\ call' \in [Calls -> Starters]
        /\ call'[g].pc = "listen" /\ call'[g].app = call[g].app
        /\ call'[g].pid = call[g].pid
        /\ \A h \in Calls \ {g} : call'[h] = call[h]
    BY <2>2 DEF Inv, TypeOK, Starters
  <2>4. TypeOK'
    BY <2>3 DEF Inv, TypeOK
  <2>5. OwnershipStays
    BY <2>3 DEF OwnershipStays, Early
  <2>6. ConnectionsStay
    BY DEF ConnectionsStay
  <2>7. FollowingStays
    BY <2>3 DEF FollowingStays
  <2> QED
    BY <2>4, <2>5, <2>6, <2>7, OwnershipKept, ConnectionsKept, FollowingKept DEF Inv
<1> QED
  BY <1>1, <1>2

\* The listener is taken only while nobody has it.
LEMMA TakesPort ==
    ASSUME Inv, NEW g \in Calls, call[g].pc \in {"listen", "relisten"},
           listening = {}, listening' = {g}, Goto(g, "register"),
           UNCHANGED <<androidCaptureServers, server, webViews, acceptor, monitor,
                       conn, forwards, device>>
    PROVE  Inv'
<1> USE DEF device
<1>0. Moves(g, "register")
  BY GotoMoves DEF Inv, CallPcs
<1>1. TypeOK'
  <2>1. Cardinality(listening') <= 1
    BY OneListenerCounts
  <2> QED
    BY <1>0, <2>1 DEF Inv, TypeOK, Moves
<1>2. Ownership'
  <2>1. CallsKnowTheirApp'
    BY <1>0 DEF Inv, Ownership, CallsKnowTheirApp, Moves
  <2>2. EarlyCallsOwnNothing'
    BY <1>0 DEF Inv, Ownership, EarlyCallsOwnNothing, Early, Moves
  <2>3. OneListener'
    BY DEF OneListener
  <2>4. RegisteredServersListen'
    BY DEF Inv, Ownership, RegisteredServersListen
  <2> QED
    BY <2>1, <2>2, <2>3, <2>4 DEF Ownership
<1>3. ConnectionsStay
  BY DEF ConnectionsStay
<1>4. FollowingStays
  BY <1>0 DEF FollowingStays, Moves
<1> QED
  BY <1>1, <1>2, <1>3, <1>4, ConnectionsKept, FollowingKept DEF Inv

LEMMA ListenKeeps ==
    ASSUME Inv, NEW g \in Calls, Listen(g)
    PROVE  Inv'
<1> USE DEF Listen
<1>1. CASE listening = {}
  BY <1>1, TakesPort
<1>2. CASE listening # {}
  <2>1. /\ Cleanup(Registered) /\ Goto(g, "relisten") /\ call[g].pc = "listen"
        /\ UNCHANGED <<acceptor, monitor, device>>
        /\ forwards' \subseteq forwards
    BY <1>2
  <2>2. Moves(g, "relisten")
    BY <2>1, GotoMoves DEF Inv, CallPcs
  <2>3. Registered \in SUBSET Calls /\ \A h \in Registered : call[h].pc \notin Early
    BY RegisteredAreLate DEF Inv
  <2>4. Ownership'
    <3>1. \A h \in Calls :
             /\ call'[h].app = call[h].app /\ call'[h].pid = call[h].pid
             /\ call[h].pc = "unused" => call'[h].pc = "unused"
             /\ call'[h].pc \in Early =>
                   /\ call[h].pc \in Early
                   /\ call'[h].pc = "register" <=> call[h].pc = "register"
      BY <2>1, <2>2 DEF Moves, Early
    <3> QED
      BY <2>1, <2>3, <3>1, CleanupKeepsOwnership DEF Inv
  <2>5. TypeOK'
    BY <2>1, <2>2, <2>3, <2>4, CleanupTyped DEF Inv, Moves
  <2>6. Connections'
    BY <2>1, <2>3, CleanupKeepsConnections DEF Inv
  <2>7. FollowingStays
    BY <2>1, <2>2 DEF FollowingStays, Moves, device
  <2> QED
    BY <2>4, <2>5, <2>6, <2>7, FollowingKept DEF Inv
<1> QED
  BY <1>1, <1>2

LEMMA RelistenKeeps ==
    ASSUME Inv, NEW g \in Calls, Relisten(g)
    PROVE  Inv'
<1> USE DEF Relisten
<1>1. CASE listening = {}
  BY <1>1, TakesPort
<1>2. CASE listening # {}
  <2>1. forwards' \subseteq {"reverse", "jdwp"}
    BY <1>2 DEF Inv, TypeOK
  <2> QED
    BY <1>2, <2>1, QuietGoto DEF CallPcs, Early
<1> QED
  BY <1>1, <1>2

\* Register finds no other server registered: that server would listen.
LEMMA RegisterFindsNobody ==
    ASSUME Inv, NEW g \in Calls, call[g].pc = "register"
    PROVE  Registered = {} /\ g \in listening
<1>1. g \in listening /\ ~server[g].running
  BY DEF Inv, Ownership, EarlyCallsOwnNothing, Early
<1>2. \A h \in listening : h = g
  BY <1>1 DEF Inv, Ownership, OneListener
<1>3. \A a \in Apps : androidCaptureServers[a] = None
  BY <1>1, <1>2 DEF Inv, Ownership, RegisteredServersListen
<1> QED
  BY <1>1, <1>3 DEF Registered

LEMMA RegisterKeeps ==
    ASSUME Inv, NEW g \in Calls, Register(g)
    PROVE  Inv'
<1> USE DEF Register, device
<1>0. Moves(g, "reverse") /\ call[g].pc = "register"
  BY GotoMoves DEF Inv, CallPcs
<1>1. call[g].app \in Apps /\ call[g].pid \in Pids
  BY DEF Inv, Ownership, CallsKnowTheirApp
<1>2. /\ server' \in [Calls -> Servers]
      /\ server'[g].running = TRUE
      /\ \A h \in Calls \ {g} : server'[h] = server[h]
  <2> DEFINE F(r) == [r EXCEPT !.running = TRUE, !.pid = call[g].pid]
  <2>1. \A r \in Servers : F(r) \in Servers /\ F(r).running = TRUE
    BY <1>1 DEF Servers
  <2>2. server' = [server EXCEPT ![g] = F(server[g])]
    OBVIOUS
  <2>3. server \in [Calls -> Servers]
    BY DEF Inv, TypeOK
  <2> HIDE DEF F, Register
  <2> QED
    BY <2>1, <2>2, <2>3
<1>3. /\ androidCaptureServers' \in [Apps -> Calls \cup {None}]
      /\ androidCaptureServers'[call[g].app] = g
      /\ \A a \in Apps \ {call[g].app} : androidCaptureServers'[a] = None
  <2>1. \A a \in Apps : androidCaptureServers[a] = None
    BY <1>0, RegisterFindsNobody DEF Registered
  <2> QED
    BY <1>1, <2>1 DEF Inv, TypeOK
<1>4. TypeOK'
  BY <1>0, <1>2, <1>3 DEF Inv, TypeOK, Moves
<1>5. Ownership'
  <2>1. CallsKnowTheirApp'
    BY <1>0 DEF Inv, Ownership, CallsKnowTheirApp, Moves
  <2>2. EarlyCallsOwnNothing'
    BY <1>0, <1>2 DEF Inv, Ownership, EarlyCallsOwnNothing, Early, Moves
  <2>3. OneListener'
    BY DEF Inv, Ownership, OneListener
  <2>4. RegisteredServersListen'
    <3> SUFFICES ASSUME NEW a \in Apps, NEW s, s = androidCaptureServers'[a], s # None
                 PROVE  call'[s].app = a /\ server'[s].running /\ s \in listening'
      BY DEF RegisteredServersListen
    <3>1. a = call[g].app /\ s = g
      BY <1>3
    <3> QED
      BY <1>0, <1>2, <3>1, RegisterFindsNobody DEF Moves
  <2> QED
    BY <2>1, <2>2, <2>3, <2>4 DEF Ownership
<1>6. ConnectionsStay
  BY <1>2 DEF ConnectionsStay
<1>7. FollowingStays
  BY <1>0 DEF FollowingStays, Moves
<1> QED
  BY <1>4, <1>5, <1>6, <1>7, ConnectionsKept, FollowingKept DEF Inv

\* The steps of a start that are quiet.
LEMMA QuietStartsKeep ==
    ASSUME Inv, NEW g \in Calls,
           SetUpReverse(g) \/ SetUpJDWP(g) \/ WaitForAgent(g) \/ UndoForwards(g)
    PROVE  Inv'
<1> USE DEF Early, CallPcs
<1>0. forwards \subseteq {"reverse", "jdwp"}
  BY DEF Inv, TypeOK
<1>1. CASE SetUpReverse(g)
  <2>1. \E pc \in {"spawn", "jdwp", "clean"} : Goto(g, pc)
    BY <1>1 DEF SetUpReverse
  <2>2. forwards' \subseteq {"reverse", "jdwp"}
    BY <1>0, <1>1 DEF SetUpReverse
  <2> QED
    BY <1>1, <2>1, <2>2, QuietGoto DEF SetUpReverse
<1>2. CASE SetUpJDWP(g)
  <2>1. \E pc \in {"spawn", "clean"} : Goto(g, pc)
    BY <1>2 DEF SetUpJDWP
  <2>2. forwards' \subseteq {"reverse", "jdwp"}
    BY <1>0, <1>2 DEF SetUpJDWP
  <2> QED
    BY <1>2, <2>1, <2>2, QuietGoto DEF SetUpJDWP
<1>3. CASE WaitForAgent(g)
  <2>1. \E pc \in {"serve", "undo"} : Goto(g, pc)
    BY <1>3 DEF WaitForAgent
  <2> QED
    BY <1>0, <1>3, <2>1, QuietGoto DEF WaitForAgent
<1>4. CASE UndoForwards(g)
  <2>1. forwards' \subseteq {"reverse", "jdwp"}
    BY <1>0, <1>4 DEF UndoForwards
  <2> QED
    BY <1>4, <2>1, QuietGoto DEF UndoForwards
<1> QED
  BY <1>1, <1>2, <1>3, <1>4

LEMMA SpawnAcceptorKeeps ==
    ASSUME Inv, NEW g \in Calls, SpawnAcceptor(g)
    PROVE  Inv'
<1> USE DEF SpawnAcceptor, device
<1>0. PICK pc \in {"wait", "attach"} : Goto(g, pc)
  OBVIOUS
<1>1. Moves(g, pc)
  BY <1>0, GotoMoves DEF Inv, CallPcs
<1>2. /\ acceptor' \in [Calls -> Acceptors]
      /\ acceptor'[g].pc = "accept"
      /\ \A h \in Calls \ {g} : acceptor'[h] = acceptor[h]
  BY DEF Inv, TypeOK, Acceptors
<1>3. TypeOK'
  BY <1>1, <1>2 DEF Inv, TypeOK, Moves
<1>4. OwnershipStays
  BY <1>1, <1>2 DEF OwnershipStays, Moves, Early
<1>5. ConnectionsStay
  BY <1>2 DEF ConnectionsStay
<1>6. FollowingStays
  BY <1>1 DEF FollowingStays, Moves
<1> QED
  BY <1>3, <1>4, <1>5, <1>6, OwnershipKept, ConnectionsKept, FollowingKept DEF Inv

\* The agent goes into a running process, and so never back to an earlier one.
LEMMA LoadsAgent ==
    ASSUME Inv, NEW a \in Apps, NEW p \in Pids, Runs(a, p),
           agent' = [agent EXCEPT ![a] = p], UNCHANGED process
    PROVE  /\ agent' \in [Apps -> 0 .. MaxPid]
           /\ agent'[a] = p
           /\ \A b \in Apps : agent'[b] >= agent[b]
           /\ AgentsAreInProcesses'
<1>1. /\ agent \in [Apps -> 0 .. MaxPid]
      /\ \A b \in Apps : agent[b] \in 0 .. MaxPid /\ process[b].pid \in 0 .. MaxPid
  BY DEF Inv, TypeOK
<1>2. MaxPid \in Nat /\ p \in 0 .. MaxPid
  BY PidAssumption DEF Pids
<1>3. process[a].pid = p
  BY DEF Runs
<1>4. /\ agent' \in [Apps -> 0 .. MaxPid] /\ agent'[a] = p
      /\ \A b \in Apps \ {a} : agent'[b] = agent[b]
  BY <1>1, <1>2
<1>5. \A b \in Apps : agent[b] <= process[b].pid
  BY DEF Inv, Following, AgentsAreInProcesses
<1>6. \A b \in Apps : agent'[b] >= agent[b] /\ agent'[b] <= process[b].pid
  <2>1. agent'[a] >= agent[a] /\ agent'[a] <= process[a].pid
    BY <1>1, <1>2, <1>3, <1>4, <1>5
  <2>2. \A b \in Apps \ {a} : agent'[b] >= agent[b] /\ agent'[b] <= process[b].pid
    BY <1>1, <1>2, <1>4, <1>5
  <2> QED
    BY <2>1, <2>2
<1>7. AgentsAreInProcesses'
  BY <1>6 DEF Inv, Following, AgentsAreInProcesses
<1> QED
  BY <1>4, <1>6, <1>7

\* An agent that was loaded into a later process is loaded all the more.
LEMMA LaterAgents ==
    ASSUME Inv, \A b \in Apps : agent'[b] >= agent[b] /\ agent'[b] \in Nat
    PROVE  \A g \in Calls : monitor[g].pc \in Loaded =>
               agent'[call[g].app] >= monitor[g].pid
<1> SUFFICES ASSUME NEW g \in Calls, monitor[g].pc \in Loaded
             PROVE  agent'[call[g].app] >= monitor[g].pid
  OBVIOUS
<1>1. monitor[g].pid \in Pids /\ agent[call[g].app] >= monitor[g].pid
  BY DEF Inv, Following, MonitorsKnowTheProcess, Loaded, Knowing
<1>2. call[g].app \in Apps
  BY MonitoredCallsAreMade DEF Inv, Loaded
<1>3. monitor[g].pid \in Nat /\ agent[call[g].app] \in Nat
  BY <1>1, <1>2, PidAssumption DEF Pids, Inv, TypeOK
<1> QED
  BY <1>1, <1>2, <1>3

LEMMA AttachKeeps ==
    ASSUME Inv, NEW g \in Calls, Attach(g)
    PROVE  Inv'
<1> USE DEF Attach
<1>1. CASE Goto(g, "undo") /\ UNCHANGED agent
  <2>1. forwards' \subseteq {"reverse", "jdwp"}
    BY DEF Inv, TypeOK
  <2> QED
    BY <1>1, <2>1, QuietGoto DEF Early, CallPcs, device
<1>2. CASE /\ Runs(call[g].app, call[g].pid)
           /\ agent' = [agent EXCEPT ![call[g].app] = call[g].pid]
           /\ Goto(g, "serve")
  <2>1. call[g].app \in Apps /\ call[g].pid \in Pids
    BY DEF Inv, Ownership, CallsKnowTheirApp
  <2>2. /\ agent' \in [Apps -> 0 .. MaxPid]
        /\ \A b \in Apps : agent'[b] >= agent[b]
        /\ AgentsAreInProcesses'
    BY <1>2, <2>1, LoadsAgent
  <2>3. Moves(g, "serve")
    BY <1>2, GotoMoves DEF Inv, CallPcs
  <2>4. TypeOK'
    BY <2>2, <2>3 DEF Inv, TypeOK, Moves
  <2>5. OwnershipStays
    BY <2>3 DEF OwnershipStays, Moves, Early
  <2>6. ConnectionsStay
    BY DEF ConnectionsStay
  <2>7. \A h \in Calls : monitor[h].pc \in Loaded =>
            agent'[call[h].app] >= monitor[h].pid
    <3>1. \A b \in Apps : agent'[b] \in Nat
      BY <2>2, PidAssumption
    <3> QED
      BY <2>2, <3>1, LaterAgents
  <2>8. MonitorsKnowTheProcess'
    BY <2>3, <2>7 DEF MonitorsKnowTheProcess, Inv, Following, Moves
  <2> QED
    BY <2>2, <2>4, <2>5, <2>6, <2>8, OwnershipKept, ConnectionsKept DEF Inv, Following
<1> QED
  BY <1>1, <1>2

\* Writing the web view of a server.
LEMMA WebViewWritten ==
    ASSUME TypeOK, NEW g \in Calls, NEW p \in Pids \cup {None},
           server' = [server EXCEPT ![g].webView = p]
    PROVE  /\ server' \in [Calls -> Servers]
           /\ \A h \in Calls : /\ server'[h].running = server[h].running
                               /\ server'[h].pid = server[h].pid
<1>1. server \in [Calls -> Servers]
  BY DEF TypeOK
<1>2. \A r \in Servers : /\ [r EXCEPT !.webView = p] \in Servers
                         /\ [r EXCEPT !.webView = p].running = r.running
                         /\ [r EXCEPT !.webView = p].pid = r.pid
  BY DEF Servers
<1> QED
  BY <1>1, <1>2

LEMMA StartBackgroundServicesKeeps ==
    ASSUME Inv, NEW g \in Calls, StartBackgroundServices(g)
    PROVE  Inv'
<1> USE DEF StartBackgroundServices, device
<1>0. call[g].pid \in Pids
  BY DEF Inv, Ownership, CallsKnowTheirApp
<1>1. Moves(g, "returned")
  BY GotoMoves DEF Inv, CallPcs
<1>2. MonitorMoves(g, "poll")
  BY MonitorGoesMoves DEF Inv, MonitorPcs, MonitorGoes
<1>3. /\ server' \in [Calls -> Servers]
      /\ \A h \in Calls : /\ server'[h].running = server[h].running
                          /\ server'[h].pid = server[h].pid
  BY <1>0, WebViewWritten DEF Inv
<1>4. TypeOK'
  BY <1>0, <1>1, <1>2, <1>3 DEF Inv, TypeOK, Moves, MonitorMoves
<1>5. OwnershipStays
  BY <1>1, <1>2, <1>3 DEF OwnershipStays, Moves, MonitorMoves, Early
<1>6. ConnectionsStay
  BY <1>3 DEF ConnectionsStay
<1>7. FollowingStays
  BY <1>1, <1>2 DEF FollowingStays, Moves, MonitorMoves, Knowing
<1> QED
  BY <1>4, <1>5, <1>6, <1>7, OwnershipKept, ConnectionsKept, FollowingKept DEF Inv

LEMMA CleanUpFailedStartKeeps ==
    ASSUME Inv, NEW g \in Calls, CleanUpFailedStart(g)
    PROVE  Inv'
<1> USE DEF CleanUpFailedStart
<1>1. Moves(g, "failed")
  BY GotoMoves DEF Inv, CallPcs
<1>2. {g} \in SUBSET Calls /\ \A h \in {g} : call[h].pc \notin Early
  BY DEF Early
<1>3. Ownership'
  <2>1. \A h \in Calls :
           /\ call'[h].app = call[h].app /\ call'[h].pid = call[h].pid
           /\ call[h].pc = "unused" => call'[h].pc = "unused"
           /\ call'[h].pc \in Early =>
                 /\ call[h].pc \in Early
                 /\ call'[h].pc = "register" <=> call[h].pc = "register"
    BY <1>1 DEF Moves, Early
  <2> QED
    BY <1>2, <2>1, CleanupKeepsOwnership DEF Inv
<1>4. TypeOK'
  BY <1>1, <1>2, <1>3, CleanupTyped DEF Inv, Moves
<1>5. Connections'
  BY <1>2, CleanupKeepsConnections DEF Inv
<1>6. FollowingStays
  BY <1>1 DEF FollowingStays, Moves, device
<1> QED
  BY <1>3, <1>4, <1>5, <1>6, FollowingKept DEF Inv

\* Every step of a call.
LEMMA StartingKeeps ==
    ASSUME Inv, NEW g \in Calls, Starting(g)
    PROVE  Inv'
  BY ProbeKeeps, ListenKeeps, RelistenKeeps, RegisterKeeps, QuietStartsKeep,
     SpawnAcceptorKeeps, AttachKeeps, StartBackgroundServicesKeeps,
     CleanUpFailedStartKeeps DEF Starting

-----------------------------------------------------------------------------
(* StopAndroidCapture, StopAllAndroidCaptures.                             *)

LEMMA StopKeeps ==
    ASSUME Inv, NEW S \in SUBSET Registered, Stop(S)
    PROVE  Inv'
<1> USE DEF Stop
<1>1. S \in SUBSET Calls /\ \A h \in S : call[h].pc \notin Early
  BY RegisteredAreLate DEF Inv
<1>2. Ownership'
  BY <1>1, CleanupKeepsOwnership DEF Inv
<1>3. TypeOK'
  BY <1>1, <1>2, CleanupTyped DEF Inv, TypeOK
<1>4. Connections'
  BY <1>1, CleanupKeepsConnections DEF Inv
<1>5. FollowingStays
  BY DEF FollowingStays, device
<1> QED
  BY <1>2, <1>3, <1>4, <1>5, FollowingKept DEF Inv

LEMMA StopsKeep ==
    ASSUME Inv,
           (\E a \in Apps : StopAndroidCapture(a)) \/ StopAllAndroidCaptures
    PROVE  Inv'
<1>1. ASSUME NEW a \in Apps, StopAndroidCapture(a)
      PROVE  Inv'
  <2>1. {androidCaptureServers[a]} \ {None} \in SUBSET Registered
    BY DEF Registered
  <2> QED
    BY <1>1, <2>1, StopKeeps DEF StopAndroidCapture
<1>2. CASE StopAllAndroidCaptures
  BY <1>2, StopKeeps DEF StopAllAndroidCaptures
<1> QED
  BY <1>1, <1>2

-----------------------------------------------------------------------------
(* Acceptors and readers.                                                  *)

\* Steps of acceptors and readers, and of the apps, leave calls and monitors
\* alone; an acceptor has a call that is past Register.
LEMMA CallsStay ==
    ASSUME Inv,
           UNCHANGED <<androidCaptureServers, call, listening, monitor>>,
           \A g \in Calls :
              /\ server'[g].running = server[g].running
              /\ server'[g].pid = server[g].pid
              /\ acceptor[g].pc = "none" => acceptor'[g].pc = "none"
    PROVE  OwnershipStays /\ (UNCHANGED device => FollowingStays)
<1>1. OwnershipStays
  BY DEF OwnershipStays, Inv, Ownership, EarlyCallsOwnNothing
<1>2. UNCHANGED device => FollowingStays
  BY DEF FollowingStays, device
<1> QED
  BY <1>1, <1>2

LEMMA LinkWritten ==
    ASSUME TypeOK, NEW c \in Conns, NEW l \in {"unused", "backlog", "open", "dead"},
           conn' = [conn EXCEPT ![c].link = l]
    PROVE  /\ conn' \in [Conns -> ConnRecords]
           /\ conn'[c].link = l /\ conn'[c].of = conn[c].of
           /\ \A d \in Conns \ {c} : conn'[d] = conn[d]
<1>1. \A r \in ConnRecords : /\ [r EXCEPT !.link = l] \in ConnRecords
                             /\ [r EXCEPT !.link = l].link = l
                             /\ [r EXCEPT !.link = l].of = r.of
  BY DEF ConnRecords
<1> QED
  BY <1>1 DEF TypeOK

LEMMA AcceptKeeps ==
    ASSUME Inv, NEW g \in Calls, NEW c \in Conns, Accept(g, c)
    PROVE  Inv'
<1> USE DEF Accept
<1>1. PICK l \in {"open", "dead"} : conn' = [conn EXCEPT ![c].link = l]
  OBVIOUS
<1>2. /\ conn' \in [Conns -> ConnRecords]
      /\ conn'[c].link = l /\ conn'[c].of = conn[c].of
      /\ \A d \in Conns \ {c} : conn'[d] = conn[d]
  BY <1>1, LinkWritten DEF Inv
<1>3. /\ acceptor' \in [Calls -> Acceptors]
      /\ acceptor'[g] = [pc |-> "accepted", got |-> c]
      /\ \A h \in Calls \ {g} : acceptor'[h] = acceptor[h]
  BY DEF Inv, TypeOK, Acceptors
<1>4. TypeOK'
  BY <1>2, <1>3 DEF Inv, TypeOK, device
<1>5. OwnershipStays /\ FollowingStays
  BY <1>3, CallsStay
<1>6. conn[c].link = "backlog" /\ conn[c].of = None
  BY DEF Inv, Connections, ClientsWereAccepted
<1>7. AcceptedAreInHand'
  <2>1. \A h \in Calls : acceptor[h].pc = "accepted" =>
            acceptor[h].got \in Conns /\ acceptor[h].got # c
    BY <1>6 DEF Inv, Connections, AcceptedAreInHand
  <2> QED
    BY <1>2, <1>3, <1>6, <2>1 DEF Inv, Connections, AcceptedAreInHand
<1>8. ClientsWereAccepted'
  BY <1>2, <1>6 DEF Inv, Connections, ClientsWereAccepted
<1>9. StoppedCapturesAreQuiet'
  BY <1>2, <1>6 DEF Inv, Connections, StoppedCapturesAreQuiet
<1> QED
  BY <1>4, <1>5, <1>7, <1>8, <1>9, OwnershipKept, FollowingKept DEF Inv, Connections

LEMMA AcceptFailsKeeps ==
    ASSUME Inv, NEW g \in Calls, AcceptFails(g)
    PROVE  Inv'
<1> USE DEF AcceptFails
<1>1. /\ acceptor' \in [Calls -> Acceptors]
      /\ acceptor'[g].pc = "done"
      /\ \A h \in Calls \ {g} : acceptor'[h] = acceptor[h]
  BY DEF Inv, TypeOK, Acceptors
<1>2. TypeOK'
  BY <1>1 DEF Inv, TypeOK, device
<1>3. OwnershipStays /\ FollowingStays
  BY <1>1, CallsStay
<1>4. ConnectionsStay
  BY <1>1 DEF ConnectionsStay
<1> QED
  BY <1>2, <1>3, <1>4, OwnershipKept, ConnectionsKept, FollowingKept DEF Inv

\* The server that gets the connection is running at that moment.
LEMMA FileConnectionKeeps ==
    ASSUME Inv, NEW g \in Calls, FileConnection(g)
    PROVE  Inv'
<1> DEFINE c == acceptor[g].got
           s == androidCaptureServers[call[g].app]
<1>0. /\ acceptor[g].pc = "accepted"
      /\ acceptor' = [acceptor EXCEPT ![g] = [pc |-> "accept", got |-> None]]
      /\ \/ conn' = [conn EXCEPT ![c] = Unused] /\ UNCHANGED server
         \/ /\ s # None /\ server[s].running
            /\ conn' = [conn EXCEPT ![c] = [@ EXCEPT !.of = s, !.up = TRUE]]
            /\ server' = [server EXCEPT ![s].fresh = TRUE]
      /\ UNCHANGED <<androidCaptureServers, call, listening, webViews, monitor,
                     forwards, device>>
  BY DEF FileConnection
<1>1. c \in Conns /\ conn[c].link \in {"open", "dead"}
  BY <1>0 DEF Inv, Connections, AcceptedAreInHand
<1>2. s \in Calls \cup {None}
  <2>1. call[g].app \in Apps
    BY <1>0, MonitoredCallsAreMade DEF Inv
  <2> QED
    BY <2>1 DEF Inv, TypeOK
<1> HIDE DEF c, s
<1>3. /\ acceptor' \in [Calls -> Acceptors]
      /\ acceptor'[g].pc = "accept"
      /\ \A h \in Calls \ {g} : acceptor'[h] = acceptor[h]
  BY <1>0 DEF Inv, TypeOK, Acceptors
<1>4. /\ server' \in [Calls -> Servers]
      /\ \A h \in Calls : /\ server'[h].running = server[h].running
                          /\ server'[h].pid = server[h].pid
  <2>1. CASE UNCHANGED server
    BY <2>1 DEF Inv, TypeOK
  <2>2. CASE s # None /\ server' = [server EXCEPT ![s].fresh = TRUE]
    BY <1>2, <2>2 DEF Inv, TypeOK, Servers
  <2> QED
    BY <1>0, <2>1, <2>2
<1>5. /\ conn' \in [Conns -> ConnRecords]
      /\ \A d \in Conns \ {c} : conn'[d] = conn[d]
      /\ \/ conn'[c] = Unused
         \/ /\ s # None /\ server[s].running
            /\ conn'[c].of = s /\ conn'[c].link = conn[c].link
  <2>1. CASE conn' = [conn EXCEPT ![c] = Unused]
    BY <1>1, <2>1 DEF Inv, TypeOK, ConnRecords, Unused
  <2>2. CASE /\ s # None /\ server[s].running
             /\ conn' = [conn EXCEPT ![c] = [@ EXCEPT !.of = s, !.up = TRUE]]
    <3>1. s \in Calls
      BY <1>2, <2>2
    <3>2. \A r \in ConnRecords : /\ [r EXCEPT !.of = s, !.up = TRUE] \in ConnRecords
                                 /\ [r EXCEPT !.of = s, !.up = TRUE].of = s
                                 /\ [r EXCEPT !.of = s, !.up = TRUE].link = r.link
      BY <3>1 DEF ConnRecords
    <3> QED
      BY <1>1, <2>2, <3>2 DEF Inv, TypeOK
  <2> QED
    BY <1>0, <2>1, <2>2
<1>6. TypeOK'
  BY <1>0, <1>3, <1>4, <1>5 DEF Inv, TypeOK, device
<1>7. OwnershipStays /\ FollowingStays
  BY <1>0, <1>3, <1>4, CallsStay
<1>8. AcceptedAreInHand'
  <2>1. \A h \in Calls : acceptor'[h].pc = "accepted" =>
            /\ h # g /\ acceptor[h].pc = "accepted" /\ acceptor'[h] = acceptor[h]
            /\ acceptor[h].got \in Conns /\ acceptor[h].got # c
    BY <1>0, <1>3 DEF Inv, Connections, AcceptedAreInHand, c
  <2> QED
    BY <1>5, <2>1 DEF Inv, Connections, AcceptedAreInHand
<1>9. ClientsWereAccepted'
  BY <1>1, <1>5 DEF Inv, Connections, ClientsWereAccepted, Unused
<1>10. StoppedCapturesAreQuiet'
  <2>1. \A d \in Conns : conn[d].of # None => conn[d].of \in Calls
    BY DEF Inv, TypeOK, ConnRecords
  <2> QED
    BY <1>2, <1>4, <1>5, <2>1 DEF Inv, Connections, StoppedCapturesAreQuiet, Unused
<1> QED
  BY <1>6, <1>7, <1>8, <1>9, <1>10, OwnershipKept, FollowingKept DEF Inv, Connections

\* A connection that nobody has in hand may change, if no link opens and it
\* does not become a client.
LEMMA ConnectionChanges ==
    ASSUME Inv, conn' \in [Conns -> ConnRecords],
           UNCHANGED <<acceptor, server>>,
           \A c \in Conns :
              \/ conn'[c] = conn[c]
              \/ conn'[c].of = None /\ conn'[c].link # "open"
                 /\ (conn[c].of # None \/ conn[c].link \notin {"open", "dead"})
              \/ /\ conn'[c].of = conn[c].of
                 /\ conn[c].link \in {"open", "dead"} /\ conn'[c].link = "dead"
    PROVE  Connections'
<1>1. AcceptedAreInHand'
  BY DEF Inv, Connections, AcceptedAreInHand
<1>2. ClientsWereAccepted'
  BY DEF Inv, Connections, ClientsWereAccepted
<1>3. StoppedCapturesAreQuiet'
  BY DEF Inv, Connections, StoppedCapturesAreQuiet
<1> QED
  BY <1>1, <1>2, <1>3 DEF Connections

LEMMA LinksKeep ==
    ASSUME Inv, NEW c \in Conns, PushFails(c) \/ ReadEnds(c) \/ LinkBreaks(c)
    PROVE  Inv'
<1>0. UNCHANGED <<androidCaptureServers, call, server, listening, webViews, acceptor,
                  monitor, forwards, device>>
  BY DEF PushFails, ReadEnds, LinkBreaks
<1>1. /\ conn' \in [Conns -> ConnRecords]
      /\ \A d \in Conns \ {c} : conn'[d] = conn[d]
      /\ \/ /\ conn'[c].of = None /\ conn'[c].link # "open" /\ conn[c].of # None
         \/ /\ conn'[c].of = conn[c].of
            /\ conn[c].link \in {"open", "dead"} /\ conn'[c].link = "dead"
  <2>1. CASE PushFails(c)
    <3>1. \A r \in ConnRecords : /\ [r EXCEPT !.up = FALSE] \in ConnRecords
                                 /\ [r EXCEPT !.up = FALSE].of = r.of
                                 /\ [r EXCEPT !.up = FALSE].link = r.link
      BY DEF ConnRecords
    <3> QED
      BY <2>1, <3>1 DEF PushFails, Inv, TypeOK
  <2>2. CASE ReadEnds(c)
    BY <2>2 DEF ReadEnds, Inv, TypeOK, ConnRecords, Unused
  <2>3. CASE LinkBreaks(c)
    BY <2>3, LinkWritten DEF LinkBreaks, Inv
  <2> QED
    BY <2>1, <2>2, <2>3
<1>2. TypeOK'
  BY <1>0, <1>1 DEF Inv, TypeOK, device
<1>3. OwnershipStays /\ FollowingStays
  BY <1>0, CallsStay
<1>4. Connections'
  BY <1>0, <1>1, ConnectionChanges
<1> QED
  BY <1>2, <1>3, <1>4, OwnershipKept, FollowingKept DEF Inv

-----------------------------------------------------------------------------
(* The device.                                                             *)

LEMMA DialKeeps ==
    ASSUME Inv, NEW c \in Conns, NEW a \in Apps, Dial(c, a)
    PROVE  Inv'
<1> USE DEF Dial
<1>1. process[a].pid \in Pids
  BY DEF Inv, Following, AgentsAreInProcesses
<1>2. PICK l \in Calls :
          conn' = [conn EXCEPT ![c] = [@ EXCEPT
              !.link = "backlog", !.via = l, !.from = <<a, process[a].pid>>]]
  BY DEF Inv, TypeOK
<1>3. /\ conn' \in [Conns -> ConnRecords]
      /\ \A d \in Conns \ {c} : conn'[d] = conn[d]
      /\ conn'[c].link = "backlog" /\ conn'[c].of = conn[c].of
  <2> DEFINE Dialled(r, from) ==
                 [r EXCEPT !.link = "backlog", !.via = l, !.from = from]
  <2>1. \A r \in ConnRecords, from \in Apps \X Pids :
            /\ Dialled(r, from) \in ConnRecords
            /\ Dialled(r, from).link = "backlog" /\ Dialled(r, from).of = r.of
    BY DEF ConnRecords
  <2>2. <<a, process[a].pid>> \in Apps \X Pids /\ conn[c] \in ConnRecords
    BY <1>1 DEF Inv, TypeOK
  <2>3. conn' = [conn EXCEPT ![c] = Dialled(conn[c], <<a, process[a].pid>>)]
    BY <1>2
  <2> HIDE DEF Dialled
  <2> QED
    BY <2>1, <2>2, <2>3 DEF Inv, TypeOK
<1>4. conn[c].link = "unused" /\ conn[c].of = None
  BY DEF Inv, Connections, ClientsWereAccepted
<1>5. TypeOK'
  BY <1>3 DEF Inv, TypeOK, device
<1>6. OwnershipStays /\ FollowingStays
  BY CallsStay
<1>7. Connections'
  BY <1>3, <1>4, ConnectionChanges
<1> QED
  BY <1>5, <1>6, <1>7, OwnershipKept, FollowingKept DEF Inv

LEMMA AppStartsKeeps ==
    ASSUME Inv, NEW a \in Apps, AppStarts(a)
    PROVE  Inv'
<1> USE DEF AppStarts
<1>1. process[a].pid \in 0 .. MaxPid /\ process[a].pid + 1 \in Pids /\ MaxPid \in Nat
  BY PidAssumption DEF Inv, TypeOK, Pids
<1>2. /\ process' \in [Apps -> [pid: 0 .. MaxPid, up: BOOLEAN]]
      /\ process'[a].pid = process[a].pid + 1
      /\ \A b \in Apps \ {a} : process'[b] = process[b]
  <2>1. PICK p \in Pids : p = process[a].pid + 1
    BY <1>1
  <2>2. process' = [process EXCEPT ![a] = [pid |-> p, up |-> TRUE]]
    BY <2>1
  <2>3. p \in 0 .. MaxPid
    BY <1>1 DEF Pids
  <2> QED
    BY <2>1, <2>2, <2>3 DEF Inv, TypeOK
<1>3. TypeOK'
  BY <1>2 DEF Inv, TypeOK
<1>4. OwnershipStays
  BY CallsStay
<1>5. ConnectionsStay
  BY DEF ConnectionsStay
<1>6. AgentsAreInProcesses'
  <2>1. \A b \in Apps : agent[b] <= process[b].pid /\ agent[b] \in 0 .. MaxPid
    BY DEF Inv, TypeOK, Following, AgentsAreInProcesses
  <2>2. agent[a] <= process'[a].pid
    BY <1>1, <1>2, <2>1
  <2> QED
    BY <1>1, <1>2, <2>1, <2>2 DEF Inv, Following, AgentsAreInProcesses
<1>7. MonitorsKnowTheProcess'
  BY DEF Inv, Following, MonitorsKnowTheProcess
<1> QED
  BY <1>3, <1>4, <1>5, <1>6, <1>7, OwnershipKept, ConnectionsKept DEF Inv, Following

LEMMA AppExitsKeeps ==
    ASSUME Inv, NEW a \in Apps, AppExits(a)
    PROVE  Inv'
<1> USE DEF AppExits
<1>1. /\ process' \in [Apps -> [pid: 0 .. MaxPid, up: BOOLEAN]]
      /\ \A b \in Apps : /\ process'[b].pid = process[b].pid
                         /\ process'[b].up => process[b].up
  BY DEF Inv, TypeOK
<1>2. \A r \in ConnRecords : /\ [r EXCEPT !.link = "dead"] \in ConnRecords
                             /\ [r EXCEPT !.link = "dead"].link = "dead"
                             /\ [r EXCEPT !.link = "dead"].of = r.of
  BY DEF ConnRecords
<1>3. /\ conn' \in [Conns -> ConnRecords]
      /\ \A c \in Conns :
            \/ conn'[c] = conn[c]
            \/ /\ conn'[c].of = conn[c].of
               /\ conn[c].link = "open" /\ conn'[c].link = "dead"
  BY <1>2 DEF Inv, TypeOK
<1>4. TypeOK'
  BY <1>1, <1>3 DEF Inv, TypeOK
<1>5. OwnershipStays
  BY CallsStay
<1>6. Connections'
  BY <1>3, ConnectionChanges
<1>7. AgentsAreInProcesses'
  BY <1>1 DEF Inv, Following, AgentsAreInProcesses
<1>8. MonitorsKnowTheProcess'
  BY DEF Inv, Following, MonitorsKnowTheProcess
<1> QED
  BY <1>4, <1>5, <1>6, <1>7, <1>8, OwnershipKept DEF Inv, Following

-----------------------------------------------------------------------------
(* The monitors.                                                           *)

\* A step of a monitor may write to its own server, load the agent, and
\* replace forwards.
LEMMA MonitorStep ==
    ASSUME Inv, NEW g \in Calls, monitor[g].pc # "none",
           monitor' \in [Calls -> Monitors],
           \A h \in Calls \ {g} : monitor'[h] = monitor[h],
           monitor'[g].pc \in Knowing => monitor'[g].pid \in Pids,
           monitor'[g].pc \in Loaded => agent'[call[g].app] >= monitor'[g].pid,
           server' \in [Calls -> Servers],
           \A h \in Calls : /\ server'[h].running = server[h].running
                            /\ h # g => server'[h].pid = server[h].pid,
           UNCHANGED <<androidCaptureServers, call, listening, acceptor, conn, process>>,
           webViews' \subseteq Calls \X Pids, forwards' \subseteq {"reverse", "jdwp"},
           agent' \in [Apps -> 0 .. MaxPid],
           \A b \in Apps : agent'[b] >= agent[b],
           AgentsAreInProcesses'
    PROVE  Inv'
<1>1. TypeOK'
  BY DEF Inv, TypeOK
<1>2. OwnershipStays
  <2>1. call[g].pc \notin Early
    BY MonitoredCallsAreMade DEF Inv
  <2> QED
    BY <2>1 DEF OwnershipStays
<1>3. ConnectionsStay
  BY DEF ConnectionsStay
<1>4. MonitorsKnowTheProcess'
  <2>1. \A b \in Apps : agent'[b] \in Nat
    BY PidAssumption
  <2>2. \A h \in Calls : monitor[h].pc \in Loaded =>
            agent'[call[h].app] >= monitor[h].pid
    BY <2>1, LaterAgents
  <2> QED
    BY <2>2 DEF Inv, Following, MonitorsKnowTheProcess
<1> QED
  BY <1>1, <1>2, <1>3, <1>4, OwnershipKept, ConnectionsKept DEF Inv, Following

\* Most only move on, and do not get to know the process by that.
LEMMA QuietMonitor ==
    ASSUME Inv, NEW g \in Calls, NEW pc \in MonitorPcs, MonitorGoes(g, pc),
           monitor[g].pc # "none",
           pc \in Knowing => monitor[g].pc \in Knowing,
           pc \in Loaded => monitor[g].pc \in Loaded,
           server' \in [Calls -> Servers],
           \A h \in Calls : /\ server'[h].running = server[h].running
                            /\ h # g => server'[h].pid = server[h].pid,
           UNCHANGED <<androidCaptureServers, call, listening, acceptor, conn, device>>,
           webViews' \subseteq Calls \X Pids, forwards' \subseteq {"reverse", "jdwp"}
    PROVE  Inv'
<1>1. MonitorMoves(g, pc)
  BY GotoMoves, MonitorGoesMoves DEF Inv
<1>2. /\ monitor' \in [Calls -> Monitors]
      /\ \A h \in Calls \ {g} : monitor'[h] = monitor[h]
      /\ monitor'[g].pc = pc /\ monitor'[g].pid = monitor[g].pid
  <2>1. \A h \in Calls \ {g} : monitor'[h] = monitor[h]
    BY DEF MonitorGoes, Inv, TypeOK
  <2> QED
    BY <1>1, <2>1 DEF MonitorMoves
<1>3. /\ pc \in Knowing => monitor[g].pid \in Pids
      /\ pc \in Loaded => agent[call[g].app] >= monitor[g].pid
  BY DEF Inv, Following, MonitorsKnowTheProcess
<1>4. /\ agent' \in [Apps -> 0 .. MaxPid] /\ AgentsAreInProcesses'
      /\ \A b \in Apps : agent'[b] >= agent[b]
  <2>1. \A b \in Apps : agent[b] \in 0 .. MaxPid
    BY DEF Inv, TypeOK
  <2>2. \A b \in Apps : agent'[b] >= agent[b]
    BY <2>1, PidAssumption DEF device
  <2>3. AgentsAreInProcesses' /\ agent' \in [Apps -> 0 .. MaxPid]
    BY DEF device, Inv, TypeOK, Following, AgentsAreInProcesses
  <2> QED
    BY <2>2, <2>3
<1> QED
  BY <1>2, <1>3, <1>4, MonitorStep DEF device

\* What the types say of a quiet step.
LEMMA QuietTypes ==
    ASSUME Inv
    PROVE  /\ server \in [Calls -> Servers] /\ webViews \subseteq Calls \X Pids
           /\ forwards \subseteq {"reverse", "jdwp"}
  BY DEF Inv, TypeOK

LEMMA MonitorsMoveOn ==
    ASSUME Inv, NEW g \in Calls,
           MonitorQuits(g) \/ MonitorRestores(g) \/ MonitorWaits(g)
    PROVE  Inv'
<1> USE QuietTypes
<1>1. CASE MonitorQuits(g)
  BY <1>1, QuietMonitor DEF MonitorQuits, MonitorPcs, Knowing, Loaded
<1>2. CASE MonitorRestores(g)
  <2>1. PICK pc \in {"inject", "failed"} : MonitorGoes(g, pc)
    BY <1>2 DEF MonitorRestores
  <2>2. forwards' \subseteq {"reverse", "jdwp"}
    BY <1>2 DEF MonitorRestores
  <2> QED
    BY <1>2, <2>1, <2>2, QuietMonitor DEF MonitorRestores, MonitorPcs, Knowing, Loaded
<1>3. CASE MonitorWaits(g)
  <2>1. PICK pc \in {"web view", "failed"} : MonitorGoes(g, pc)
    BY <1>3 DEF MonitorWaits
  <2> QED
    BY <1>3, <2>1, QuietMonitor DEF MonitorWaits, MonitorPcs, Knowing, Loaded
<1> QED
  BY <1>1, <1>2, <1>3

LEMMA MonitorQueriesKeeps ==
    ASSUME Inv, NEW g \in Calls, MonitorQueries(g)
    PROVE  Inv'
<1> USE DEF MonitorQueries
<1>1. \A a \in Apps : process[a].up => process[a].pid \in Pids
  BY DEF Inv, Following, AgentsAreInProcesses
<1>2. call[g].app \in Apps
  BY MonitoredCallsAreMade DEF Inv
<1>3. PICK p \in Pids \cup {None} :
          monitor' = [monitor EXCEPT ![g] = [@ EXCEPT !.pc = "queried", !.pid = p]]
  BY <1>1, <1>2
<1> DEFINE Found(r) == [r EXCEPT !.pc = "queried", !.pid = p]
<1>4. /\ monitor' \in [Calls -> Monitors]
      /\ \A h \in Calls \ {g} : monitor'[h] = monitor[h]
      /\ monitor'[g].pc = "queried"
  <2>1. \A r \in Monitors : Found(r) \in Monitors /\ Found(r).pc = "queried"
    BY DEF Monitors
  <2>2. monitor' = [monitor EXCEPT ![g] = Found(monitor[g])]
    BY <1>3
  <2>3. monitor \in [Calls -> Monitors]
    BY DEF Inv, TypeOK
  <2> HIDE DEF Found
  <2> QED
    BY <2>1, <2>2, <2>3
<1>5. TypeOK'
  BY <1>4 DEF Inv, TypeOK, device
<1>6. OwnershipStays
  BY <1>4, MonitoredCallsAreMade DEF OwnershipStays, Inv
<1>7. ConnectionsStay
  BY DEF ConnectionsStay
<1>8. FollowingStays
  BY <1>4 DEF FollowingStays, Knowing, device
<1> QED
  BY <1>5, <1>6, <1>7, <1>8, OwnershipKept, ConnectionsKept, FollowingKept DEF Inv

\* The monitor gets to know the process here: it goes on with a PID it found.
LEMMA MonitorDecidesKeeps ==
    ASSUME Inv, NEW g \in Calls, MonitorDecides(g)
    PROVE  Inv'
<1> DEFINE p == monitor[g].pid
<1> USE QuietTypes DEF MonitorDecides
<1>1. CASE (MonitorGoes(g, "done") \/ MonitorGoes(g, "poll")) /\ UNCHANGED server
  BY <1>1, QuietMonitor DEF MonitorPcs, Knowing, Loaded, device
<1>2. CASE /\ monitor' = [monitor EXCEPT ![g] = [@ EXCEPT !.pc = "poll", !.waiting = TRUE]]
           /\ server' = [server EXCEPT ![g].waiting = @ \/ ~monitor[g].waiting]
  <2>1. /\ server' \in [Calls -> Servers]
        /\ \A h \in Calls : /\ server'[h].running = server[h].running
                            /\ server'[h].pid = server[h].pid
    <3>1. PICK b \in BOOLEAN : b = (server[g].waiting \/ ~monitor[g].waiting)
      OBVIOUS
    <3>2. server' = [server EXCEPT ![g].waiting = b]
      BY <1>2, <3>1
    <3>3. \A r \in Servers : /\ [r EXCEPT !.waiting = b] \in Servers
                             /\ [r EXCEPT !.waiting = b].running = r.running
                             /\ [r EXCEPT !.waiting = b].pid = r.pid
      BY DEF Servers
    <3> QED
      BY <3>2, <3>3
  <2>2. /\ monitor' \in [Calls -> Monitors]
        /\ \A h \in Calls \ {g} : monitor'[h] = monitor[h]
        /\ monitor'[g].pc = "poll"
    <3>1. \A r \in Monitors :
              /\ [r EXCEPT !.pc = "poll", !.waiting = TRUE] \in Monitors
              /\ [r EXCEPT !.pc = "poll", !.waiting = TRUE].pc = "poll"
      BY DEF Monitors
    <3>2. monitor \in [Calls -> Monitors]
      BY DEF Inv, TypeOK
    <3> QED
      BY <1>2, <3>1, <3>2
  <2>3. TypeOK'
    BY <2>1, <2>2 DEF Inv, TypeOK, device
  <2>4. OwnershipStays
    BY <2>1, <2>2, MonitoredCallsAreMade DEF OwnershipStays, Inv
  <2>5. ConnectionsStay
    BY <2>1 DEF ConnectionsStay
  <2>6. FollowingStays
    BY <2>2 DEF FollowingStays, Knowing, device
  <2> QED
    BY <2>3, <2>4, <2>5, <2>6, OwnershipKept, ConnectionsKept, FollowingKept DEF Inv
<1>3. CASE /\ p # None /\ MonitorGoes(g, "restore")
           /\ server' = IF server[g].pending = p THEN server
                        ELSE [server EXCEPT ![g] = [@ EXCEPT
                                 !.pending = p, !.fresh = FALSE]]
  <2>1. p \in Pids
    BY <1>3 DEF Inv, TypeOK, Monitors
  <2>2. /\ server' \in [Calls -> Servers]
        /\ \A h \in Calls : /\ server'[h].running = server[h].running
                            /\ server'[h].pid = server[h].pid
    <3>1. \A r \in Servers :
              /\ [r EXCEPT !.pending = p, !.fresh = FALSE] \in Servers
              /\ [r EXCEPT !.pending = p, !.fresh = FALSE].running = r.running
              /\ [r EXCEPT !.pending = p, !.fresh = FALSE].pid = r.pid
      BY <2>1 DEF Servers
    <3> HIDE DEF p
    <3> QED
      BY <1>3, <3>1
  <2>3. MonitorMoves(g, "restore")
    BY <1>3, MonitorGoesMoves DEF Inv, MonitorPcs
  <2>4. TypeOK'
    BY <2>2, <2>3 DEF Inv, TypeOK, MonitorMoves, device
  <2>5. OwnershipStays
    BY <2>2, <2>3, MonitoredCallsAreMade DEF OwnershipStays, Inv, MonitorMoves
  <2>6. ConnectionsStay
    BY <2>2 DEF ConnectionsStay
  <2>7. Following'
    <3>1. AgentsAreInProcesses'
      BY DEF Inv, Following, AgentsAreInProcesses, device
    <3>2. MonitorsKnowTheProcess'
      BY <2>1, <2>3 DEF Inv, Following, MonitorsKnowTheProcess, MonitorMoves, Knowing,
                        Loaded, device
    <3> QED
      BY <3>1, <3>2 DEF Following
  <2> QED
    BY <2>4, <2>5, <2>6, <2>7, OwnershipKept, ConnectionsKept DEF Inv
<1> QED
  BY <1>1, <1>2, <1>3

\* Past "inject" the agent is in the process, whoever put it there.
LEMMA MonitorInjectsKeeps ==
    ASSUME Inv, NEW g \in Calls, MonitorInjects(g)
    PROVE  Inv'
<1> DEFINE a == call[g].app
           p == monitor[g].pid
<1> USE QuietTypes DEF MonitorInjects
<1>1. a \in Apps /\ p \in Pids /\ p \in Nat /\ agent[a] \in Nat
  <2>1. a \in Apps /\ p \in Pids
    BY MonitoredCallsAreMade DEF Inv, Following, MonitorsKnowTheProcess, Knowing
  <2> QED
    BY <2>1, PidAssumption DEF Inv, TypeOK, Pids
<1>2. CASE MonitorGoes(g, "failed") /\ UNCHANGED agent
  <2>1. forwards' \subseteq {"reverse", "jdwp"}
    BY <1>2
  <2> QED
    BY <1>2, <2>1, QuietMonitor DEF MonitorPcs, Knowing, Loaded, device
<1>3. CASE /\ MonitorGoes(g, "wait")
           /\ forwards' \in {forwards, forwards \cup {"jdwp"}}
           /\ \/ agent[a] = p /\ UNCHANGED agent
              \/ Runs(a, p) /\ agent' = [agent EXCEPT ![a] = p]
  <2>1. /\ agent' \in [Apps -> 0 .. MaxPid] /\ AgentsAreInProcesses'
        /\ \A b \in Apps : agent'[b] >= agent[b]
        /\ agent'[a] = p
    <3>1. CASE agent[a] = p /\ UNCHANGED agent
      <4>1. \A b \in Apps : agent[b] \in 0 .. MaxPid
        BY DEF Inv, TypeOK
      <4>2. \A b \in Apps : agent'[b] >= agent[b]
        BY <3>1, <4>1, PidAssumption
      <4> QED
        BY <3>1, <4>2 DEF Inv, TypeOK, Following, AgentsAreInProcesses
    <3>2. CASE Runs(a, p) /\ agent' = [agent EXCEPT ![a] = p]
      BY <1>1, <3>2, LoadsAgent
    <3> QED
      BY <1>3, <3>1, <3>2
  <2>2. MonitorMoves(g, "wait")
    BY <1>3, MonitorGoesMoves DEF Inv, MonitorPcs
  <2>3. \A h \in Calls \ {g} : monitor'[h] = monitor[h]
    BY <1>3 DEF MonitorGoes, Inv, TypeOK
  <2>4. forwards' \subseteq {"reverse", "jdwp"}
    BY <1>3
  <2> QED
    BY <1>1, <2>1, <2>2, <2>3, <2>4, MonitorStep DEF MonitorMoves
<1> QED
  BY <1>2, <1>3

LEMMA WebViewsKeep ==
    ASSUME Inv, NEW g \in Calls, RestartWebView(g) \/ InstallWebView(g)
    PROVE  Inv'
<1> USE QuietTypes
<1>1. monitor[g].pid \in Pids
  BY DEF RestartWebView, InstallWebView, Inv, Following, MonitorsKnowTheProcess, Knowing
<1>2. CASE RestartWebView(g)
  <2>1. /\ server' \in [Calls -> Servers]
        /\ \A h \in Calls : /\ server'[h].running = server[h].running
                            /\ server'[h].pid = server[h].pid
    BY <1>2, WebViewWritten DEF RestartWebView, Inv
  <2>2. webViews' \subseteq Calls \X Pids
    <3>1. <<g, monitor[g].pid>> \in Calls \X Pids
      BY <1>1
    <3> QED
      BY <1>2, <3>1 DEF RestartWebView
  <2> QED
    BY <1>2, <2>1, <2>2, QuietMonitor
       DEF RestartWebView, MonitorPcs, Knowing, Loaded, device
<1>3. CASE InstallWebView(g)
  <2>1. PICK pc \in {"commit", "failed"} : MonitorGoes(g, pc)
    BY <1>3 DEF InstallWebView
  <2>2. /\ server' \in [Calls -> Servers]
        /\ \A h \in Calls : /\ server'[h].running = server[h].running
                            /\ server'[h].pid = server[h].pid
    BY <1>1, <1>3, WebViewWritten DEF InstallWebView, Inv
  <2>3. webViews' \subseteq Calls \X Pids
    BY <1>3 DEF InstallWebView
  <2> QED
    BY <1>3, <2>1, <2>2, <2>3, QuietMonitor
       DEF InstallWebView, MonitorPcs, Knowing, Loaded, device
<1> QED
  BY <1>2, <1>3

LEMMA MonitorSwitchesKeeps ==
    ASSUME Inv, NEW g \in Calls, MonitorSwitches(g)
    PROVE  Inv'
<1> DEFINE p == monitor[g].pid
<1> USE QuietTypes DEF MonitorSwitches
<1>1. CASE MonitorGoes(g, "done") /\ UNCHANGED server
  BY <1>1, QuietMonitor DEF MonitorPcs, Knowing, Loaded, device
<1>2. CASE /\ server' = [server EXCEPT ![g] = [@ EXCEPT
                 !.pid = p, !.waiting = FALSE, !.pending = None]]
           /\ monitor' = [monitor EXCEPT ![g] = [@ EXCEPT
                 !.pc = "poll", !.waiting = FALSE]]
  <2>1. p \in Pids
    BY DEF Inv, Following, MonitorsKnowTheProcess, Knowing
  <2>2. /\ server' \in [Calls -> Servers]
        /\ \A h \in Calls : /\ server'[h].running = server[h].running
                            /\ h # g => server'[h].pid = server[h].pid
    <3> DEFINE Switched(r) == [r EXCEPT !.pid = p, !.waiting = FALSE, !.pending = None]
    <3>1. \A r \in Servers : /\ Switched(r) \in Servers
                             /\ Switched(r).running = r.running
      BY <2>1 DEF Servers
    <3>2. server' = [server EXCEPT ![g] = Switched(server[g])]
      BY <1>2
    <3> HIDE DEF Switched
    <3> QED
      BY <3>1, <3>2
  <2>3. /\ monitor' \in [Calls -> Monitors]
        /\ \A h \in Calls \ {g} : monitor'[h] = monitor[h]
        /\ monitor'[g].pc = "poll"
    <3> DEFINE Polls(r) == [r EXCEPT !.pc = "poll", !.waiting = FALSE]
    <3>1. \A r \in Monitors : Polls(r) \in Monitors /\ Polls(r).pc = "poll"
      BY DEF Monitors
    <3>2. monitor' = [monitor EXCEPT ![g] = Polls(monitor[g])] /\ monitor \in [Calls -> Monitors]
      BY <1>2 DEF Inv, TypeOK
    <3> HIDE DEF Polls
    <3> QED
      BY <3>1, <3>2
  <2>4. TypeOK'
    BY <2>2, <2>3 DEF Inv, TypeOK, device
  <2>5. OwnershipStays
    BY <2>2, <2>3, MonitoredCallsAreMade DEF OwnershipStays, Inv
  <2>6. ConnectionsStay
    BY <2>2 DEF ConnectionsStay
  <2>7. FollowingStays
    BY <2>3 DEF FollowingStays, Knowing, device
  <2> QED
    BY <2>4, <2>5, <2>6, <2>7, OwnershipKept, ConnectionsKept, FollowingKept DEF Inv
<1> QED
  BY <1>1, <1>2

LEMMA MonitorFailsKeeps ==
    ASSUME Inv, NEW g \in Calls, MonitorFails(g)
    PROVE  Inv'
<1> USE DEF MonitorFails
<1>1. /\ monitor' \in [Calls -> Monitors]
      /\ \A h \in Calls \ {g} : monitor'[h] = monitor[h]
      /\ monitor'[g].pc \in {"poll", "done"}
  <2>1. \A r \in Monitors :
            /\ [r EXCEPT !.pc = "poll", !.waiting = TRUE] \in Monitors
            /\ [r EXCEPT !.pc = "poll", !.waiting = TRUE].pc = "poll"
            /\ [r EXCEPT !.pc = "done"] \in Monitors
            /\ [r EXCEPT !.pc = "done"].pc = "done"
    BY DEF Monitors
  <2>2. PICK r \in Monitors : /\ monitor' = [monitor EXCEPT ![g] = r]
                              /\ r.pc \in {"poll", "done"}
    <3>1. monitor[g] \in Monitors
      BY DEF Inv, TypeOK
    <3>2. CASE IsActive(g)
      BY <2>1, <3>1, <3>2
    <3>3. CASE ~IsActive(g)
      BY <2>1, <3>1, <3>3
    <3> QED
      BY <3>2, <3>3
  <2> QED
    BY <2>2 DEF Inv, TypeOK
<1>2. TypeOK'
  BY <1>1 DEF Inv, TypeOK, device
<1>3. OwnershipStays
  BY <1>1, MonitoredCallsAreMade DEF OwnershipStays, Inv
<1>4. ConnectionsStay
  BY DEF ConnectionsStay
<1>5. FollowingStays
  BY <1>1 DEF FollowingStays, Knowing, device
<1> QED
  BY <1>2, <1>3, <1>4, <1>5, OwnershipKept, ConnectionsKept, FollowingKept DEF Inv

\* Every step of a monitor.
LEMMA MonitoringKeeps ==
    ASSUME Inv, NEW g \in Calls, Monitoring(g)
    PROVE  Inv'
  BY MonitorsMoveOn, MonitorQueriesKeeps, MonitorDecidesKeeps, MonitorInjectsKeeps,
     WebViewsKeep, MonitorSwitchesKeeps, MonitorFailsKeeps DEF Monitoring

-----------------------------------------------------------------------------
(* The invariant.                                                          *)

LEMMA Establishes ==
    ASSUME Init
    PROVE  Inv
<1> USE DEF Init
<1>1. TypeOK
  <2>1. Cardinality(listening) <= 1
    BY OneListenerCounts
  <2>2. 0 \in 0 .. MaxPid
    BY PidAssumption
  <2> QED
    BY <2>1, <2>2 DEF TypeOK, Starters, Servers, Acceptors, Monitors, ConnRecords, Unused
<1>2. Ownership
  BY DEF Ownership, CallsKnowTheirApp, EarlyCallsOwnNothing, OneListener,
         RegisteredServersListen
<1>3. Connections
  BY DEF Connections, AcceptedAreInHand, ClientsWereAccepted, StoppedCapturesAreQuiet,
         Unused
<1>4. Following
  <2>1. AgentsAreInProcesses
    BY DEF AgentsAreInProcesses
  <2>2. MonitorsKnowTheProcess
    BY DEF MonitorsKnowTheProcess, Knowing, Loaded
  <2> QED
    BY <2>1, <2>2 DEF Following
<1> QED
  BY <1>1, <1>2, <1>3, <1>4 DEF Inv

LEMMA Preserves ==
    ASSUME Inv, [Next]_vars
    PROVE  Inv'
<1>1. ASSUME NEW g \in Calls, NEW a \in Apps, StartAndroidCapture(g, a)
      PROVE  Inv'
  BY <1>1, StartAndroidCaptureKeeps
<1>2. ASSUME NEW a \in Apps, StopAndroidCapture(a) \/ AppStarts(a) \/ AppExits(a)
      PROVE  Inv'
  BY <1>2, StopsKeep, AppStartsKeeps, AppExitsKeeps
<1>3. CASE StopAllAndroidCaptures
  BY <1>3, StopsKeep
<1>4. ASSUME NEW g \in Calls, Starting(g) \/ Accepting(g) \/ Monitoring(g)
      PROVE  Inv'
  BY <1>4, StartingKeeps, MonitoringKeeps, AcceptKeeps, AcceptFailsKeeps,
     FileConnectionKeeps DEF Accepting
<1>5. ASSUME NEW c \in Conns, \/ PushFails(c) \/ ReadEnds(c) \/ LinkBreaks(c)
                              \/ \E a \in Apps : Dial(c, a)
      PROVE  Inv'
  BY <1>5, LinksKeep, DialKeeps
<1>6. CASE UNCHANGED vars
  <2>1. TypeOK'
    BY <1>6 DEF vars, device, Inv, TypeOK
  <2>2. OwnershipStays /\ ConnectionsStay /\ FollowingStays
    BY <1>6 DEF vars, device, OwnershipStays, ConnectionsStay, FollowingStays
  <2> QED
    BY <2>1, <2>2, OwnershipKept, ConnectionsKept, FollowingKept DEF Inv
<1> QED
  BY <1>1, <1>2, <1>3, <1>4, <1>5, <1>6 DEF Next

\* The inductive invariant holds in every reachable state.
THEOREM Invariance == Spec => []Inv
<1>1. Init => Inv
  BY Establishes
<1>2. Inv /\ [Next]_vars => Inv'
  BY Preserves
<1> QED
  BY <1>1, <1>2, PTL DEF Spec

\* The variables have their types: no more than one listener is open on the
\* port at a time.
THEOREM TypeCorrectness == Spec => []TypeOK
<1>1. Inv => TypeOK
  BY DEF Inv
<1> QED
  BY <1>1, Invariance, PTL

\* The server that the registry names for an app is one of that app, it runs
\* and it listens, however starts, retries, failed starts and stops interleave.
THEOREM RegistryIsReal == Spec => []RegisteredServersListen
<1>1. Inv => RegisteredServersListen
  BY DEF Inv, Ownership
<1> QED
  BY <1>1, Invariance, PTL

\* A connection that is still open is not filed under a stopped capture,
\* whichever of FileConnection and the stop comes last.
THEOREM StopsAreFinal == Spec => []StoppedCapturesAreQuiet
<1>1. Inv => StoppedCapturesAreQuiet
  BY DEF Inv, Connections
<1> QED
  BY <1>1, Invariance, PTL

-----------------------------------------------------------------------------
(* A capture follows its app only into a process that has the agent.       *)

\* The writes to a server that leave its PID as it is.
LEMMA OtherFieldsWritten ==
    ASSUME TypeOK, NEW s, NEW x,
           \/ server' = [server EXCEPT ![s].webView = x]
           \/ server' = [server EXCEPT ![s].fresh = x]
           \/ server' = [server EXCEPT ![s].waiting = x]
           \/ server' = [server EXCEPT ![s] = [@ EXCEPT !.pending = x, !.fresh = FALSE]]
    PROVE  \A g \in Calls : server'[g].pid = server[g].pid
<1> SUFFICES ASSUME NEW g \in Calls PROVE server'[g].pid = server[g].pid
  OBVIOUS
<1>1. server \in [Calls -> Servers] /\ server[g] \in Servers
  BY DEF TypeOK
<1>2. CASE g # s
  BY <1>1, <1>2
<1>3. CASE g = s
  <2>1. \/ server'[g] = [server[g] EXCEPT !.webView = x]
        \/ server'[g] = [server[g] EXCEPT !.fresh = x]
        \/ server'[g] = [server[g] EXCEPT !.waiting = x]
        \/ server'[g] = [server[g] EXCEPT !.pending = x, !.fresh = FALSE]
    BY <1>1, <1>3
  <2> QED
    BY <1>1, <2>1 DEF Servers
<1> QED
  BY <1>2, <1>3

\* Only Register and MonitorSwitches write it.
LEMMA PidsStay ==
    ASSUME Inv, [Next]_vars, \A g \in Calls : ~Register(g) /\ ~MonitorSwitches(g)
    PROVE  \A g \in Calls : server'[g].pid = server[g].pid
<1> USE DEF Inv
<1>1. CASE \/ \E g \in Calls, a \in Apps : StartAndroidCapture(g, a)
           \/ \E a \in Apps : AppStarts(a) \/ AppExits(a)
           \/ \E c \in Conns : \/ PushFails(c) \/ ReadEnds(c) \/ LinkBreaks(c)
                              \/ \E a \in Apps : Dial(c, a)
           \/ UNCHANGED vars
  BY <1>1 DEF StartAndroidCapture, AppStarts, AppExits, PushFails, ReadEnds, LinkBreaks,
              Dial, vars
<1>2. CASE (\E a \in Apps : StopAndroidCapture(a)) \/ StopAllAndroidCaptures
  <2>1. PICK S \in SUBSET Registered : Cleanup(S)
    BY <1>2 DEF StopAndroidCapture, StopAllAndroidCaptures, Stop, Registered
  <2> QED
    BY <2>1, RegisteredAreLate, CleanupEffect
<1>3. ASSUME NEW g \in Calls, Starting(g)
      PROVE  \A h \in Calls : server'[h].pid = server[h].pid
  <2>1. CASE Listen(g)
    <3>1. UNCHANGED server \/ Cleanup(Registered)
      BY <2>1 DEF Listen
    <3> QED
      BY <3>1, RegisteredAreLate, CleanupEffect
  <2>2. CASE CleanUpFailedStart(g)
    BY <2>2, CleanupEffect DEF CleanUpFailedStart
  <2>3. CASE StartBackgroundServices(g)
    BY <2>3, OtherFieldsWritten DEF StartBackgroundServices
  <2>4. CASE \/ Probe(g) \/ Relisten(g) \/ SetUpReverse(g) \/ SetUpJDWP(g)
             \/ SpawnAcceptor(g) \/ WaitForAgent(g) \/ Attach(g) \/ UndoForwards(g)
    BY <2>4 DEF Probe, Relisten, SetUpReverse, SetUpJDWP, SpawnAcceptor, WaitForAgent,
                Attach, UndoForwards
  <2> QED
    BY <1>3, <2>1, <2>2, <2>3, <2>4 DEF Starting
<1>4. ASSUME NEW g \in Calls, Accepting(g)
      PROVE  \A h \in Calls : server'[h].pid = server[h].pid
  <2>1. CASE FileConnection(g)
    BY <2>1, OtherFieldsWritten DEF FileConnection
  <2>2. CASE AcceptFails(g) \/ \E c \in Conns : Accept(g, c)
    BY <2>2 DEF AcceptFails, Accept
  <2> QED
    BY <1>4, <2>1, <2>2 DEF Accepting
<1>5. ASSUME NEW g \in Calls, Monitoring(g)
      PROVE  \A h \in Calls : server'[h].pid = server[h].pid
  <2>1. CASE MonitorDecides(g)
    <3>1. \/ server' = server
          \/ \E x : server' = [server EXCEPT ![g].waiting = x]
          \/ \E x : server' = [server EXCEPT ![g] =
                        [@ EXCEPT !.pending = x, !.fresh = FALSE]]
      BY <2>1 DEF MonitorDecides
    <3> QED
      BY <3>1, OtherFieldsWritten
  <2>2. CASE RestartWebView(g) \/ InstallWebView(g)
    BY <2>2, OtherFieldsWritten DEF RestartWebView, InstallWebView
  <2>3. CASE \/ MonitorQuits(g) \/ MonitorQueries(g) \/ MonitorRestores(g)
             \/ MonitorInjects(g) \/ MonitorWaits(g) \/ MonitorFails(g)
    BY <2>3 DEF MonitorQuits, MonitorQueries, MonitorRestores, MonitorInjects,
                MonitorWaits, MonitorFails
  <2> QED
    BY <1>5, <2>1, <2>2, <2>3 DEF Monitoring
<1> QED
  BY <1>1, <1>2, <1>3, <1>4, <1>5 DEF Next

LEMMA SwitchesFollow ==
    ASSUME Inv, [Next]_vars, NEW g \in Calls,
           server[g].pid # None, server'[g].pid # server[g].pid
    PROVE  agent[call[g].app] >= server'[g].pid
<1>1. ASSUME NEW h \in Calls, Register(h)
      PROVE  FALSE
  <2>1. server[h].pid = None
    BY <1>1 DEF Register, Inv, Ownership, EarlyCallsOwnNothing, Early
  <2>2. \A k \in Calls \ {h} : server'[k] = server[k]
    BY <1>1 DEF Register, Inv, TypeOK
  <2> QED
    BY <2>1, <2>2
<1>2. PICK h \in Calls : MonitorSwitches(h)
  BY <1>1, PidsStay
<1>3. /\ monitor[h].pc = "commit"
      /\ server' = server \/ server' = [server EXCEPT ![h] = [@ EXCEPT
             !.pid = monitor[h].pid, !.waiting = FALSE, !.pending = None]]
  BY <1>2 DEF MonitorSwitches
<1>4. h = g /\ server'[g].pid = monitor[g].pid
  <2> DEFINE Switched(r) == [r EXCEPT
                 !.pid = monitor[h].pid, !.waiting = FALSE, !.pending = None]
  <2>1. \A r \in Servers : Switched(r).pid = monitor[h].pid
    BY DEF Servers
  <2>2. server' = server \/ server' = [server EXCEPT ![h] = Switched(server[h])]
    BY <1>3
  <2>3. server \in [Calls -> Servers]
    BY DEF Inv, TypeOK
  <2> HIDE DEF Switched
  <2> QED
    BY <2>1, <2>2, <2>3
<1> QED
  BY <1>3, <1>4 DEF Inv, Following, MonitorsKnowTheProcess, Loaded

\* A capture goes over to a new process of its app only when the agent was
\* loaded into that process, or a later one, whatever became of the process,
\* the connections and the forwards since MonitorInjects.
THEOREM RestartsFollowTheAgent == Spec => SwitchesFollowTheAgent
<1>1. Inv /\ [Next]_vars =>
          [\A g \in Calls : server[g].pid # None /\ server'[g].pid # server[g].pid =>
               agent[call[g].app] >= server'[g].pid]_vars
  BY SwitchesFollow
<1> QED
  BY <1>1, Invariance, PTL DEF Spec, SwitchesFollowTheAgent

-----------------------------------------------------------------------------
(* AndroidCapture implements PortOwnership.                                *)

\* The app that has the port.
Owner == IF Registered = {} THEN None
         ELSE CHOOSE a \in Apps : androidCaptureServers[a] # None

\* It is the only one in the registry: the others' servers would listen, too.
OwnerIsRegistered ==
    /\ \A a \in Apps : Owner = a <=> androidCaptureServers[a] # None
    /\ Owner \in Apps \cup {None}

LEMMA OneOwner == Inv => OwnerIsRegistered
<1> SUFFICES ASSUME Inv PROVE OwnerIsRegistered
  OBVIOUS
<1>1. ASSUME NEW a \in Apps, NEW b \in Apps,
             androidCaptureServers[a] # None, androidCaptureServers[b] # None
      PROVE  a = b
  <2>1. /\ androidCaptureServers[a] \in listening
        /\ androidCaptureServers[b] \in listening
        /\ call[androidCaptureServers[a]].app = a
        /\ call[androidCaptureServers[b]].app = b
    BY <1>1 DEF Inv, Ownership, RegisteredServersListen
  <2>2. androidCaptureServers[a] = androidCaptureServers[b]
    BY <2>1 DEF Inv, Ownership, OneListener
  <2> QED
    BY <2>1, <2>2
<1>2. Registered = {} <=> \A a \in Apps : androidCaptureServers[a] = None
  BY DEF Registered
<1> QED
  BY <1>1, <1>2, NilAssumption DEF Owner, OwnerIsRegistered

\* Only Register adds to the registry.
LEMMA RegistryOnlyShrinks ==
    ASSUME Inv, [Next]_vars, \A g \in Calls : ~Register(g)
    PROVE  \A a \in Apps : androidCaptureServers'[a] \in {androidCaptureServers[a], None}
<1> USE DEF Inv
<1>1. \A S \in SUBSET Calls : Cleanup(S) =>
          \A a \in Apps : androidCaptureServers'[a] \in {androidCaptureServers[a], None}
  BY CleanupEffect
<1>2. CASE (\E a \in Apps : StopAndroidCapture(a)) \/ StopAllAndroidCaptures
  <2>1. PICK S \in SUBSET Registered : Cleanup(S)
    BY <1>2 DEF StopAndroidCapture, StopAllAndroidCaptures, Stop, Registered
  <2> QED
    BY <1>1, <2>1, RegisteredAreLate
<1>3. ASSUME NEW g \in Calls, Listen(g) \/ CleanUpFailedStart(g)
      PROVE  \A a \in Apps :
                 androidCaptureServers'[a] \in {androidCaptureServers[a], None}
  <2>1. \/ UNCHANGED androidCaptureServers \/ Cleanup(Registered) \/ Cleanup({g})
    BY <1>3 DEF Listen, CleanUpFailedStart
  <2> QED
    BY <1>1, <2>1, RegisteredAreLate
<1>4. CASE UNCHANGED androidCaptureServers
  BY <1>4
<1>5. ASSUME NEW g \in Calls,
             \/ \E a \in Apps : StartAndroidCapture(g, a)
             \/ Probe(g) \/ Relisten(g) \/ SetUpReverse(g) \/ SetUpJDWP(g)
             \/ SpawnAcceptor(g) \/ WaitForAgent(g) \/ Attach(g)
             \/ StartBackgroundServices(g) \/ UndoForwards(g)
             \/ Accepting(g) \/ Monitoring(g)
      PROVE  UNCHANGED androidCaptureServers
  BY <1>5 DEF StartAndroidCapture, Probe, Relisten, SetUpReverse, SetUpJDWP,
              SpawnAcceptor, WaitForAgent, Attach, StartBackgroundServices, UndoForwards,
              Accepting, AcceptFails, FileConnection, Accept, Monitoring, MonitorQuits,
              MonitorQueries, MonitorDecides, MonitorRestores, MonitorInjects,
              MonitorWaits, RestartWebView, InstallWebView, MonitorSwitches, MonitorFails
<1>6. ASSUME \/ \E a \in Apps : AppStarts(a) \/ AppExits(a)
             \/ \E c \in Conns : \/ PushFails(c) \/ ReadEnds(c) \/ LinkBreaks(c)
                                \/ \E a \in Apps : Dial(c, a)
             \/ UNCHANGED vars
      PROVE  UNCHANGED androidCaptureServers
  BY <1>6 DEF AppStarts, AppExits, PushFails, ReadEnds, LinkBreaks, Dial, vars
<1> QED
  BY <1>2, <1>3, <1>4, <1>5, <1>6 DEF Next, Starting

\* Every step is one of PortOwnership, or a stutter.
LEMMA OwnerStep ==
    ASSUME Inv, OwnerIsRegistered, OwnerIsRegistered', [Next]_vars
    PROVE  Owners!Next \/ UNCHANGED [p \in {6200} |-> Owner]
<1> USE NilAssumption
<1>1. ASSUME NEW g \in Calls, Register(g)
      PROVE  \E a \in Apps : Owners!Acquire(a, 6200)
  <2> DEFINE a == call[g].app
  <2>1. a \in Apps
    BY <1>1 DEF Register, Inv, Ownership, CallsKnowTheirApp
  <2>2. \A b \in Apps : androidCaptureServers[b] = None
    BY <1>1, RegisterFindsNobody DEF Register, Registered
  <2>3. androidCaptureServers'[a] = g
    BY <1>1, <2>1 DEF Register, Inv, TypeOK
  <2>4. Owner = None /\ Owner' = a
    BY <2>1, <2>2, <2>3 DEF OwnerIsRegistered
  <2> HIDE DEF a
  <2>5. Owners!Acquire(a, 6200)
    <3>1. Owners!Acquire(a, 6200) <=>
              /\ [p \in {6200} |-> Owner][6200] = None
              /\ [p \in {6200} |-> Owner]' = [[p \in {6200} |-> Owner] EXCEPT ![6200] = a]
      BY DEF Owners!Acquire, Owner
    <3> QED
      BY <2>4, <3>1
  <2> QED
    BY <2>1, <2>5
<1>2. CASE \A g \in Calls : ~Register(g)
  <2>1. \A a \in Apps :
            androidCaptureServers'[a] \in {androidCaptureServers[a], None}
    BY <1>2, RegistryOnlyShrinks
  <2>2. Owner' = Owner \/ Owner' = None
    BY <2>1 DEF OwnerIsRegistered
  <2>3. ASSUME Owner' = None
        PROVE  Owners!ReleasePort(6200)
    <3>1. Owners!ReleasePort(6200) <=>
              [p \in {6200} |-> Owner]' = [[p \in {6200} |-> Owner] EXCEPT ![6200] = None]
      BY DEF Owners!ReleasePort, Owner
    <3> QED
      BY <2>3, <3>1
  <2>4. Owners!ReleasePort(6200) => Owners!Next
    BY DEF Owners!Next
  <2> QED
    BY <2>2, <2>3, <2>4
<1> QED
  BY <1>1, <1>2 DEF Owners!Next

\* The apps share the local port as PortOwnership says: it goes from one app
\* to another only by way of nobody, however starts and stops overlap.
THEOREM Implementation == Spec => ImplementsPortOwnership
<1>1. Init => Owners!Init
  BY DEF Init, Owners!Init, Registered
<1>2. Inv /\ OwnerIsRegistered /\ OwnerIsRegistered' /\ [Next]_vars
        => [Owners!Next]_([p \in {6200} |->
               IF Registered = {} THEN None
               ELSE CHOOSE a \in Apps : androidCaptureServers[a] # None])
  BY OwnerStep DEF Owner
<1> QED
  BY <1>1, <1>2, OneOwner, Invariance, PTL
  DEF Spec, ImplementsPortOwnership, Owners!Spec
=============================================================================
