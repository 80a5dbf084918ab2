------------------------ MODULE CaptureServer_proofs ------------------------
(***************************************************************************)
(* Theorems about CaptureServer.  Inv is inductive: every action preserves *)
(* it, which is shown action by action.  The invariants checked by TLC and *)
(* the implementation of PortOwnership follow from it.                     *)
(***************************************************************************)
EXTENDS CaptureServer, TLAPS

\* The inductive invariant holds initially: nothing has been started.
LEMMA InitInv == Init => Inv
<1> SUFFICES ASSUME Init PROVE Inv
  OBVIOUS
<1>1. TypeOK
  BY DEF Init, TypeOK, Objects, Starters, Acceptors, Hearts, ConnRecords
<1>2. CallsKnowTheirKey /\ ListenersHavePorts /\ RegistryMatches
  BY DEF Init, CallsKnowTheirKey, ListenersHavePorts, RegistryMatches, Served
<1>3. ServersAreServed /\ GoroutinesHaveServers
  BY DEF Init, ServersAreServed, GoroutinesHaveServers
<1>4. ConnectionsBelong /\ ClientsHaveReaders
  BY DEF Init, ConnectionsBelong, ClientsHaveReaders
<1>5. RunningServersListen
  BY DEF Init, RunningServersListen, Registered
<1> QED
  BY <1>1, <1>2, <1>3, <1>4, <1>5 DEF Inv

\* The types of the fields that are names.
LEMMA Fields ==
    TypeOK =>
      /\ \A s \in Calls : /\ object[s].server \in Calls \cup {None}
                         /\ object[s].client \in Conns \cup {None}
      /\ \A g \in Calls : /\ starter[g].obj \in Calls \cup {None}
                         /\ acceptor[g].on \in Calls \cup {None}
                         /\ acceptor[g].got \in Conns \cup {None}
      /\ \A c \in Conns : conn[c].via \in Calls \cup {None}
<1> SUFFICES ASSUME TypeOK
             PROVE  /\ \A s \in Calls : /\ object[s].server \in Calls \cup {None}
                                       /\ object[s].client \in Conns \cup {None}
                    /\ \A g \in Calls : /\ starter[g].obj \in Calls \cup {None}
                                       /\ acceptor[g].on \in Calls \cup {None}
                                       /\ acceptor[g].got \in Conns \cup {None}
                    /\ \A c \in Conns : conn[c].via \in Calls \cup {None}
  OBVIOUS
<1>1. \A s \in Calls : /\ object[s].server \in Calls \cup {None}
                      /\ object[s].client \in Conns \cup {None}
  BY DEF TypeOK, Objects
<1>2. \A g \in Calls : starter[g].obj \in Calls \cup {None}
  BY DEF TypeOK, Starters
<1>3. \A g \in Calls : /\ acceptor[g].on \in Calls \cup {None}
                      /\ acceptor[g].got \in Conns \cup {None}
  BY DEF TypeOK, Acceptors
<1>4. \A c \in Conns : conn[c].via \in Calls \cup {None}
  BY DEF TypeOK, ConnRecords
<1> QED
  BY <1>1, <1>2, <1>3, <1>4

-----------------------------------------------------------------------------
(* What the shared pieces do.                                              *)

\* Closing links leaves the connections where they belong.
LEMMA CloseLinksEffect ==
    ASSUME TypeOK, NEW L, NEW C, CloseLinks(L, C)
    PROVE  /\ conn' \in [Conns -> ConnRecords]
           /\ \A c \in Conns : /\ conn'[c].via = conn[c].via
                               /\ conn'[c].reader = conn[c].reader
                               /\ conn[c].link # "unused" => conn'[c].link # "unused"
<1> DEFINE Closed(c) == c \in C \/ (conn[c].link = "backlog" /\ conn[c].via \in L)
           Dead(c) == [conn[c] EXCEPT !.link = "dead"]
<1>1. conn' = [c \in Conns |-> IF Closed(c) THEN Dead(c) ELSE conn[c]]
  BY DEF CloseLinks
<1>2. ASSUME NEW c \in Conns
      PROVE  /\ conn[c] \in ConnRecords /\ Dead(c) \in ConnRecords
             /\ Dead(c).via = conn[c].via /\ Dead(c).reader = conn[c].reader
             /\ Dead(c).link = "dead"
  BY DEF TypeOK, ConnRecords
<1> HIDE DEF Closed, Dead
<1> QED
  BY <1>1, <1>2

\* Closing the servers of S closes only listeners that are servers in S.
LEMMA ClosingEffect ==
    ASSUME TypeOK, NEW S, CloseListenersAndClients(S)
    PROVE  /\ listening' \subseteq listening
           /\ tickers' \subseteq tickers
           /\ \A l \in listening : (\A s \in S : object[s].server # l) => l \in listening'
           /\ conn' \in [Conns -> ConnRecords]
           /\ \A c \in Conns : /\ conn'[c].via = conn[c].via
                               /\ conn'[c].reader = conn[c].reader
                               /\ conn[c].link # "unused" => conn'[c].link # "unused"
<1>1. PICK L, C : CloseLinks(L, C)
  BY DEF CloseListenersAndClients
<1>2. /\ listening' \subseteq listening
      /\ tickers' \subseteq tickers
      /\ \A l \in listening : (\A s \in S : object[s].server # l) => l \in listening'
  BY DEF CloseListenersAndClients
<1> QED
  BY <1>1, <1>2, CloseLinksEffect

\* Both stops (StopServers) clear the stopped objects, and touch no others.
LEMMA StoppingEffect ==
    ASSUME TypeOK, NEW S, StopServers(S)
    PROVE  /\ object' \in [Calls -> Objects]
           /\ \A s \in Calls :
                 IF s \in S
                 THEN /\ object'[s].dev = object[s].dev
                      /\ object'[s].port = object[s].port
                      /\ object'[s].server = None
                      /\ object'[s].client = None
                      /\ object'[s].running = FALSE
                 ELSE object'[s] = object[s]
<1> DEFINE After(s) == [object[s] EXCEPT !.timer = None, !.server = None,
                                         !.client = None, !.running = FALSE]
<1>1. object' = [s \in Calls |-> IF s \in S THEN After(s) ELSE object[s]]
  BY DEF StopServers
<1>2. ASSUME NEW r \in Objects,
             NEW q, q = [r EXCEPT !.timer = None, !.server = None,
                                  !.client = None, !.running = FALSE]
      PROVE  /\ q \in Objects
             /\ q.dev = r.dev /\ q.port = r.port
             /\ q.server = None /\ q.client = None /\ q.running = FALSE
  <2>1. q \in Objects
    BY <1>2 DEF Objects
  <2> QED
    BY <1>2, <2>1 DEF Objects
<1>3. ASSUME NEW s \in Calls
      PROVE  object[s] \in Objects
  BY DEF TypeOK
<1>4. ASSUME NEW s \in Calls
      PROVE  /\ After(s) \in Objects
             /\ After(s).dev = object[s].dev /\ After(s).port = object[s].port
             /\ After(s).server = None /\ After(s).client = None
             /\ After(s).running = FALSE
  BY <1>2, <1>3
<1> HIDE DEF After
<1>5. object' \in [Calls -> Objects]
  BY <1>1, <1>3, <1>4
<1>6. ASSUME NEW s \in Calls
      PROVE  object'[s] = IF s \in S THEN After(s) ELSE object[s]
  BY <1>1
<1> QED
  BY <1>4, <1>5, <1>6

-----------------------------------------------------------------------------
(* Steps of the connections, and of the heartbeat.                         *)

\* A step that leaves starts, servers, listeners and registry alone preserves
\* the parts of Inv that speak of them only.
LEMMA QuietStep ==
    ASSUME Inv,
           UNCHANGED <<captureServers, object, starter, listening, tickers,
                       acceptor, monitor>>,
           panicked' \in BOOLEAN,
           heart' \in [Calls -> Hearts],
           \A g \in Calls : heart'[g].pc # "none" => heart[g].pc # "none",
           conn' \in [Conns -> ConnRecords],
           \A c \in Conns :
               /\ conn[c].link # "unused" =>
                     conn'[c].link # "unused" /\ conn'[c].via = conn[c].via
               /\ conn[c].reader \in {"reading", "ending"} =>
                     conn'[c].reader \in {"reading", "ending"}
    PROVE  Inv'
<1> USE DEF Inv
<1>1. TypeOK'
  BY DEF TypeOK
<1>2. /\ CallsKnowTheirKey' /\ ListenersHavePorts' /\ RegistryMatches'
      /\ ServersAreServed'
  BY DEF CallsKnowTheirKey, ListenersHavePorts, RegistryMatches,
         ServersAreServed, Served
<1>3. GoroutinesHaveServers'
  BY DEF GoroutinesHaveServers, Served
<1>4. ConnectionsBelong'
  BY Fields DEF ConnectionsBelong, Served
<1>5. RunningServersListen'
  BY DEF RunningServersListen, Registered
<1>6. ClientsHaveReaders'
  BY Fields DEF ClientsHaveReaders
<1> QED
  BY <1>1, <1>2, <1>3, <1>4, <1>5, <1>6

\* An update of one connection, by any of the actions on one.
LEMMA OneConnection ==
    ASSUME TypeOK, NEW c \in Conns, NEW r \in ConnRecords,
           conn' = [conn EXCEPT ![c] = r],
           conn[c].link # "unused" =>
               r.link # "unused" /\ r.via = conn[c].via,
           conn[c].reader \in {"reading", "ending"} =>
               r.reader \in {"reading", "ending"}
    PROVE  /\ conn' \in [Conns -> ConnRecords]
           /\ \A x \in Conns :
                 /\ conn[x].link # "unused" =>
                       conn'[x].link # "unused" /\ conn'[x].via = conn[x].via
                 /\ conn[x].reader \in {"reading", "ending"} =>
                       conn'[x].reader \in {"reading", "ending"}
<1>1. \A x \in Conns : conn'[x] = IF x = c THEN r ELSE conn[x]
  BY DEF TypeOK
<1>2. conn' \in [Conns -> ConnRecords]
  BY DEF TypeOK
<1> QED
  BY <1>1, <1>2

\* What a device or a reader does to one connection preserves Inv; only the
\* removal of a client (UnregisterClient) is treated elsewhere.
LEMMA ConnectionSteps ==
    ASSUME Inv, NEW c \in Conns,
           \/ ReadMessage(c) \/ RespondFails(c) \/ ReadEnds(c)
           \/ GiveUpReading(c) \/ Remote(c)
    PROVE  Inv'
<1>1. TypeOK /\ conn[c] \in ConnRecords
  BY DEF Inv, TypeOK
<1>2. UNCHANGED <<captureServers, object, starter, listening, tickers,
                  acceptor, heart, monitor, panicked>>
  BY DEF ReadMessage, RespondFails, ReadEnds, GiveUpReading, Remote, HangUp,
         FallSilent, Dial, Disconnect
<1>3. PICK r \in ConnRecords :
         /\ conn' = [conn EXCEPT ![c] = r]
         /\ conn[c].link # "unused" => r.link # "unused" /\ r.via = conn[c].via
         /\ conn[c].reader \in {"reading", "ending"} =>
               r.reader \in {"reading", "ending"}
  <2>1. CASE ReadMessage(c)
    <3> DEFINE r == [conn[c] EXCEPT !.stale = FALSE]
    <3>1. r \in ConnRecords /\ r.via = conn[c].via
      BY <1>1, <2>1 DEF ConnRecords
    <3>2. /\ conn[c].link # "unused" => r.link # "unused"
          /\ conn[c].reader \in {"reading", "ending"} =>
                r.reader \in {"reading", "ending"}
      BY <1>1, <2>1 DEF ConnRecords
    <3>3. conn' = [conn EXCEPT ![c] = r]
      BY <2>1 DEF ReadMessage
    <3> QED
      BY <3>1, <3>2, <3>3
  <2>2. CASE RespondFails(c)
    <3> DEFINE r == [conn[c] EXCEPT !.up = FALSE]
    <3>1. r \in ConnRecords /\ r.via = conn[c].via
      BY <1>1, <2>2 DEF ConnRecords
    <3>2. /\ conn[c].link # "unused" => r.link # "unused"
          /\ conn[c].reader \in {"reading", "ending"} =>
                r.reader \in {"reading", "ending"}
      BY <1>1, <2>2 DEF ConnRecords
    <3>3. conn' = [conn EXCEPT ![c] = r]
      BY <2>2 DEF RespondFails
    <3> QED
      BY <3>1, <3>2, <3>3
  <2>3. CASE ReadEnds(c) \/ GiveUpReading(c)
    <3> DEFINE r == [conn[c] EXCEPT !.up = FALSE, !.link = "dead",
                                    !.reader = "ending"]
    <3>1. r \in ConnRecords /\ r.via = conn[c].via
      BY <1>1, <2>3 DEF ConnRecords
    <3>2. /\ conn[c].link # "unused" => r.link # "unused"
          /\ conn[c].reader \in {"reading", "ending"} =>
                r.reader \in {"reading", "ending"}
      BY <1>1, <2>3 DEF ConnRecords
    <3>3. conn' = [conn EXCEPT ![c] = r]
      BY <2>3 DEF ReadEnds, GiveUpReading, Disconnect
    <3> QED
      BY <3>1, <3>2, <3>3
  <2>4. CASE HangUp(c)
    <3> DEFINE r == [conn[c] EXCEPT !.link = "dead"]
    <3>1. r \in ConnRecords /\ r.via = conn[c].via
      BY <1>1, <2>4 DEF ConnRecords
    <3>2. /\ conn[c].link # "unused" => r.link # "unused"
          /\ conn[c].reader \in {"reading", "ending"} =>
                r.reader \in {"reading", "ending"}
      BY <1>1, <2>4 DEF ConnRecords
    <3>3. conn' = [conn EXCEPT ![c] = r]
      BY <2>4 DEF HangUp
    <3> QED
      BY <3>1, <3>2, <3>3
  <2>5. CASE FallSilent(c)
    <3> DEFINE r == [conn[c] EXCEPT !.stale = TRUE]
    <3>1. r \in ConnRecords /\ r.via = conn[c].via
      BY <1>1, <2>5 DEF ConnRecords
    <3>2. /\ conn[c].link # "unused" => r.link # "unused"
          /\ conn[c].reader \in {"reading", "ending"} =>
                r.reader \in {"reading", "ending"}
      BY <1>1, <2>5 DEF ConnRecords
    <3>3. conn' = [conn EXCEPT ![c] = r]
      BY <2>5 DEF FallSilent
    <3> QED
      BY <3>1, <3>2, <3>3
  <2>6. CASE \E l \in Calls : Dial(c, l)
    <3>1. PICK l \in Calls : Dial(c, l)
      BY <2>6
    <3> DEFINE r == [conn[c] EXCEPT !.link = "backlog", !.via = l]
    <3>2. r \in ConnRecords /\ r.reader = conn[c].reader
      BY <1>1 DEF ConnRecords
    <3>3. conn' = [conn EXCEPT ![c] = r] /\ conn[c].link = "unused"
      BY <3>1 DEF Dial
    <3> QED
      BY <3>2, <3>3
  <2> QED
    BY <2>1, <2>2, <2>3, <2>4, <2>5, <2>6 DEF Remote
<1>4. TypeOK
  BY DEF Inv
<1>5. panicked' \in BOOLEAN /\ heart' \in [Calls -> Hearts]
  BY <1>1, <1>2 DEF TypeOK
<1>6. /\ conn' \in [Conns -> ConnRecords]
      /\ \A x \in Conns :
            /\ conn[x].link # "unused" =>
                  conn'[x].link # "unused" /\ conn'[x].via = conn[x].via
            /\ conn[x].reader \in {"reading", "ending"} =>
                  conn'[x].reader \in {"reading", "ending"}
  BY <1>3, <1>4, OneConnection
<1> QED
  BY <1>2, <1>5, <1>6, QuietStep

\* The heartbeat goroutine preserves Inv, whether it starts, ticks or ends.
LEMMA HeartSteps ==
    ASSUME Inv, NEW g \in Calls, StartHeart(g) \/ HeartTick(g)
    PROVE  Inv'
<1>1. TypeOK /\ GoroutinesHaveServers
  BY DEF Inv
<1>2. heart[g] \in Hearts
  BY <1>1 DEF TypeOK
<1>3. heart[g].pc # "none" => Served(g) \in Calls /\ object[Served(g)] \in Objects
  BY <1>1 DEF TypeOK, GoroutinesHaveServers, Served, Starters
<1>4. CASE StartHeart(g)
  <2>1. panicked' \in BOOLEAN
    BY <1>1, <1>4 DEF StartHeart, TypeOK
  <2>2. UNCHANGED <<captureServers, object, starter, listening, tickers,
                    acceptor, monitor, conn>> /\ heart[g].pc = "spawned"
    BY <1>4 DEF StartHeart
  <2>3. /\ heart' \in [Calls -> Hearts]
        /\ \A h \in Calls : heart'[h].pc # "none" => heart[h].pc # "none"
    <3> DEFINE t == object[Served(g)].timer
               r == [heart[g] EXCEPT !.pc = "ticking", !.on = t]
    <3>1. t \in Calls \cup {None}
      BY <1>3, <2>2 DEF Objects
    <3>2. r \in Hearts
      BY <1>2, <3>1 DEF Hearts
    <3>3. heart' = heart \/ heart' = [heart EXCEPT ![g] = r]
      BY <1>4 DEF StartHeart
    <3> HIDE DEF r
    <3> QED
      BY <1>1, <2>2, <3>2, <3>3 DEF TypeOK
  <2> QED
    BY <1>1, <2>1, <2>2, <2>3, QuietStep DEF TypeOK
<1>5. CASE HeartTick(g)
  <2>1. UNCHANGED <<captureServers, object, starter, listening, tickers,
                    acceptor, monitor, panicked>> /\ heart[g].pc = "ticking"
    BY <1>5 DEF HeartTick
  <2>2. CASE conn' = conn /\ heart' = [heart EXCEPT ![g].pc = "done"]
    <3>1. [heart[g] EXCEPT !.pc = "done"] \in Hearts
      BY <1>2 DEF Hearts
    <3>2. /\ heart' \in [Calls -> Hearts]
          /\ \A h \in Calls : heart'[h].pc # "none" => heart[h].pc # "none"
      BY <1>1, <2>1, <2>2, <3>1 DEF TypeOK
    <3> QED
      BY <1>1, <2>1, <2>2, <3>2, QuietStep DEF TypeOK
  <2>3. CASE heart' = heart /\ conn' # conn
    <3>1. PICK c \in Conns :
             conn' = [conn EXCEPT ![c] = [@ EXCEPT !.up = FALSE, !.link = "dead"]]
      <4>1. object[Served(g)].client \in Conns \cup {None}
        BY <1>3, <2>1 DEF Objects
      <4> QED
        BY <1>5, <2>3, <4>1 DEF HeartTick
    <3> DEFINE r == [conn[c] EXCEPT !.up = FALSE, !.link = "dead"]
    <3>2. conn[c] \in ConnRecords
      BY <1>1 DEF TypeOK
    <3>3. /\ r \in ConnRecords /\ r.via = conn[c].via
          /\ r.reader = conn[c].reader /\ r.link = "dead"
      BY <3>2 DEF ConnRecords
    <3>4. conn' = [conn EXCEPT ![c] = r]
      BY <3>1
    <3> HIDE DEF r
    <3>5. /\ conn' \in [Conns -> ConnRecords]
          /\ \A x \in Conns :
                /\ conn[x].link # "unused" =>
                      conn'[x].link # "unused" /\ conn'[x].via = conn[x].via
                /\ conn[x].reader \in {"reading", "ending"} =>
                      conn'[x].reader \in {"reading", "ending"}
      BY <1>1, <3>3, <3>4, OneConnection
    <3> QED
      BY <1>1, <2>1, <2>3, <3>5, QuietStep DEF TypeOK
  <2>4. CASE heart' = heart /\ conn' = conn
    BY <1>1, <2>1, <2>4, QuietStep DEF TypeOK
  <2> QED
    BY <1>5, <2>2, <2>3, <2>4 DEF HeartTick
<1> QED
  BY <1>4, <1>5

-----------------------------------------------------------------------------
(* Stopping servers.                                                       *)

\* Both stop actions: the servers of a set S of registered ones are stopped,
\* and the registry keeps its other entries.
LEMMA StopStep ==
    ASSUME Inv, NEW S \in SUBSET Registered, StopServers(S),
           captureServers' \in [Keys -> Calls \cup {None}],
           \A k \in Keys : captureServers'[k] \in {captureServers[k], None}
    PROVE  Inv'
<1> USE NilAssumption DEF Inv
<1>1. UNCHANGED <<starter, acceptor, heart, monitor, panicked>>
      /\ CloseListenersAndClients(S)
  BY DEF StopServers
<1>2. /\ listening' \subseteq listening /\ tickers' \subseteq tickers
      /\ \A l \in listening :
            (\A s \in S : object[s].server # l) => l \in listening'
      /\ conn' \in [Conns -> ConnRecords]
      /\ \A c \in Conns : /\ conn'[c].via = conn[c].via
                          /\ conn'[c].reader = conn[c].reader
                          /\ conn[c].link # "unused" => conn'[c].link # "unused"
  BY <1>1, ClosingEffect
<1>3. /\ object' \in [Calls -> Objects]
      /\ \A s \in Calls :
            IF s \in S
            THEN /\ object'[s].dev = object[s].dev
                 /\ object'[s].port = object[s].port
                 /\ object'[s].server = None
                 /\ object'[s].client = None
                 /\ object'[s].running = FALSE
            ELSE object'[s] = object[s]
  BY StoppingEffect
<1>4. TypeOK'
  BY <1>1, <1>2, <1>3 DEF TypeOK
<1>5. CallsKnowTheirKey' /\ ListenersHavePorts'
  <2>1. ASSUME NEW g \in Calls, starter[g].pc = "register"
        PROVE  g \in listening'
    <3>1. g \in listening /\ Served(g) = None
      BY <2>1 DEF CallsKnowTheirKey
    <3>2. \A s \in S : s \in Calls /\ object[s].server # g
      BY <3>1 DEF ServersAreServed, Registered, TypeOK
    <3> QED
      BY <1>2, <3>1, <3>2
  <2> QED
    BY <1>1, <1>2, <2>1 DEF CallsKnowTheirKey, ListenersHavePorts, Served
<1>6. RegistryMatches'
  BY <1>1, <1>3 DEF RegistryMatches, Served, TypeOK
<1>7. ServersAreServed' /\ GoroutinesHaveServers'
  <2>1. \A s \in Calls : object'[s].server \in {object[s].server, None}
    BY <1>3
  <2>2. ServersAreServed'
    BY <1>1, <1>3 DEF ServersAreServed, Served
  <2>3. GoroutinesHaveServers'
    BY <1>1, <2>1 DEF GoroutinesHaveServers, Served, TypeOK, Starters
  <2> QED
    BY <2>2, <2>3
<1>8. ConnectionsBelong' /\ ClientsHaveReaders'
  <2>1. \A s \in Calls : object'[s].client \in {object[s].client, None}
    BY <1>3
  <2>2. ConnectionsBelong'
    BY <1>1, <1>2, <2>1, Fields DEF ConnectionsBelong, Served
  <2>3. ClientsHaveReaders'
    BY <1>2, <2>1, Fields DEF ClientsHaveReaders
  <2> QED
    BY <2>2, <2>3
<1>9. RunningServersListen'
  <2> SUFFICES ASSUME NEW s \in Registered', object'[s].running
               PROVE  /\ object'[s].server \in listening'
                      /\ starter'[object'[s].server].port = object'[s].port
    BY DEF RunningServersListen
  <2>1. s \in Registered /\ s \in Calls
    BY DEF Registered, TypeOK
  <2>2. s \notin S /\ object'[s] = object[s]
    BY <1>3, <2>1
  <2>3. object[s].server \in listening
        /\ starter[object[s].server].port = object[s].port
    BY <2>1, <2>2 DEF RunningServersListen
  <2>4. \A t \in S : t \in Calls /\ object[t].server # object[s].server
    BY <2>1, <2>2, <2>3 DEF ServersAreServed, Registered, TypeOK
  <2> QED
    BY <1>1, <1>2, <2>2, <2>3, <2>4
<1> QED
  BY <1>4, <1>5, <1>6, <1>7, <1>8, <1>9

\* StopCaptureServer and stopCaptureServersByPort preserve Inv.
LEMMA StopSteps ==
    ASSUME Inv,
           \/ \E d \in Devices : StopCaptureServer(d)
           \/ \E p \in Ports : StopCaptureServersByPort(p)
    PROVE  Inv'
<1>1. captureServers \in [Keys -> Calls \cup {None}]
  BY DEF Inv, TypeOK
<1>2. PICK S \in SUBSET Registered :
         /\ StopServers(S)
         /\ \/ captureServers' = captureServers
            \/ captureServers' = [k \in Keys |->
                  IF captureServers[k] \in S THEN None ELSE captureServers[k]]
  BY DEF StopCaptureServer, StopCaptureServersByPort
<1>3. /\ captureServers' \in [Keys -> Calls \cup {None}]
      /\ \A k \in Keys : captureServers'[k] \in {captureServers[k], None}
  BY <1>1, <1>2
<1> QED
  BY <1>2, <1>3, StopStep

-----------------------------------------------------------------------------
(* StartCaptureServer.                                                     *)

\* The clean-up at the beginning of StartCaptureServer preserves Inv although
\* the objects it forgets still say IsRunning: they leave the registry.
LEMMA StartStep ==
    ASSUME Inv, NEW g \in Calls, NEW d \in Devices, NEW p \in Ports,
           StartCaptureServer(g, d, p)
    PROVE  Inv'
<1> USE NilAssumption DEF Inv
<1> DEFINE old == {s \in Registered : object[s].dev = d \/ object[s].port = p}
           r   == [pc |-> "check", dev |-> d, port |-> p, obj |-> None]
<1>1. /\ UNCHANGED <<object, acceptor, heart, monitor, panicked>>
      /\ starter[g].pc = "unused"
      /\ starter' = [starter EXCEPT ![g] = r]
      /\ captureServers' = [k \in Keys |->
            IF captureServers[k] \in old THEN None ELSE captureServers[k]]
      /\ CloseListenersAndClients(old)
  BY DEF StartCaptureServer
<1>2. /\ listening' \subseteq listening /\ tickers' \subseteq tickers
      /\ \A l \in listening :
            (\A s \in old : object[s].server # l) => l \in listening'
      /\ conn' \in [Conns -> ConnRecords]
      /\ \A c \in Conns : /\ conn'[c].via = conn[c].via
                          /\ conn'[c].reader = conn[c].reader
                          /\ conn[c].link # "unused" => conn'[c].link # "unused"
  <2> HIDE DEF old
  <2> QED
    BY <1>1, ClosingEffect
<1>3. r \in Starters
  BY DEF Starters
<1>4. /\ \A h \in Calls : starter'[h] = IF h = g THEN r ELSE starter[h]
      /\ Served(g) = None /\ g \notin listening
      /\ \A h \in Calls : Served(h)' = Served(h)
  BY <1>1 DEF TypeOK, CallsKnowTheirKey, ListenersHavePorts, Served
<1>5. captureServers' \in [Keys -> Calls \cup {None}]
      /\ \A k \in Keys : captureServers'[k] \in {captureServers[k], None}
  BY <1>1 DEF TypeOK
<1>6. old \subseteq Registered /\ Registered \subseteq Calls
  BY DEF Registered, TypeOK
<1>7. \A k \in Keys : captureServers'[k] \notin old
  BY <1>1, <1>6 DEF TypeOK
<1> HIDE DEF old, r
<1>8. TypeOK'
  BY <1>1, <1>2, <1>3, <1>5 DEF TypeOK
<1>9. CallsKnowTheirKey' /\ ListenersHavePorts'
  <2>1. ASSUME NEW h \in Calls, starter[h].pc = "register"
        PROVE  h \in listening'
    <3>1. h \in listening /\ Served(h) = None
      BY <2>1 DEF CallsKnowTheirKey
    <3>2. \A s \in old : s \in Calls /\ object[s].server # h
      BY <1>6, <3>1 DEF ServersAreServed
    <3> QED
      BY <1>2, <3>1, <3>2
  <2>2. CallsKnowTheirKey'
    BY <1>4, <2>1 DEF CallsKnowTheirKey, r
  <2>3. ListenersHavePorts'
    BY <1>2, <1>4 DEF ListenersHavePorts, TypeOK
  <2> QED
    BY <2>2, <2>3
<1>10. RegistryMatches'
  BY <1>1, <1>4, <1>5 DEF RegistryMatches, TypeOK
<1>11. ServersAreServed' /\ GoroutinesHaveServers'
  <2>1. ServersAreServed'
    BY <1>1, <1>4, Fields DEF ServersAreServed
  <2>2. GoroutinesHaveServers'
    BY <1>1, <1>4 DEF GoroutinesHaveServers, r
  <2> QED
    BY <2>1, <2>2
<1>12. ConnectionsBelong' /\ ClientsHaveReaders'
  <2>1. ConnectionsBelong'
    <3>1. \A h \in Calls : starter'[h].obj = starter[h].obj
      BY <1>4 DEF Served
    <3> QED
      BY <1>1, <1>2, <1>4, <3>1, Fields DEF ConnectionsBelong, Served
  <2>2. ClientsHaveReaders'
    BY <1>1, <1>2, Fields DEF ClientsHaveReaders
  <2> QED
    BY <2>1, <2>2
<1>13. RunningServersListen'
  <2> SUFFICES ASSUME NEW s \in Registered', object'[s].running
               PROVE  /\ object'[s].server \in listening'
                      /\ starter'[object'[s].server].port = object'[s].port
    BY DEF RunningServersListen
  <2>1. s \in Registered /\ s \in Calls /\ s \notin old
    BY <1>5, <1>6, <1>7 DEF Registered
  <2>2. object[s].server \in listening
        /\ starter[object[s].server].port = object[s].port
    BY <1>1, <2>1 DEF RunningServersListen
  <2>3. \A t \in old : t \in Calls /\ object[t].server # object[s].server
    BY <1>6, <2>1, <2>2 DEF ServersAreServed, TypeOK
  <2> QED
    BY <1>1, <1>2, <1>4, <2>2, <2>3 DEF TypeOK
<1> QED
  BY <1>8, <1>9, <1>10, <1>11, <1>12, <1>13

\* Steps that move only the program counter of a call.
LEMMA CounterStep ==
    ASSUME Inv, NEW g \in Calls,
           NEW q \in {"forward", "listen", "failed", "returned"},
           starter[g].pc \in {"check", "forward", "listen"},
           starter' = [starter EXCEPT ![g].pc = q],
           UNCHANGED <<captureServers, object, listening, tickers, acceptor,
                       heart, monitor, conn, panicked>>
    PROVE  Inv'
<1> USE NilAssumption DEF Inv
<1> DEFINE r == [starter[g] EXCEPT !.pc = q]
<1>1. starter[g] \in Starters
  BY DEF TypeOK
<1>2. /\ r \in Starters /\ r.pc = q /\ r.dev = starter[g].dev
      /\ r.port = starter[g].port /\ r.obj = starter[g].obj
  BY <1>1 DEF Starters
<1>3. starter' = [starter EXCEPT ![g] = r]
  OBVIOUS
<1> HIDE DEF r
<1>4. /\ starter' \in [Calls -> Starters]
      /\ \A h \in Calls : starter'[h] = IF h = g THEN r ELSE starter[h]
  BY <1>2, <1>3 DEF TypeOK
<1>5. \A h \in Calls : /\ starter'[h].dev = starter[h].dev
                       /\ starter'[h].port = starter[h].port
                       /\ starter'[h].obj = starter[h].obj
  BY <1>2, <1>4
<1>6. Served(g) = None
  BY DEF CallsKnowTheirKey
<1>7. TypeOK'
  BY <1>4 DEF TypeOK
<1>8. CallsKnowTheirKey' /\ ListenersHavePorts'
  BY <1>2, <1>4, <1>5, <1>6 DEF CallsKnowTheirKey, ListenersHavePorts, Served, TypeOK
<1>9. RegistryMatches' /\ ServersAreServed' /\ GoroutinesHaveServers'
  BY <1>2, <1>4, <1>5, <1>6, Fields
  DEF RegistryMatches, ServersAreServed, GoroutinesHaveServers, Served, TypeOK
<1>10. ConnectionsBelong'
  BY <1>5, Fields DEF ConnectionsBelong, Served
<1>11. RunningServersListen' /\ ClientsHaveReaders'
  BY <1>5 DEF RunningServersListen, ClientsHaveReaders, Registered, TypeOK
<1> QED
  BY <1>7, <1>8, <1>9, <1>10, <1>11

\* net.Listen preserves Inv: a port is bound only while nobody has it.
LEMMA ListenStep ==
    ASSUME Inv, NEW g \in Calls, Listen(g)
    PROVE  Inv'
<1> USE NilAssumption DEF Inv
<1>1. CASE starter' = [starter EXCEPT ![g].pc = "failed"] /\ UNCHANGED listening
  BY <1>1, CounterStep DEF Listen
<1>2. CASE /\ \A h \in listening : starter[h].port # starter[g].port
           /\ listening' = listening \cup {g}
           /\ starter' = [starter EXCEPT ![g].pc = "register"]
  <2> DEFINE r == [starter[g] EXCEPT !.pc = "register"]
  <2>1. /\ starter[g] \in Starters /\ starter[g].pc = "listen"
        /\ UNCHANGED <<captureServers, object, tickers, acceptor, heart,
                       monitor, conn, panicked>>
    BY DEF Listen, TypeOK
  <2>2. /\ r \in Starters /\ r.pc = "register" /\ r.dev = starter[g].dev
        /\ r.port = starter[g].port /\ r.obj = starter[g].obj
    BY <2>1 DEF Starters
  <2>3. starter' = [starter EXCEPT ![g] = r]
    BY <1>2
  <2> HIDE DEF r
  <2>4. /\ starter' \in [Calls -> Starters]
        /\ \A h \in Calls : starter'[h] = IF h = g THEN r ELSE starter[h]
    BY <2>2, <2>3 DEF TypeOK
  <2>5. \A h \in Calls : /\ starter'[h].dev = starter[h].dev
                         /\ starter'[h].port = starter[h].port
                         /\ starter'[h].obj = starter[h].obj
    BY <2>2, <2>4
  <2>6. Served(g) = None
    BY <2>1 DEF CallsKnowTheirKey
  <2>7. TypeOK'
    BY <1>2, <2>1, <2>4 DEF TypeOK
  <2>8. CallsKnowTheirKey'
    BY <1>2, <2>1, <2>2, <2>4, <2>5, <2>6 DEF CallsKnowTheirKey, Served
  <2>9. ListenersHavePorts'
    BY <1>2, <2>2, <2>4, <2>5 DEF ListenersHavePorts, TypeOK
  <2>10. RegistryMatches' /\ ServersAreServed' /\ GoroutinesHaveServers'
    <3>1. RegistryMatches'
      BY <2>1, <2>5 DEF RegistryMatches, Served, TypeOK
    <3>2. ServersAreServed'
      BY <2>1, <2>5, Fields DEF ServersAreServed, Served
    <3>3. GoroutinesHaveServers'
      BY <2>1, <2>2, <2>4, <2>5, <2>6 DEF GoroutinesHaveServers, Served
    <3> QED
      BY <3>1, <3>2, <3>3
  <2>11. ConnectionsBelong'
    BY <2>1, <2>5, Fields DEF ConnectionsBelong, Served
  <2>12. RunningServersListen' /\ ClientsHaveReaders'
    BY <1>2, <2>1, <2>5 DEF RunningServersListen, ClientsHaveReaders, Registered, TypeOK
  <2> QED
    BY <2>7, <2>8, <2>9, <2>10, <2>11, <2>12
<1> QED
  BY <1>1, <1>2 DEF Listen

\* The steps of a start before net.Listen preserve Inv.
LEMMA EarlySteps ==
    ASSUME Inv, NEW g \in Calls, CheckExisting(g) \/ EnsureForward(g)
    PROVE  Inv'
<1>1. PICK q \in {"forward", "listen", "failed", "returned"} :
         starter' = [starter EXCEPT ![g].pc = q]
  BY DEF CheckExisting, EnsureForward
<1> QED
  BY <1>1, CounterStep DEF CheckExisting, EnsureForward

\* Registration preserves Inv: the object, new or used again, gets the fresh
\* listener of this call, and the accept loops of earlier starts lose it.
LEMMA RegisterStep ==
    ASSUME Inv, NEW g \in Calls, Register(g)
    PROVE  Inv'
<1> USE NilAssumption DEF Inv
<1> DEFINE key == <<starter[g].dev, starter[g].port>>
           s   == IF captureServers[key] = None THEN g ELSE captureServers[key]
           r   == [starter[g] EXCEPT !.pc = "arm", !.obj = s]
           o   == IF s = g
                  THEN [dev |-> key[1], port |-> key[2], server |-> g,
                        running |-> TRUE, client |-> None, timer |-> None]
                  ELSE [object[s] EXCEPT !.server = g, !.running = TRUE]
<1>1. /\ starter[g].pc = "register"
      /\ starter' = [starter EXCEPT ![g] = r]
      /\ captureServers' = [captureServers EXCEPT ![key] = s]
      /\ object' = [object EXCEPT ![s] = o]
      /\ UNCHANGED <<listening, tickers, acceptor, heart, monitor, conn, panicked>>
  BY DEF Register
<1>2. /\ starter[g].dev \in Devices /\ starter[g].port \in Ports
      /\ Served(g) = None /\ g \in listening
  BY <1>1 DEF CallsKnowTheirKey
<1>3. key \in Keys /\ key[1] = starter[g].dev /\ key[2] = starter[g].port
  BY <1>2 DEF Keys
<1>4. s \in Calls
  BY <1>3 DEF TypeOK
<1>5. s = g <=> captureServers[key] = None
  BY <1>2, <1>3 DEF RegistryMatches
<1>6. s # g => /\ object[s].dev = starter[g].dev
              /\ object[s].port = starter[g].port
              /\ Served(s) = s
  BY <1>3, <1>5 DEF RegistryMatches
<1> HIDE DEF s
<1>7. /\ r \in Starters /\ r.pc = "arm" /\ r.obj = s
      /\ r.dev = starter[g].dev /\ r.port = starter[g].port
  <2>1. starter[g] \in Starters
    BY DEF TypeOK
  <2> QED
    BY <1>4, <2>1 DEF Starters
<1>8. /\ o \in Objects
      /\ o.dev = starter[g].dev /\ o.port = starter[g].port
      /\ o.server = g /\ o.running
      /\ o.client \in {object[s].client, None}
  <2>1. CASE s = g
    BY <1>2, <1>3, <2>1 DEF Objects
  <2>2. CASE s # g
    <3>1. object[s] \in Objects
      BY <1>4 DEF TypeOK
    <3>2. o = [object[s] EXCEPT !.server = g, !.running = TRUE]
      BY <2>2
    <3> QED
      BY <1>6, <2>2, <3>1, <3>2 DEF Objects
  <2> QED
    BY <2>1, <2>2
<1> HIDE DEF key, r, o
<1>9. /\ \A h \in Calls : starter'[h] = IF h = g THEN r ELSE starter[h]
      /\ \A t \in Calls : object'[t] = IF t = s THEN o ELSE object[t]
      /\ \A k \in Keys : captureServers'[k] =
                            IF k = key THEN s ELSE captureServers[k]
  BY <1>1, <1>3, <1>4 DEF TypeOK
<1>10. /\ Served(g)' = s
       /\ \A h \in Calls \ {g} : Served(h)' = Served(h)
       /\ \A h \in Calls : starter'[h].port = starter[h].port
  BY <1>7, <1>9 DEF Served
<1>11. /\ \A t \in Calls : object[t].server # g
       /\ \A h \in Calls : acceptor[h].on # g \/ acceptor[h].pc \notin {"accept", "accepted"}
       /\ \A t \in Calls : object[t].client # None =>
             Served(conn[object[t].client].via) # None
  <2>1. \A t \in Calls : object[t].server # g
    BY <1>2 DEF ServersAreServed
  <2>2. \A h \in Calls : acceptor[h].on # g \/ acceptor[h].pc \notin {"accept", "accepted"}
    BY <1>2 DEF ConnectionsBelong, GoroutinesHaveServers
  <2>3. \A t \in Calls : object[t].client # None =>
             Served(conn[object[t].client].via) # None
    BY DEF ConnectionsBelong
  <2> QED
    BY <2>1, <2>2, <2>3
<1>12. TypeOK'
  <2>1. object' \in [Calls -> Objects] /\ starter' \in [Calls -> Starters]
    BY <1>1, <1>7, <1>8 DEF TypeOK
  <2>2. captureServers' \in [Keys -> Calls \cup {None}]
    BY <1>1, <1>4 DEF TypeOK
  <2> QED
    BY <1>1, <2>1, <2>2 DEF TypeOK
<1>13. CallsKnowTheirKey'
  BY <1>1, <1>2, <1>4, <1>7, <1>9, <1>10 DEF CallsKnowTheirKey
<1>14. ListenersHavePorts'
  BY <1>1, <1>7, <1>9, <1>10 DEF ListenersHavePorts, TypeOK
<1>15. RegistryMatches'
  <2> SUFFICES ASSUME NEW k \in Keys, captureServers'[k] # None
               PROVE  /\ starter'[captureServers'[k]].obj = captureServers'[k]
                      /\ object'[captureServers'[k]].dev = k[1]
                      /\ object'[captureServers'[k]].port = k[2]
    BY DEF RegistryMatches, Served
  <2>1. CASE k = key
    <3>1. captureServers'[k] = s /\ object'[s] = o
      BY <1>3, <1>4, <1>9, <2>1
    <3>2. starter'[s].obj = s
      BY <1>4, <1>6, <1>7, <1>9 DEF Served
    <3> QED
      BY <1>3, <1>8, <2>1, <3>1, <3>2
  <2>2. CASE k # key
    <3>1. /\ captureServers'[k] = captureServers[k] /\ captureServers[k] \in Calls
          /\ Served(captureServers[k]) = captureServers[k]
          /\ object[captureServers[k]].dev = k[1]
          /\ object[captureServers[k]].port = k[2]
      BY <1>9, <2>2 DEF RegistryMatches, TypeOK
    <3>2. captureServers[k] # g
      BY <1>2, <3>1
    <3>3. captureServers[k] # s
      <4>1. k = <<k[1], k[2]>>
        BY DEF Keys
      <4>2. captureServers[k] = s => k[1] = starter[g].dev /\ k[2] = starter[g].port
        BY <1>6, <3>1, <3>2
      <4> QED
        BY <2>2, <4>1, <4>2 DEF key
    <3> QED
      BY <1>9, <3>1, <3>2, <3>3 DEF Served
  <2> QED
    BY <2>1, <2>2
<1>16. ServersAreServed'
  BY <1>8, <1>9, <1>10, <1>11, Fields DEF ServersAreServed
<1>17. GoroutinesHaveServers'
  <2>1. /\ acceptor[g].pc = "none" /\ heart[g].pc = "none" /\ monitor[g] = "none"
    BY <1>2 DEF GoroutinesHaveServers
  <2>2. \A h \in Calls \ {g} : starter'[h] = starter[h]
    BY <1>9
  <2>3. ASSUME NEW h \in Calls, h # g, acceptor[h].pc = "done" \/ monitor[h] = "done"
        PROVE  object'[Served(h)].server # h
    <3>1. object[Served(h)].server # h /\ Served(h) \in Calls
      BY <2>3, Fields DEF GoroutinesHaveServers, Served
    <3> QED
      BY <1>8, <1>9, <2>3, <3>1
  <2> QED
    BY <1>1, <1>7, <1>9, <1>10, <2>1, <2>2, <2>3 DEF GoroutinesHaveServers
<1>18. ConnectionsBelong'
  <2>1. \A t \in Calls : object'[t].client \in {object[t].client, None}
    BY <1>8, <1>9
  <2>3. ASSUME NEW h \in Calls, acceptor[h].pc \in {"accept", "accepted"}
        PROVE  starter'[acceptor[h].on].obj = starter'[h].obj
    <3>1. /\ acceptor[h].on \in Calls /\ acceptor[h].on # g /\ h # g
          /\ Served(acceptor[h].on) = Served(h)
      BY <1>2, <1>11, <2>3, Fields DEF ConnectionsBelong, GoroutinesHaveServers
    <3> QED
      BY <1>9, <3>1 DEF Served
  <2>4. ASSUME NEW t \in Calls, object'[t].client # None
        PROVE  LET c == object'[t].client
               IN  /\ conn'[c].link # "unused" /\ conn'[c].via # None
                   /\ starter'[conn'[c].via].obj = t
    <3> DEFINE c == object[t].client
    <3>1. /\ c = object'[t].client /\ c \in Conns
          /\ conn[c].link # "unused" /\ conn[c].via \in Calls
          /\ Served(conn[c].via) = t
      BY <2>1, <2>4, Fields DEF ConnectionsBelong
    <3>2. conn[c].via # g /\ starter'[conn[c].via] = starter[conn[c].via]
      BY <1>2, <1>9, <3>1
    <3> QED
      BY <1>1, <3>1, <3>2 DEF Served
  <2> QED
    BY <1>1, <2>3, <2>4 DEF ConnectionsBelong, Served
<1>19. RunningServersListen'
  <2> SUFFICES ASSUME NEW k \in Keys, captureServers'[k] # None,
                      object'[captureServers'[k]].running
               PROVE  LET t == captureServers'[k]
                      IN  /\ object'[t].server \in listening'
                          /\ starter'[object'[t].server].port = object'[t].port
    BY DEF RunningServersListen, Registered
  <2>1. CASE captureServers'[k] = s
    BY <1>1, <1>2, <1>4, <1>8, <1>9, <1>10, <2>1
  <2>2. CASE captureServers'[k] # s
    <3> DEFINE t == captureServers[k]
    <3>1. t \in Registered /\ t \in Calls /\ captureServers'[k] = t /\ t # s
      BY <1>9, <2>2 DEF Registered, TypeOK
    <3>2. object'[t] = object[t]
      BY <1>9, <3>1
    <3>3. object[t].server \in listening /\ starter[object[t].server].port = object[t].port
      BY <3>1, <3>2 DEF RunningServersListen
    <3> QED
      BY <1>1, <1>10, <3>1, <3>2, <3>3 DEF TypeOK
  <2> QED
    BY <2>1, <2>2
<1>20. ClientsHaveReaders'
  BY <1>1, <1>8, <1>9, Fields DEF ClientsHaveReaders
<1> QED
  BY <1>12, <1>13, <1>14, <1>15, <1>16, <1>17, <1>18, <1>19, <1>20

\* Setting HeartbeatTimer preserves Inv.
LEMMA ArmTimerStep ==
    ASSUME Inv, NEW g \in Calls, ArmTimer(g)
    PROVE  Inv'
<1> USE NilAssumption DEF Inv
<1> DEFINE s == Served(g)
           r == [starter[g] EXCEPT !.pc = "spawn"]
           o == [object[s] EXCEPT !.timer = g]
<1>1. /\ starter[g].pc = "arm" /\ starter' = [starter EXCEPT ![g] = r]
      /\ object' = [object EXCEPT ![s] = o] /\ tickers' = tickers \cup {g}
      /\ UNCHANGED <<captureServers, listening, acceptor, heart, monitor, conn,
                     panicked>>
  BY DEF ArmTimer
<1>2. s \in Calls /\ starter[g] \in Starters
  BY <1>1, Fields DEF CallsKnowTheirKey, Served, TypeOK
<1>3. object[s] \in Objects
  BY <1>2 DEF TypeOK
<1>4. /\ r \in Starters /\ r.pc = "spawn" /\ r.dev = starter[g].dev
      /\ r.port = starter[g].port /\ r.obj = starter[g].obj
  BY <1>2 DEF Starters
<1>5. /\ o \in Objects /\ o.dev = object[s].dev /\ o.port = object[s].port
      /\ o.server = object[s].server /\ o.running = object[s].running
      /\ o.client = object[s].client
  BY <1>3 DEF Objects
<1> HIDE DEF s, r, o
<1>6. /\ \A h \in Calls : starter'[h] = IF h = g THEN r ELSE starter[h]
      /\ \A h \in Calls : /\ starter'[h].obj = starter[h].obj
                          /\ starter'[h].dev = starter[h].dev
                          /\ starter'[h].port = starter[h].port
      /\ \A t \in Calls : /\ object'[t].dev = object[t].dev
                          /\ object'[t].port = object[t].port
                          /\ object'[t].server = object[t].server
                          /\ object'[t].running = object[t].running
                          /\ object'[t].client = object[t].client
  BY <1>1, <1>2, <1>4, <1>5 DEF TypeOK
<1>7. TypeOK'
  BY <1>1, <1>2, <1>4, <1>5 DEF TypeOK
<1>8. CallsKnowTheirKey' /\ ListenersHavePorts'
  BY <1>1, <1>2, <1>4, <1>6 DEF CallsKnowTheirKey, ListenersHavePorts, Served, TypeOK
<1>9. RegistryMatches'
  BY <1>1, <1>6 DEF RegistryMatches, Served, TypeOK
<1>10. ServersAreServed'
  BY <1>6, Fields DEF ServersAreServed, Served
<1>11. GoroutinesHaveServers'
  <2>1. \A h \in Calls : starter[h].obj # None => starter[h].obj \in Calls
    BY Fields
  <2>2. acceptor[g].pc = "none" /\ heart[g].pc = "none" /\ monitor[g] = "none"
    BY <1>1 DEF GoroutinesHaveServers
  <2> QED
    BY <1>1, <1>4, <1>6, <2>1, <2>2 DEF GoroutinesHaveServers, Served
<1>12. ConnectionsBelong'
  BY <1>1, <1>6, Fields DEF ConnectionsBelong, Served
<1>13. RunningServersListen'
  <2>1. \A t \in Registered : t \in Calls
    BY DEF Registered, TypeOK
  <2> QED
    BY <1>1, <1>6, <2>1 DEF RunningServersListen, Registered, TypeOK
<1>14. ClientsHaveReaders'
  BY <1>1, <1>6 DEF ClientsHaveReaders
<1> QED
  BY <1>7, <1>8, <1>9, <1>10, <1>11, <1>12, <1>13, <1>14

\* The end of a start gives the server its goroutines and preserves Inv.
LEMMA SpawnStep ==
    ASSUME Inv, NEW g \in Calls, SpawnGoroutines(g)
    PROVE  Inv'
<1> USE NilAssumption DEF Inv
<1> DEFINE r == [starter[g] EXCEPT !.pc = "returned"]
           a == [acceptor[g] EXCEPT !.pc = "top"]
           b == [heart[g] EXCEPT !.pc = "spawned"]
<1>1. /\ starter[g].pc = "spawn" /\ starter' = [starter EXCEPT ![g] = r]
      /\ acceptor' = [acceptor EXCEPT ![g] = a]
      /\ heart' = [heart EXCEPT ![g] = b]
      /\ monitor' = [monitor EXCEPT ![g] = "ticking"]
      /\ UNCHANGED <<captureServers, object, listening, tickers, conn, panicked>>
  BY DEF SpawnGoroutines
<1>2. /\ starter[g] \in Starters /\ acceptor[g] \in Acceptors /\ heart[g] \in Hearts
      /\ Served(g) \in Calls
  BY <1>1, Fields DEF CallsKnowTheirKey, Served, TypeOK
<1>3. /\ r \in Starters /\ r.pc = "returned" /\ r.dev = starter[g].dev
      /\ r.port = starter[g].port /\ r.obj = starter[g].obj
  BY <1>2 DEF Starters
<1>4. a \in Acceptors /\ a.pc = "top" /\ b \in Hearts /\ b.pc = "spawned"
  BY <1>2 DEF Acceptors, Hearts
<1> HIDE DEF r, a, b
<1>5. /\ \A h \in Calls :
            /\ starter'[h] = IF h = g THEN r ELSE starter[h]
            /\ acceptor'[h] = IF h = g THEN a ELSE acceptor[h]
            /\ heart'[h] = IF h = g THEN b ELSE heart[h]
            /\ monitor'[h] = IF h = g THEN "ticking" ELSE monitor[h]
      /\ \A h \in Calls : /\ starter'[h].obj = starter[h].obj
                          /\ starter'[h].dev = starter[h].dev
                          /\ starter'[h].port = starter[h].port
  BY <1>1, <1>3 DEF TypeOK
<1>6. TypeOK'
  BY <1>1, <1>3, <1>4 DEF TypeOK
<1>7. CallsKnowTheirKey' /\ ListenersHavePorts'
  BY <1>1, <1>2, <1>3, <1>5 DEF CallsKnowTheirKey, ListenersHavePorts, Served, TypeOK
<1>8. RegistryMatches'
  BY <1>1, <1>5 DEF RegistryMatches, Served, TypeOK
<1>9. ServersAreServed'
  BY <1>1, <1>5, Fields DEF ServersAreServed, Served
<1>10. GoroutinesHaveServers'
  BY <1>1, <1>2, <1>3, <1>4, <1>5 DEF GoroutinesHaveServers, Served
<1>11. ConnectionsBelong'
  BY <1>1, <1>4, <1>5, Fields DEF ConnectionsBelong, Served
<1>12. RunningServersListen'
  BY <1>1, <1>5 DEF RunningServersListen, Registered, TypeOK
<1>13. ClientsHaveReaders'
  BY <1>1 DEF ClientsHaveReaders
<1> QED
  BY <1>6, <1>7, <1>8, <1>9, <1>10, <1>11, <1>12, <1>13

-----------------------------------------------------------------------------
(* acceptConnections.                                                      *)

\* The accept loop moves, and leaves servers and registry alone.
LEMMA AcceptorStep ==
    ASSUME Inv, NEW g \in Calls, NEW a \in Acceptors,
           acceptor[g].pc # "none", a.pc # "none",
           acceptor' = [acceptor EXCEPT ![g] = a],
           a.pc = "done" => object[Served(g)].server # g,
           a.pc \in {"accept", "accepted"} =>
               a.on # None /\ Served(a.on) = Served(g),
           a.pc = "accepted" => /\ a.got # None
                                /\ conn'[a.got].link # "unused"
                                /\ conn'[a.got].via = a.on,
           conn' \in [Conns -> ConnRecords],
           \A c \in Conns :
               /\ conn[c].link # "unused" =>
                     conn'[c].link # "unused" /\ conn'[c].via = conn[c].via
               /\ conn[c].reader \in {"reading", "ending"} =>
                     conn'[c].reader \in {"reading", "ending"},
           UNCHANGED <<captureServers, object, starter, listening, tickers,
                       heart, monitor, panicked>>
    PROVE  Inv'
<1> USE NilAssumption DEF Inv
<1>1. /\ acceptor' \in [Calls -> Acceptors]
      /\ \A h \in Calls : acceptor'[h] = IF h = g THEN a ELSE acceptor[h]
  BY DEF TypeOK
<1>2. TypeOK'
  BY <1>1 DEF TypeOK
<1>3. /\ CallsKnowTheirKey' /\ ListenersHavePorts' /\ RegistryMatches'
      /\ ServersAreServed'
  BY DEF CallsKnowTheirKey, ListenersHavePorts, RegistryMatches,
         ServersAreServed, Served
<1>4. GoroutinesHaveServers'
  BY <1>1 DEF GoroutinesHaveServers, Served
<1>5. ConnectionsBelong'
  BY <1>1, Fields DEF ConnectionsBelong, Served
<1>6. RunningServersListen' /\ ClientsHaveReaders'
  BY Fields DEF RunningServersListen, Registered, ClientsHaveReaders
<1> QED
  BY <1>2, <1>3, <1>4, <1>5, <1>6

\* The steps of acceptConnections up to a connection in hand preserve Inv.
LEMMA AcceptSteps ==
    ASSUME Inv, NEW g \in Calls,
           \/ EvaluateListener(g) \/ AcceptFails(g)
           \/ \E c \in Conns : Accept(g, c)
    PROVE  Inv'
<1> USE NilAssumption
<1>1. TypeOK /\ ServersAreServed /\ GoroutinesHaveServers /\ ConnectionsBelong
  BY DEF Inv
<1>2. acceptor[g] \in Acceptors /\ \A c \in Conns : conn[c] \in ConnRecords
  BY <1>1 DEF TypeOK
<1>3. conn \in [Conns -> ConnRecords] /\ heart \in [Calls -> Hearts]
  BY <1>1 DEF TypeOK
<1>4. CASE EvaluateListener(g)
  <2> DEFINE l == object[Served(g)].server
             a == [acceptor[g] EXCEPT !.pc = "accept", !.on = l]
  <2>1. acceptor[g].pc = "top" /\ Served(g) \in Calls
    BY <1>1, <1>4, Fields DEF EvaluateListener, GoroutinesHaveServers, Served
  <2>2. CASE l = None
    <3>1. panicked' = TRUE /\ UNCHANGED <<captureServers, object, starter,
             listening, tickers, acceptor, heart, monitor, conn>>
      BY <1>4, <2>2 DEF EvaluateListener
    <3> QED
      BY <1>3, <3>1, QuietStep
  <2>3. CASE l # None
    <3>1. /\ acceptor' = [acceptor EXCEPT ![g] = a]
          /\ UNCHANGED <<captureServers, object, starter, listening, tickers,
                         heart, monitor, conn, panicked>>
      BY <1>4, <2>3 DEF EvaluateListener
    <3>2. l \in Calls /\ Served(l) = Served(g)
      BY <1>1, <2>1, <2>3, Fields DEF ServersAreServed
    <3>3. a \in Acceptors /\ a.pc = "accept" /\ a.on = l
      BY <1>2, <3>2 DEF Acceptors
    <3> HIDE DEF a, l
    <3> QED
      BY <1>3, <2>1, <2>3, <3>1, <3>2, <3>3, AcceptorStep
  <2> QED
    BY <2>2, <2>3
<1>5. CASE AcceptFails(g)
  <2>1. PICK q \in {"top", "done"} :
           /\ acceptor' = [acceptor EXCEPT ![g].pc = q]
           /\ q = "done" => ~object[Served(g)].running
    BY <1>5 DEF AcceptFails
  <2> DEFINE a == [acceptor[g] EXCEPT !.pc = q]
  <2>2. a \in Acceptors /\ a.pc = q
    BY <1>2 DEF Acceptors
  <2>3. acceptor' = [acceptor EXCEPT ![g] = a] /\ acceptor[g].pc = "accept"
    BY <1>5, <2>1 DEF AcceptFails
  <2>4. Served(g) \in Calls
    BY <1>1, <2>3, Fields DEF GoroutinesHaveServers, Served
  <2>5. q = "done" => object[Served(g)].server # g
    BY <1>1, <2>1, <2>4 DEF ServersAreServed
  <2>6. UNCHANGED <<captureServers, object, starter, listening, tickers, heart,
                    monitor, conn, panicked>>
    BY <1>5 DEF AcceptFails
  <2> HIDE DEF a
  <2> QED
    BY <1>3, <2>2, <2>3, <2>5, <2>6, AcceptorStep
<1>6. CASE \E c \in Conns : Accept(g, c)
  <2>1. PICK c \in Conns : Accept(g, c)
    BY <1>6
  <2> DEFINE a == [acceptor[g] EXCEPT !.pc = "accepted", !.got = c]
             r == [conn[c] EXCEPT !.link = "open", !.up = TRUE]
  <2>2. /\ acceptor[g].pc = "accept" /\ conn[c].link = "backlog"
        /\ conn[c].via = acceptor[g].on
        /\ acceptor' = [acceptor EXCEPT ![g] = a]
        /\ conn' = [conn EXCEPT ![c] = r]
        /\ UNCHANGED <<captureServers, object, starter, listening, tickers,
                       heart, monitor, panicked>>
    BY <2>1 DEF Accept
  <2>3. a \in Acceptors /\ a.pc = "accepted" /\ a.got = c /\ a.on = acceptor[g].on
    BY <1>2 DEF Acceptors
  <2>4. /\ r \in ConnRecords /\ r.link = "open" /\ r.via = conn[c].via
        /\ r.reader = conn[c].reader
    BY <1>2 DEF ConnRecords
  <2> HIDE DEF a, r
  <2>5. /\ conn' \in [Conns -> ConnRecords]
        /\ \A x \in Conns :
              /\ conn[x].link # "unused" =>
                    conn'[x].link # "unused" /\ conn'[x].via = conn[x].via
              /\ conn[x].reader \in {"reading", "ending"} =>
                    conn'[x].reader \in {"reading", "ending"}
    BY <1>1, <2>2, <2>4, OneConnection
  <2>6. conn'[c] = r
    BY <1>1, <2>2 DEF TypeOK
  <2>7. a.on # None /\ Served(a.on) = Served(g) /\ c # None
    BY <1>1, <2>2, <2>3 DEF ConnectionsBelong
  <2> QED
    BY <2>2, <2>3, <2>4, <2>5, <2>6, <2>7, AcceptorStep
<1> QED
  BY <1>4, <1>5, <1>6

-----------------------------------------------------------------------------
(* The list of clients.                                                    *)

\* An entry is set or removed.
LEMMA ClientStep ==
    ASSUME Inv, NEW s, NEW x \in Conns \cup {None},
           object' = [object EXCEPT ![s].client = x],
           x # None => /\ conn'[x].link # "unused" /\ conn'[x].via # None
                       /\ Served(conn'[x].via) = s
                       /\ conn'[x].reader \in {"reading", "ending"},
           conn' \in [Conns -> ConnRecords],
           \A c \in Conns :
               conn[c].link # "unused" =>
                   conn'[c].link # "unused" /\ conn'[c].via = conn[c].via,
           \A t \in Calls : \A c \in Conns :
               (/\ t # s /\ object[t].client = c
                /\ conn[c].reader \in {"reading", "ending"})
                  => conn'[c].reader \in {"reading", "ending"},
           acceptor' \in [Calls -> Acceptors],
           \A g \in Calls :
               \/ acceptor'[g] = acceptor[g]
               \/ acceptor[g].pc = "accepted" /\ acceptor'[g].pc = "top",
           UNCHANGED <<captureServers, starter, listening, tickers, heart,
                       monitor, panicked>>
    PROVE  Inv'
<1> USE NilAssumption DEF Inv
<1>4. /\ object' \in [Calls -> Objects]
      /\ \A t \in Calls :
            /\ object'[t].dev = object[t].dev
            /\ object'[t].port = object[t].port
            /\ object'[t].server = object[t].server
            /\ object'[t].running = object[t].running
            /\ object'[t].client = IF t = s THEN x ELSE object[t].client
  <2> DEFINE o == [object[s] EXCEPT !.client = x]
  <2>1. CASE s \in Calls
    <3>1. object[s] \in Objects
      BY <2>1 DEF TypeOK
    <3>2. /\ o \in Objects /\ o.dev = object[s].dev /\ o.port = object[s].port
          /\ o.server = object[s].server /\ o.running = object[s].running
          /\ o.client = x
      BY <3>1 DEF Objects
    <3>3. object' = [object EXCEPT ![s] = o]
      OBVIOUS
    <3> HIDE DEF o
    <3> QED
      BY <2>1, <3>2, <3>3 DEF TypeOK
  <2>2. CASE s \notin Calls
    <3>1. object' = object
      BY <2>2 DEF TypeOK
    <3> QED
      BY <2>2, <3>1 DEF TypeOK
  <2> QED
    BY <2>1, <2>2
<1>5. TypeOK'
  BY <1>4 DEF TypeOK
<1>6. CallsKnowTheirKey' /\ ListenersHavePorts'
  BY DEF CallsKnowTheirKey, ListenersHavePorts, Served
<1>7. RegistryMatches'
  BY <1>4 DEF RegistryMatches, Served, TypeOK
<1>8. ServersAreServed'
  BY <1>4, Fields DEF ServersAreServed, Served
<1>9. GoroutinesHaveServers'
  <2>1. ASSUME NEW g \in Calls, acceptor'[g].pc = "done" \/ monitor[g] = "done"
        PROVE  object'[Served(g)].server # g
    <3>1. acceptor[g].pc = "done" \/ monitor[g] = "done"
      BY <2>1
    <3>2. Served(g) \in Calls /\ object[Served(g)].server # g
      BY <3>1, Fields DEF GoroutinesHaveServers, Served
    <3> QED
      BY <1>4, <3>2
  <2>2. \A g \in Calls : acceptor'[g].pc = "none" <=> acceptor[g].pc = "none"
    OBVIOUS
  <2> QED
    BY <2>1, <2>2 DEF GoroutinesHaveServers, Served
<1>10. ConnectionsBelong'
  <2>1. \A g \in Calls : acceptor'[g].pc \in {"accept", "accepted"} =>
                             acceptor'[g] = acceptor[g]
    OBVIOUS
  <2>2. ASSUME NEW t \in Calls, object'[t].client # None
        PROVE  LET c == object'[t].client
               IN  /\ conn'[c].link # "unused" /\ conn'[c].via # None
                   /\ starter[conn'[c].via].obj = t
    BY <1>4, <2>2, Fields DEF ConnectionsBelong, Served
  <2> QED
    BY <2>1, <2>2, Fields DEF ConnectionsBelong, Served
<1>11. RunningServersListen'
  BY <1>4 DEF RunningServersListen, Registered, TypeOK
<1>12. ClientsHaveReaders'
  <2> SUFFICES ASSUME NEW t \in Calls, object'[t].client # None
               PROVE  conn'[object'[t].client].reader \in {"reading", "ending"}
    BY DEF ClientsHaveReaders
  <2> QED
    BY <1>4, Fields DEF ClientsHaveReaders
<1> QED
  BY <1>5, <1>6, <1>7, <1>8, <1>9, <1>10, <1>11, <1>12

\* The steps that set or remove a server's client preserve Inv: the accept
\* loop's, the reader's and the monitor's.
LEMMA ClientSteps ==
    ASSUME Inv,
           \/ \E g \in Calls : RegisterClient(g) \/ MonitorTick(g)
           \/ \E c \in Conns : UnregisterClient(c)
    PROVE  Inv'
<1> USE NilAssumption
<1>1. TypeOK /\ ConnectionsBelong /\ ClientsHaveReaders /\ GoroutinesHaveServers
      /\ ServersAreServed
  BY DEF Inv
<1>2. \A c \in Conns : conn[c] \in ConnRecords
  BY <1>1 DEF TypeOK
<1>3. /\ conn \in [Conns -> ConnRecords] /\ acceptor \in [Calls -> Acceptors]
      /\ heart \in [Calls -> Hearts] /\ panicked \in BOOLEAN
  BY <1>1 DEF TypeOK
<1>4. ASSUME NEW g \in Calls, RegisterClient(g)
      PROVE  Inv'
  <2> DEFINE c == acceptor[g].got
             a == [acceptor[g] EXCEPT !.pc = "top", !.got = None]
             r == [conn[c] EXCEPT !.reader = "reading"]
  <2>1. /\ acceptor[g].pc = "accepted"
        /\ object' = [object EXCEPT ![Served(g)].client = c]
        /\ conn' = [conn EXCEPT ![c] = r]
        /\ acceptor' = [acceptor EXCEPT ![g] = a]
        /\ UNCHANGED <<captureServers, starter, listening, tickers, heart,
                       monitor, panicked>>
    BY <1>4 DEF RegisterClient
  <2>2. /\ c \in Conns /\ conn[c].link # "unused" /\ conn[c].via # None
        /\ Served(conn[c].via) = Served(g)
    BY <1>1, <2>1, Fields DEF ConnectionsBelong
  <2>3. acceptor[g] \in Acceptors
    BY <1>3
  <2>4. a \in Acceptors /\ a.pc = "top"
    BY <2>3 DEF Acceptors
  <2>5. /\ r \in ConnRecords /\ r.link = conn[c].link /\ r.via = conn[c].via
        /\ r.reader = "reading"
    BY <1>2, <2>2 DEF ConnRecords
  <2> HIDE DEF a, c, r
  <2>6. /\ conn' \in [Conns -> ConnRecords]
        /\ \A x \in Conns :
              /\ conn[x].link # "unused" =>
                    conn'[x].link # "unused" /\ conn'[x].via = conn[x].via
              /\ conn[x].reader \in {"reading", "ending"} =>
                    conn'[x].reader \in {"reading", "ending"}
    BY <1>1, <2>1, <2>2, <2>5, OneConnection
  <2>7. /\ acceptor' \in [Calls -> Acceptors]
        /\ \A h \in Calls :
              \/ acceptor'[h] = acceptor[h]
              \/ acceptor[h].pc = "accepted" /\ acceptor'[h].pc = "top"
    BY <1>3, <2>1, <2>4
  <2>8. conn'[c] = r
    BY <1>3, <2>1, <2>2
  <2> QED
    BY <2>1, <2>2, <2>5, <2>6, <2>7, <2>8, ClientStep
<1>5. ASSUME NEW g \in Calls, MonitorTick(g)
      PROVE  Inv'
  <2>1. monitor[g] = "ticking"
        /\ UNCHANGED <<captureServers, starter, listening, tickers, acceptor,
                       heart, panicked>>
    BY <1>5 DEF MonitorTick
  <2>2. Served(g) \in Calls
    BY <1>1, <2>1, Fields DEF GoroutinesHaveServers, Served
  <2>3. CASE /\ ~object[Served(g)].running
             /\ monitor' = [monitor EXCEPT ![g] = "done"]
             /\ UNCHANGED <<object, conn>>
    <3>1. object[Served(g)].server # g
      BY <1>1, <2>2, <2>3 DEF ServersAreServed
    <3>2. \A h \in Calls : monitor'[h] = IF h = g THEN "done" ELSE monitor[h]
      BY <1>1, <2>3 DEF TypeOK
    <3>3. TypeOK'
      BY <1>1, <2>1, <2>3 DEF TypeOK
    <3>4. GoroutinesHaveServers'
      BY <1>1, <2>1, <2>3, <3>1, <3>2 DEF GoroutinesHaveServers, Served
    <3>5. /\ CallsKnowTheirKey' /\ ListenersHavePorts' /\ RegistryMatches'
          /\ ServersAreServed' /\ ConnectionsBelong' /\ ClientsHaveReaders'
          /\ RunningServersListen'
      BY <2>1, <2>3
      DEF Inv, CallsKnowTheirKey, ListenersHavePorts, RegistryMatches,
          ServersAreServed, ConnectionsBelong, ClientsHaveReaders,
          RunningServersListen, Registered, Served
    <3> QED
      BY <3>3, <3>4, <3>5 DEF Inv
  <2>4. CASE /\ object' = [object EXCEPT ![Served(g)].client = None]
             /\ \E c : CloseLinks({}, {c})
             /\ UNCHANGED monitor
    <3>1. /\ conn' \in [Conns -> ConnRecords]
          /\ \A c \in Conns : /\ conn'[c].via = conn[c].via
                              /\ conn'[c].reader = conn[c].reader
                              /\ conn[c].link # "unused" => conn'[c].link # "unused"
      BY <1>1, <2>4, CloseLinksEffect
    <3> QED
      BY <1>3, <2>1, <2>4, <3>1, ClientStep
  <2> QED
    BY <1>5, <2>3, <2>4 DEF MonitorTick
<1>6. ASSUME NEW c \in Conns, UnregisterClient(c)
      PROVE  Inv'
  <2> DEFINE r == [conn[c] EXCEPT !.reader = "done"]
  <2>1. /\ conn[c].reader = "ending"
        /\ conn' = [conn EXCEPT ![c] = r]
        /\ object' = [object EXCEPT ![Served(conn[c].via)].client = None]
        /\ UNCHANGED <<captureServers, starter, listening, tickers, acceptor,
                       heart, monitor, panicked>>
    BY <1>6 DEF UnregisterClient
  <2>2. r \in ConnRecords /\ r.link = conn[c].link /\ r.via = conn[c].via
    BY <1>2 DEF ConnRecords
  <2>3. \A t \in Calls : t # Served(conn[c].via) => object[t].client # c
    BY <1>1 DEF ConnectionsBelong
  <2> HIDE DEF r
  <2>4. conn' \in [Conns -> ConnRecords]
        /\ \A x \in Conns : conn'[x] = IF x = c THEN r ELSE conn[x]
    BY <1>3, <2>1, <2>2
  <2>5. \A x \in Conns :
           conn[x].link # "unused" =>
               conn'[x].link # "unused" /\ conn'[x].via = conn[x].via
    BY <2>2, <2>4
  <2>6. \A t \in Calls : \A x \in Conns :
           (/\ t # Served(conn[c].via) /\ object[t].client = x
            /\ conn[x].reader \in {"reading", "ending"})
              => conn'[x].reader \in {"reading", "ending"}
    BY <2>3, <2>4
  <2> DEFINE s == Served(conn[c].via)
  <2>7. object' = [object EXCEPT ![s].client = None]
    BY <2>1
  <2>8. \A t \in Calls : \A x \in Conns :
           (/\ t # s /\ object[t].client = x
            /\ conn[x].reader \in {"reading", "ending"})
              => conn'[x].reader \in {"reading", "ending"}
    BY <2>6
  <2> HIDE DEF s
  <2>9. /\ conn' \in [Conns -> ConnRecords]
        /\ acceptor' \in [Calls -> Acceptors]
        /\ \A h \in Calls : acceptor'[h] = acceptor[h]
        /\ UNCHANGED <<captureServers, starter, listening, tickers, heart,
                       monitor, panicked>>
    BY <1>3, <2>1, <2>4
  <2> QED
    BY <2>5, <2>7, <2>8, <2>9, ClientStep
<1> QED
  BY <1>4, <1>5, <1>6

-----------------------------------------------------------------------------
(* The invariants.                                                         *)

\* The inductive step, one case for each disjunct of Next.
LEMMA StepInv == Inv /\ [Next]_vars => Inv'
<1> SUFFICES ASSUME Inv, [Next]_vars PROVE Inv'
  OBVIOUS
<1>1. CASE User
  BY <1>1, StartStep, StopSteps DEF User
<1>2. ASSUME NEW g \in Calls, Starting(g)
      PROVE  Inv'
  BY <1>2, EarlySteps, ListenStep, RegisterStep, ArmTimerStep, SpawnStep
  DEF Starting
<1>3. ASSUME NEW g \in Calls, Accepting(g)
      PROVE  Inv'
  BY <1>3, AcceptSteps, ClientSteps DEF Accepting
<1>4. ASSUME NEW g \in Calls, StartHeart(g) \/ HeartTick(g) \/ MonitorTick(g)
      PROVE  Inv'
  BY <1>4, HeartSteps, ClientSteps
<1>5. ASSUME NEW c \in Conns,
             \/ Reading(c) \/ ReadMessage(c) \/ RespondFails(c)
             \/ GiveUpReading(c) \/ Remote(c)
      PROVE  Inv'
  BY <1>5, ConnectionSteps, ClientSteps DEF Reading
<1>6. CASE UNCHANGED vars
  BY <1>6
  DEF vars, Inv, TypeOK, CallsKnowTheirKey, ListenersHavePorts,
      RegistryMatches, ServersAreServed, GoroutinesHaveServers,
      ConnectionsBelong, RunningServersListen, ClientsHaveReaders, Registered,
      Served
<1> QED
  BY <1>1, <1>2, <1>3, <1>4, <1>5, <1>6 DEF Next

\* The inductive invariant holds in every reachable state.
THEOREM Invariance == Spec => []Inv
<1> QED
  BY InitInv, StepInv, PTL DEF Spec

\* Every variable stays within its type.
THEOREM TypeCorrectness == Spec => []TypeOK
<1>1. Inv => TypeOK
  BY DEF Inv
<1> QED
  BY <1>1, Invariance, PTL

\* A server that GetCaptureServerStatus reports as running has its port
\* bound by its own listener, for any number of devices, ports, starts and
\* stops.
THEOREM RunningImpliesListening == Spec => []RunningServersListen
<1>1. Inv => RunningServersListen
  BY DEF Inv
<1> QED
  BY <1>1, Invariance, PTL

\* The list of clients never shows a connection whose readClientData has
\* ended, although a reader removes clients by device and not by connection.
THEOREM ListedClientsHaveReaders == Spec => []ClientsHaveReaders
<1>1. Inv => ClientsHaveReaders
  BY DEF Inv
<1> QED
  BY <1>1, Invariance, PTL

\* A running server whose starts have returned has an accept loop and a
\* monitor: those of the start whose listener it holds.
THEOREM RunningImpliesServed == Spec => []RunningServersAreServed
<1>1. ASSUME Inv PROVE RunningServersAreServed
  <2> USE <1>1, NilAssumption DEF Inv
  <2> SUFFICES ASSUME NEW s \in Registered, object[s].running,
                      \A g \in Calls : Served(g) = s => starter[g].pc = "returned"
               PROVE  \E g \in Calls :
                         /\ Served(g) = s
                         /\ acceptor[g].pc \in {"top", "accept", "accepted"}
                         /\ monitor[g] = "ticking"
    BY DEF RunningServersAreServed
  <2> DEFINE g == object[s].server
  <2>1. s \in Calls
    BY DEF Registered, TypeOK
  <2>2. g \in Calls
    BY DEF RunningServersListen, TypeOK
  <2>3. Served(g) = s
    BY <2>1, <2>2 DEF ServersAreServed
  <2>4. acceptor[g].pc \notin {"none", "done"} /\ monitor[g] \notin {"none", "done"}
    BY <2>1, <2>2, <2>3 DEF GoroutinesHaveServers
  <2>5. acceptor[g].pc \in {"none", "top", "accept", "accepted", "done"}
        /\ monitor[g] \in {"none", "ticking", "done"}
    BY <2>2 DEF TypeOK, Acceptors
  <2> QED
    BY <2>2, <2>3, <2>4, <2>5
<1> QED
  BY <1>1, Invariance, PTL

-----------------------------------------------------------------------------
(* CaptureServer implements PortOwnership.                                 *)

\* The registry shows a running server of device d on port p.
Holds(d, p) ==
    captureServers[<<d, p>>] # None /\ object[captureServers[<<d, p>>]].running

\* At most one device captures on a port: two listeners would share it.
LEMMA OneHolder ==
    ASSUME Inv, NEW p \in Ports, NEW d \in Devices, NEW e \in Devices,
           Holds(d, p), Holds(e, p)
    PROVE  d = e
<1> USE NilAssumption DEF Inv
<1> DEFINE s == captureServers[<<d, p>>]
           t == captureServers[<<e, p>>]
<1>1. <<d, p>> \in Keys /\ <<e, p>> \in Keys
  BY DEF Keys
<1>2. /\ s \in Registered /\ t \in Registered /\ s \in Calls /\ t \in Calls
      /\ object[s].running /\ object[t].running
  BY <1>1 DEF Holds, Registered, TypeOK
<1>3. /\ object[s].dev = d /\ object[s].port = p
      /\ object[t].dev = e /\ object[t].port = p
  BY <1>1, <1>2 DEF RegistryMatches
<1>4. object[s].server = object[t].server /\ object[s].server \in Calls
  BY <1>2, <1>3 DEF RunningServersListen, ListenersHavePorts, TypeOK
<1>5. s = t
  BY <1>2, <1>4 DEF ServersAreServed
<1> QED
  BY <1>3, <1>5

\* CapturingDevice names the holder of a port, if there is one.
CapturingDeviceHolds ==
    \A p \in Ports :
        /\ \A d \in Devices : CapturingDevice(p) = d <=> Holds(d, p)
        /\ CapturingDevice(p) = None <=> \A d \in Devices : ~Holds(d, p)

\* CapturingDevice names the device that captures on a port, if any does.
LEMMA HolderIsNamed == Inv => CapturingDeviceHolds
<1> SUFFICES ASSUME Inv, NEW p \in Ports
             PROVE  /\ \A d \in Devices : CapturingDevice(p) = d <=> Holds(d, p)
                    /\ CapturingDevice(p) = None <=> \A d \in Devices : ~Holds(d, p)
  BY DEF CapturingDeviceHolds
<1> DEFINE on == {d \in Devices : Holds(d, p)}
<1>1. CapturingDevice(p) = IF on = {} THEN None ELSE CHOOSE d \in on : TRUE
  BY DEF CapturingDevice, Holds
<1>2. \A d, e \in on : d = e
  BY OneHolder
<1> QED
  BY <1>1, <1>2, NilAssumption

\* A step that moves no holder is a stutter of PortOwnership.
LEMMA SameHolders ==
    ASSUME CapturingDeviceHolds, CapturingDeviceHolds',
           \A d \in Devices, p \in Ports : Holds(d, p)' <=> Holds(d, p)
    PROVE  UNCHANGED [p \in Ports |-> CapturingDevice(p)]
<1>1. ASSUME NEW p \in Ports
      PROVE  CapturingDevice(p)' = CapturingDevice(p)
  <2>1. CapturingDevice(p) \in Devices \cup {None}
    BY DEF CapturingDevice
  <2> QED
    BY <2>1 DEF CapturingDeviceHolds
<1> QED
  BY <1>1

\* The clean-up of a start ends the captures of its device and on its port.
LEMMA StartMakesRoom ==
    ASSUME Inv, CapturingDeviceHolds, CapturingDeviceHolds',
           NEW g \in Calls, NEW d \in Devices, NEW p \in Ports,
           StartCaptureServer(g, d, p)
    PROVE  Owners!MakeRoom(d, p)
<1> USE NilAssumption
<1>1. ASSUME NEW e \in Devices, NEW q \in Ports
      PROVE  Holds(e, q)' <=> Holds(e, q) /\ e # d /\ q # p
  <2> DEFINE s == captureServers[<<e, q>>]
  <2>1. <<e, q>> \in Keys
    BY DEF Keys
  <2>2. s # None => s \in Registered /\ object[s].dev = e /\ object[s].port = q
    BY <2>1 DEF Inv, RegistryMatches, Registered
  <2>3. captureServers'[<<e, q>>] =
           IF s \in Registered /\ (object[s].dev = d \/ object[s].port = p)
           THEN None ELSE s
    BY <2>1 DEF StartCaptureServer
  <2>4. object' = object
    BY DEF StartCaptureServer
  <2> QED
    BY <2>2, <2>3, <2>4 DEF Holds
<1>2. ASSUME NEW q \in Ports
      PROVE  CapturingDevice(q)' =
                IF CapturingDevice(q) = d \/ q = p THEN None ELSE CapturingDevice(q)
  <2>1. CapturingDevice(q) \in Devices \cup {None}
    BY DEF CapturingDevice
  <2> QED
    BY <1>1, <2>1 DEF CapturingDeviceHolds
<1> QED
  BY <1>2 DEF Owners!MakeRoom

\* StopCaptureServer ends the captures of its device and no others.
LEMMA StopReleasesDevice ==
    ASSUME Inv, CapturingDeviceHolds, CapturingDeviceHolds',
           NEW d \in Devices, StopCaptureServer(d)
    PROVE  Owners!ReleaseDevice(d)
<1> USE NilAssumption
<1>1. ASSUME NEW e \in Devices, NEW q \in Ports
      PROVE  Holds(e, q)' <=> Holds(e, q) /\ e # d
  <2> DEFINE s == captureServers[<<e, q>>]
             S == {t \in Registered : object[t].dev = d}
  <2>1. <<e, q>> \in Keys
    BY DEF Keys
  <2>2. s # None => s \in Registered /\ s \in Calls /\ object[s].dev = e
    BY <2>1 DEF Inv, TypeOK, RegistryMatches, Registered
  <2>3. StopServers(S) /\ captureServers' = captureServers
    BY DEF StopCaptureServer
  <2>4. \A t \in Calls : IF t \in S THEN object'[t].running = FALSE
                                    ELSE object'[t] = object[t]
    <3> HIDE DEF S
    <3> QED
      BY <2>3, StoppingEffect DEF Inv
  <2> QED
    BY <2>2, <2>3, <2>4 DEF Holds
<1>2. ASSUME NEW q \in Ports
      PROVE  CapturingDevice(q)' =
                IF CapturingDevice(q) = d THEN None ELSE CapturingDevice(q)
  <2>1. CapturingDevice(q) \in Devices \cup {None}
    BY DEF CapturingDevice
  <2> QED
    BY <1>1, <2>1 DEF CapturingDeviceHolds
<1> QED
  BY <1>2 DEF Owners!ReleaseDevice

\* stopCaptureServersByPort ends the capture on its port and no other.
LEMMA StopReleasesPort ==
    ASSUME Inv, CapturingDeviceHolds, CapturingDeviceHolds',
           NEW p \in Ports, StopCaptureServersByPort(p)
    PROVE  Owners!ReleasePort(p)
<1> USE NilAssumption
<1>1. ASSUME NEW e \in Devices, NEW q \in Ports
      PROVE  Holds(e, q)' <=> Holds(e, q) /\ q # p
  <2> DEFINE s == captureServers[<<e, q>>]
             S == {t \in Registered : object[t].port = p}
  <2>1. <<e, q>> \in Keys
    BY DEF Keys
  <2>2. s # None => s \in Registered /\ s \in Calls /\ object[s].port = q
    BY <2>1 DEF Inv, TypeOK, RegistryMatches, Registered
  <2>3. /\ StopServers(S)
        /\ captureServers'[<<e, q>>] = IF s \in S THEN None ELSE s
    BY <2>1 DEF StopCaptureServersByPort
  <2>4. \A t \in Calls : t \notin S => object'[t] = object[t]
    <3> HIDE DEF S
    <3> QED
      BY <2>3, StoppingEffect DEF Inv
  <2> QED
    BY <2>2, <2>3, <2>4 DEF Holds
<1>2. ASSUME NEW q \in Ports
      PROVE  CapturingDevice(q)' = IF q = p THEN None ELSE CapturingDevice(q)
  <2>1. CapturingDevice(q) \in Devices \cup {None}
    BY DEF CapturingDevice
  <2> QED
    BY <1>1, <2>1 DEF CapturingDeviceHolds
<1> QED
  BY <1>2 DEF Owners!ReleasePort

\* The start holds the listener of its port, so nobody else can.
LEMMA RegisterAcquires ==
    ASSUME Inv, CapturingDeviceHolds, CapturingDeviceHolds',
           NEW g \in Calls, Register(g)
    PROVE  \E d \in Devices, p \in Ports : Owners!Acquire(d, p)
<1> USE NilAssumption DEF Inv
<1> DEFINE d == starter[g].dev
           p == starter[g].port
           s == IF captureServers[<<d, p>>] = None THEN g
                ELSE captureServers[<<d, p>>]
<1>1. /\ d \in Devices /\ p \in Ports /\ Served(g) = None /\ g \in listening
      /\ <<d, p>> \in Keys
  BY DEF Register, CallsKnowTheirKey, Keys
<1>2. ASSUME NEW e \in Devices
      PROVE  ~Holds(e, p)
  <2> SUFFICES ASSUME Holds(e, p) PROVE FALSE
    OBVIOUS
  <2> DEFINE t == captureServers[<<e, p>>]
  <2>1. <<e, p>> \in Keys
    BY <1>1 DEF Keys
  <2>2. t \in Registered /\ t \in Calls /\ object[t].port = p /\ object[t].running
    BY <2>1 DEF Holds, Registered, TypeOK, RegistryMatches
  <2>3. object[t].server = g
    BY <1>1, <2>2 DEF RunningServersListen, ListenersHavePorts
  <2> QED
    BY <1>1, <2>2, <2>3 DEF ServersAreServed
<1>3. /\ s \in Calls /\ captureServers' = [captureServers EXCEPT ![<<d, p>>] = s]
      /\ \A t \in Calls : t # s => object'[t] = object[t]
      /\ object'[s].running
  <2>1. s \in Calls
    BY <1>1 DEF TypeOK
  <2>2. /\ captureServers' = [captureServers EXCEPT ![<<d, p>>] = s]
        /\ object' = [object EXCEPT ![s] =
              IF s = g
              THEN [dev |-> d, port |-> p, server |-> g, running |-> TRUE,
                    client |-> None, timer |-> None]
              ELSE [object[s] EXCEPT !.server = g, !.running = TRUE]]
    BY DEF Register
  <2>3. object[s] \in Objects
    BY <2>1 DEF TypeOK
  <2> HIDE DEF s
  <2> QED
    BY <2>1, <2>2, <2>3 DEF TypeOK, Objects
<1>4. ASSUME NEW e \in Devices, NEW q \in Ports
      PROVE  Holds(e, q)' <=> Holds(e, q) \/ (e = d /\ q = p)
  <2>1. CASE e = d /\ q = p
    <3>1. captureServers'[<<e, q>>] = s
      BY <1>1, <1>3, <2>1 DEF TypeOK
    <3> QED
      BY <1>3, <2>1, <3>1 DEF Holds
  <2>2. CASE ~(e = d /\ q = p)
    <3> DEFINE t == captureServers[<<e, q>>]
    <3>1. <<e, q>> \in Keys /\ <<e, q>> # <<d, p>>
      BY <2>2 DEF Keys
    <3>2. captureServers'[<<e, q>>] = t /\ t \in Calls \cup {None}
      BY <1>3, <3>1 DEF TypeOK
    <3>3. t # None => t # s
      <4>1. t # None => Served(t) = t /\ object[t].dev = e /\ object[t].port = q
        BY <3>1 DEF RegistryMatches
      <4>2. s = g \/ (object[s].dev = d /\ object[s].port = p)
        BY <1>1 DEF RegistryMatches
      <4> QED
        BY <1>1, <2>2, <4>1, <4>2
    <3>4. t # None => object'[t] = object[t]
      BY <1>3, <3>2, <3>3
    <3> QED
      BY <2>2, <3>2, <3>4 DEF Holds
  <2> QED
    BY <2>1, <2>2
<1> HIDE DEF d, p, s
<1>5. CapturingDevice(p) = None
  BY <1>1, <1>2 DEF CapturingDeviceHolds
<1>6. ASSUME NEW q \in Ports
      PROVE  CapturingDevice(q)' = IF q = p THEN d ELSE CapturingDevice(q)
  <2>1. CapturingDevice(q) \in Devices \cup {None}
    BY DEF CapturingDevice
  <2> QED
    BY <1>1, <1>4, <2>1 DEF CapturingDeviceHolds
<1>7. Owners!Acquire(d, p)
  BY <1>1, <1>5, <1>6 DEF Owners!Acquire
<1> QED
  BY <1>1, <1>7

\* No other step begins or ends a capture.
LEMMA OthersAreQuiet ==
    ASSUME Inv,
           \/ \E g \in Calls :
                 \/ CheckExisting(g) \/ EnsureForward(g) \/ Listen(g) \/ ArmTimer(g)
                 \/ SpawnGoroutines(g) \/ Accepting(g) \/ StartHeart(g)
                 \/ HeartTick(g) \/ MonitorTick(g)
           \/ \E c \in Conns :
                 \/ Reading(c) \/ ReadMessage(c) \/ RespondFails(c)
                 \/ GiveUpReading(c) \/ Remote(c)
           \/ UNCHANGED vars
    PROVE  \A d \in Devices, p \in Ports : Holds(d, p)' <=> Holds(d, p)
<1>1. captureServers' = captureServers
  BY DEF CheckExisting, EnsureForward, Listen, ArmTimer, SpawnGoroutines,
         Accepting, EvaluateListener, AcceptFails, RegisterClient, Accept,
         StartHeart, HeartTick, MonitorTick, Reading, ReadEnds,
         UnregisterClient, ReadMessage, RespondFails, GiveUpReading,
         Disconnect, Remote, HangUp, FallSilent, Dial, vars
<1>2. \/ object' = object
      \/ \E s, x : object' = [object EXCEPT ![s].client = x]
      \/ \E s, x : object' = [object EXCEPT ![s].timer = x]
  <2>1. ASSUME NEW g \in Calls, ArmTimer(g)
        PROVE  \E s, x : object' = [object EXCEPT ![s].timer = x]
    BY <2>1 DEF ArmTimer
  <2>2. ASSUME NEW g \in Calls, RegisterClient(g)
        PROVE  \E s, x : object' = [object EXCEPT ![s].client = x]
    BY <2>2 DEF RegisterClient
  <2>3. ASSUME NEW g \in Calls, MonitorTick(g)
        PROVE  \/ object' = object
               \/ \E s, x : object' = [object EXCEPT ![s].client = x]
    BY <2>3 DEF MonitorTick
  <2>4. ASSUME NEW c \in Conns, UnregisterClient(c)
        PROVE  \E s, x : object' = [object EXCEPT ![s].client = x]
    BY <2>4 DEF UnregisterClient
  <2>5. ASSUME NEW g \in Calls,
               \/ CheckExisting(g) \/ EnsureForward(g) \/ Listen(g)
               \/ SpawnGoroutines(g) \/ EvaluateListener(g) \/ AcceptFails(g)
               \/ \E c \in Conns : Accept(g, c)
               \/ StartHeart(g) \/ HeartTick(g)
        PROVE  object' = object
    BY <2>5 DEF CheckExisting, EnsureForward, Listen, SpawnGoroutines,
                EvaluateListener, AcceptFails, Accept, StartHeart, HeartTick
  <2>6. ASSUME NEW c \in Conns,
               \/ ReadEnds(c) \/ ReadMessage(c) \/ RespondFails(c)
               \/ GiveUpReading(c) \/ Remote(c)
        PROVE  object' = object
    BY <2>6 DEF ReadEnds, ReadMessage, RespondFails, GiveUpReading, Disconnect,
                Remote, HangUp, FallSilent, Dial
  <2>7. CASE UNCHANGED vars
    BY <2>7 DEF vars
  <2> QED
    BY <2>1, <2>2, <2>3, <2>4, <2>5, <2>6, <2>7 DEF Accepting, Reading
<1>3. \A t \in Calls : object'[t].running = object[t].running
  BY <1>2 DEF Inv, TypeOK, Objects
<1>4. \A k \in Keys : captureServers[k] \in Calls \cup {None}
  BY DEF Inv, TypeOK
<1>5. \A d \in Devices, p \in Ports : <<d, p>> \in Keys
  BY DEF Keys
<1> QED
  BY <1>1, <1>3, <1>4, <1>5 DEF Holds

\* Every step of the capture servers is one of PortOwnership, or a stutter.
LEMMA OwnersStep ==
    ASSUME Inv, CapturingDeviceHolds, CapturingDeviceHolds', [Next]_vars
    PROVE  \/ Owners!Next
           \/ UNCHANGED [p \in Ports |-> CapturingDevice(p)]
<1>1. CASE User
  BY <1>1, StartMakesRoom, StopReleasesDevice, StopReleasesPort
  DEF User, Owners!Next
<1>2. CASE \E g \in Calls : Register(g)
  BY <1>2, RegisterAcquires DEF Owners!Next
<1>3. CASE \/ \E g \in Calls :
                 \/ CheckExisting(g) \/ EnsureForward(g) \/ Listen(g) \/ ArmTimer(g)
                 \/ SpawnGoroutines(g) \/ Accepting(g) \/ StartHeart(g)
                 \/ HeartTick(g) \/ MonitorTick(g)
           \/ \E c \in Conns :
                 \/ Reading(c) \/ ReadMessage(c) \/ RespondFails(c)
                 \/ GiveUpReading(c) \/ Remote(c)
           \/ UNCHANGED vars
  BY <1>3, OthersAreQuiet, SameHolders
<1> QED
  BY <1>1, <1>2, <1>3 DEF Next, Starting

\* The capture servers share the local ports as PortOwnership says, whatever
\* the devices, ports and starts, and however starts and stops overlap.
THEOREM Implementation == Spec => ImplementsPortOwnership
<1>1. Init => Owners!Init
  <2> SUFFICES ASSUME Init PROVE Owners!Init
    OBVIOUS
  <2>1. \A d \in Devices, p \in Ports : captureServers[<<d, p>>] = None
    BY DEF Init, Keys
  <2>2. \A p \in Ports : CapturingDevice(p) = None
    BY <2>1 DEF CapturingDevice
  <2> QED
    BY <2>2 DEF Owners!Init
<1>2. Inv /\ CapturingDeviceHolds /\ CapturingDeviceHolds' /\ [Next]_vars
        => [Owners!Next]_([p \in Ports |-> CapturingDevice(p)])
  BY OwnersStep
<1> QED
  BY <1>1, <1>2, HolderIsNamed, Invariance, PTL
  DEF Spec, ImplementsPortOwnership, Owners!Spec
=============================================================================
