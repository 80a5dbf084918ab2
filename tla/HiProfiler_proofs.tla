-------------------------- MODULE HiProfiler_proofs --------------------------
(***************************************************************************)
(* Theorems about HiProfiler, for any sessions and PIDs.  The inductive    *)
(* invariant has three parts beside the types: what the registry of        *)
(* sessions says (Registry), what a marker waits for (Draining), and the   *)
(* registry of watchers.  For each part a predicate says what a step must  *)
(* leave alone to keep it; an action that does more has a proof of its own *)
(* for that part.                                                          *)
(***************************************************************************)
EXTENDS HiProfiler, TLAPS

\* The calls that hold startMutex.
Holding == {"clean", "cleaning", "launch", "register"}

\* Nobody registers a session between the existence check of a call and its
\* own registration: that takes startMutex.
OneStartAtATime ==
    \A s \in Sessions : call[s].pc \in Holding =>
        startMutex = s /\ captureSessions[call[s].pid] = None

\* What the registry names is a session, under its PID, not yet wound down.
RegisteredSessionsRun ==
    \A p \in Pids : captureSessions[p] # None =>
        /\ call[captureSessions[p]].pc = "live"
        /\ call[captureSessions[p]].pid = p
        /\ stop[captureSessions[p]] # "done"

\* A call that is not through has no session to stop, and no goroutines.
LiveSessionsHaveState ==
    \A s \in Sessions : call[s].pc # "live" =>
        stop[s] = "no" /\ fetch[s] = "none" /\ monitor[s] = "none"

\* Nothing but sessions is stopped.
StopsConcernSessions ==
    \A t \in Threads : \A s \in todo[t].sessions : call[s].pc = "live"

ProcessExists == process.up => process.pid \in Pids

Registry ==
    /\ OneStartAtATime /\ RegisteredSessionsRun /\ SessionsAreRegistered
    /\ LiveSessionsHaveState /\ StopsConcernSessions /\ ProcessExists

\* A session that ends with its process has its tail, or waited long enough,
\* before it is closed.
TailsAreDrained ==
    \A s \in Sessions :
        reason[s] = "processExited" /\ stop[s] \in {"closing", "done"}
            => fetch[s] = "done" \/ s \in timedOut

\* A monitor does not get past the stop of its session before that is closed.
MonitorsAwaitStops ==
    \A s \in Sessions :
        monitor[s] \in {"marked", "done"} => stop[s] \in {"closing", "done"}

Draining == TailsAreDrained /\ MonitorsAwaitStops

\* The inductive invariant.
Inv == TypeOK /\ Registry /\ Draining /\ WatchersAreRegistered

-----------------------------------------------------------------------------
(* What keeps each part.                                                   *)

LEMMA RegistryTyped ==
    ASSUME TypeOK
    PROVE  \A p \in Pids : captureSessions[p] \in Sessions \cup {None}
<1>1. captureSessions \in [Pids -> Sessions \cup {None}]
  BY DEF TypeOK
<1> QED
  BY <1>1

RegistryStays ==
    /\ UNCHANGED <<captureSessions, startMutex>>
    /\ \A s \in Sessions :
          /\ call'[s].pc = "live" <=> call[s].pc = "live"
          /\ call'[s].pc \in Holding => call[s].pc \in Holding
          /\ call'[s].pc \in Holding \cup {"live"} => call'[s].pid = call[s].pid
          /\ call[s].pc # "live" =>
                stop'[s] = stop[s] /\ fetch'[s] = fetch[s] /\ monitor'[s] = monitor[s]
          /\ stop'[s] = "done" <=> stop[s] = "done"
    /\ \A t \in Threads : \A s \in todo'[t].sessions :
          s \in Sessions /\ call[s].pc = "live"
    /\ process'.up => process'.pid \in Pids

LEMMA RegistryKept ==
    ASSUME TypeOK, Registry, RegistryStays
    PROVE  Registry'
<1> USE DEF Registry, RegistryStays
<1>1. OneStartAtATime'
  BY DEF OneStartAtATime
<1>2. RegisteredSessionsRun'
  BY RegistryTyped DEF RegisteredSessionsRun
<1>3. SessionsAreRegistered'
  BY <1>1 DEF SessionsAreRegistered, OneStartAtATime, Holding
<1>4. LiveSessionsHaveState'
  BY DEF LiveSessionsHaveState
<1>5. StopsConcernSessions'
  BY DEF StopsConcernSessions
<1>6. ProcessExists'
  BY DEF ProcessExists
<1> QED
  BY <1>1, <1>2, <1>3, <1>4, <1>5, <1>6

Closed == {"closing", "done"}

DrainingStays ==
    \A s \in Sessions :
        /\ stop'[s] \in Closed <=> stop[s] \in Closed
        /\ stop[s] \in Closed => reason'[s] = reason[s]
        /\ fetch[s] = "done" => fetch'[s] = "done"
        /\ s \in timedOut => s \in timedOut'
        /\ monitor'[s] \in {"marked", "done"} => monitor[s] \in {"marked", "done"}

LEMMA DrainingKept ==
    ASSUME Draining, DrainingStays
    PROVE  Draining'
  BY DEF Draining, DrainingStays, TailsAreDrained, MonitorsAwaitStops, Closed

WatchersStay ==
    /\ restartWatcher' = restartWatcher
    /\ cancelled \subseteq cancelled'
    /\ \A w \in Sessions : watcher'[w] \in {"polling", "starting"} =>
                               watcher[w] \in {"polling", "starting"}

LEMMA WatchersKept ==
    ASSUME WatchersAreRegistered, WatchersStay
    PROVE  WatchersAreRegistered'
  BY DEF WatchersAreRegistered, WatchersStay

-----------------------------------------------------------------------------
(* What the shared pieces of the actions do.                               *)

CallPcs == {"unused", "queued", "clean", "cleaning", "launch", "register", "live",
            "failed"}

\* A step of one call.
Moves(s, pc) ==
    /\ call' \in [Sessions -> CallRecords]
    /\ call'[s].pc = pc
    /\ \A r \in Sessions : /\ call'[r].pid = call[r].pid
                           /\ r # s => call'[r].pc = call[r].pc

LEMMA CallMoves ==
    ASSUME TypeOK, NEW s \in Sessions, NEW pc \in CallPcs,
           call' = [call EXCEPT ![s].pc = pc]
    PROVE  Moves(s, pc)
<1> DEFINE At(r) == [r EXCEPT !.pc = pc]
<1>1. \A r \in CallRecords : /\ At(r) \in CallRecords
                             /\ At(r).pc = pc /\ At(r).pid = r.pid
  BY DEF CallRecords, CallPcs
<1>2. call' = [call EXCEPT ![s] = At(call[s])] /\ call \in [Sessions -> CallRecords]
  BY DEF TypeOK
<1> HIDE DEF At
<1> QED
  BY <1>1, <1>2 DEF Moves

\* A call that begins is queued, for a PID that was seen.
LEMMA CallBegins ==
    ASSUME Inv, NEW s \in Sessions, NEW t \in Threads, Call(s, t), process.up
    PROVE  /\ call' \in [Sessions -> CallRecords]
           /\ call'[s].pc = "queued"
           /\ \A r \in Sessions \ {s} : call'[r] = call[r]
<1>1. process.pid \in Pids
  BY DEF Inv, Registry, ProcessExists
<1>2. [pc |-> "queued", thread |-> t, pid |-> process.pid] \in CallRecords
  BY <1>1 DEF CallRecords
<1> QED
  BY <1>2 DEF Call, Inv, TypeOK

\* What a stop has to do, as it is read from the registries.
LEMMA SnapshotsAreLive ==
    ASSUME Inv
    PROVE  /\ Everything \in Worklists
           /\ \A s \in Everything.sessions : call[s].pc = "live"
           /\ \A p \in Pids : /\ Matching(p) \in Worklists
                              /\ \A s \in Matching(p).sessions : call[s].pc = "live"
<1>1. \A p \in Pids : captureSessions[p] # None =>
          captureSessions[p] \in Sessions /\ call[captureSessions[p]].pc = "live"
  BY RegistryTyped DEF Inv, Registry, RegisteredSessionsRun
<1>2. restartWatcher \in Sessions \cup {None}
  BY DEF Inv, TypeOK
<1>3. Registered \subseteq Sessions /\ \A s \in Registered : call[s].pc = "live"
  BY <1>1 DEF Registered
<1>4. Everything \in Worklists /\ \A s \in Everything.sessions : call[s].pc = "live"
  BY <1>2, <1>3 DEF Everything, Worklists
<1>5. ASSUME NEW p \in Pids
      PROVE  /\ Matching(p) \in Worklists
             /\ \A s \in Matching(p).sessions : call[s].pc = "live"
  <2>1. CASE captureSessions[p] # None
    BY <1>1, <2>1 DEF Matching, Worklists
  <2>2. CASE captureSessions[p] = None
    BY <1>2, <2>2 DEF Matching, Worklists
  <2> QED
    BY <2>1, <2>2
<1> QED
  BY <1>4, <1>5

\* A thread that begins a stop works through the snapshot it took.
LEMMA WorkBegins ==
    ASSUME Inv, NEW t \in Threads, NEW W \in Worklists,
           \A s \in W.sessions : call[s].pc = "live",
           todo' = [todo EXCEPT ![t] = W]
    PROVE  /\ todo' \in [Threads -> Worklists]
           /\ \A u \in Threads : \A s \in todo'[u].sessions :
                 s \in Sessions /\ call[s].pc = "live"
<1>1. todo \in [Threads -> Worklists]
  BY DEF Inv, TypeOK
<1>2. \A u \in Threads : \A s \in todo[u].sessions : call[s].pc = "live"
  BY DEF Inv, Registry, StopsConcernSessions
<1>3. \A V \in Worklists : V.sessions \subseteq Sessions
  BY DEF Worklists
<1> QED
  BY <1>1, <1>2, <1>3

\* What todo says if no step touches it.
LEMMA WorkIsLive ==
    ASSUME Inv
    PROVE  /\ todo \in [Threads -> Worklists]
           /\ \A u \in Threads : \A s \in todo[u].sessions :
                 s \in Sessions /\ call[s].pc = "live"
<1>1. todo \in [Threads -> Worklists]
  BY DEF Inv, TypeOK
<1>2. \A V \in Worklists : V.sessions \subseteq Sessions
  BY DEF Worklists
<1> QED
  BY <1>1, <1>2 DEF Inv, Registry, StopsConcernSessions

-----------------------------------------------------------------------------
(* The process, and the user's calls.                                      *)

\* What a step does not touch, if no session, watcher or registry is in it.
LEMMA NothingElseMoves ==
    ASSUME Inv, UNCHANGED <<captureSessions, startMutex, watcherVars, sessionVars>>
    PROVE  DrainingStays /\ WatchersStay
  BY DEF DrainingStays, WatchersStay, watcherVars, sessionVars

LEMMA ProcessKeeps ==
    ASSUME Inv, ProcessStarts \/ ProcessExits
    PROVE  Inv'
<1> USE DEF watcherVars, sessionVars
<1>1. process' \in [pid: 0 .. MaxPid, up: BOOLEAN] /\ (process'.up => process'.pid \in Pids)
  <2>1. process.pid \in 0 .. MaxPid /\ MaxPid \in Nat
    BY PidAssumption DEF Inv, TypeOK
  <2>2. CASE ProcessStarts
    <3>1. process.pid + 1 \in Pids /\ process.pid + 1 \in 0 .. MaxPid
      BY <2>1, <2>2 DEF ProcessStarts, Pids
    <3>2. PICK n \in Pids : n = process.pid + 1
      BY <3>1
    <3>3. process' = [pid |-> n, up |-> TRUE] /\ n \in 0 .. MaxPid
      BY <2>2, <3>1, <3>2 DEF ProcessStarts
    <3> QED
      BY <3>3
  <2>3. CASE ProcessExits
    BY <2>1, <2>3 DEF ProcessExits, Inv, TypeOK
  <2> QED
    BY <2>2, <2>3
<1>2. UNCHANGED <<startMutex, captureSessions, watcherVars, call, sessionVars, todo,
                  button>>
  BY DEF ProcessStarts, ProcessExits
<1>3. TypeOK'
  BY <1>1, <1>2 DEF Inv, TypeOK
<1>4. RegistryStays
  BY <1>1, <1>2, WorkIsLive DEF RegistryStays
<1> QED
  BY <1>2, <1>3, <1>4, NothingElseMoves, RegistryKept, DrainingKept, WatchersKept DEF Inv

LEMMA StartCaptureKeeps ==
    ASSUME Inv, NEW s \in Sessions, StartCapture(s)
    PROVE  Inv'
<1> USE DEF StartCapture, watcherVars, sessionVars
<1>1. /\ call' \in [Sessions -> CallRecords]
      /\ call'[s].pc = "queued"
      /\ \A r \in Sessions \ {s} : call'[r] = call[r]
  BY CallBegins DEF Threads
<1>2. TypeOK'
  BY <1>1 DEF Inv, TypeOK
<1>3. RegistryStays
  BY <1>1, WorkIsLive DEF RegistryStays, Holding, Inv, Registry, ProcessExists
<1> QED
  BY <1>2, <1>3, NothingElseMoves, RegistryKept, DrainingKept, WatchersKept DEF Inv

\* PressStop and StopAllCaptures take a snapshot; StopHandled shows "idle".
LEMMA StopButtonKeeps ==
    ASSUME Inv, (\E p \in Pids : PressStop(p)) \/ Handling
    PROVE  Inv'
<1> USE DEF watcherVars, sessionVars
<1>1. /\ UNCHANGED <<process, startMutex, captureSessions, watcherVars, call, sessionVars>>
      /\ button' \in {"one", "all", "idle"}
  BY DEF PressStop, Handling, StopAllCaptures, StopHandled
<1>2. /\ todo' \in [Threads -> Worklists]
      /\ \A u \in Threads : \A s \in todo'[u].sessions : s \in Sessions /\ call[s].pc = "live"
  <2>1. User \in Threads
    BY DEF Threads
  <2>2. ASSUME NEW p \in Pids, PressStop(p)
        PROVE  todo' = [todo EXCEPT ![User] = Matching(p)]
    BY <2>2 DEF PressStop
  <2>3. CASE StopAllCaptures
    <3>1. todo' = [todo EXCEPT ![User] = Everything]
      BY <2>3 DEF StopAllCaptures
    <3> QED
      BY <2>1, <3>1, SnapshotsAreLive, WorkBegins
  <2>4. CASE StopHandled
    BY <2>4, WorkIsLive DEF StopHandled
  <2>5. ASSUME NEW p \in Pids, PressStop(p)
        PROVE  /\ todo' \in [Threads -> Worklists]
               /\ \A u \in Threads : \A s \in todo'[u].sessions :
                     s \in Sessions /\ call[s].pc = "live"
    BY <2>1, <2>2, <2>5, SnapshotsAreLive, WorkBegins
  <2> QED
    BY <2>3, <2>4, <2>5 DEF Handling
<1>3. TypeOK'
  BY <1>1, <1>2 DEF Inv, TypeOK
<1>4. RegistryStays
  BY <1>1, <1>2 DEF RegistryStays, Inv, Registry, ProcessExists
<1> QED
  BY <1>1, <1>3, <1>4, NothingElseMoves, RegistryKept, DrainingKept, WatchersKept DEF Inv

-----------------------------------------------------------------------------
(* startCapture.                                                           *)

\* Who enters finds startMutex free, so nobody else is between its check and
\* its registration.
LEMMA EnterStartKeeps ==
    ASSUME Inv, NEW s \in Sessions, EnterStart(s)
    PROVE  Inv'
<1> USE DEF watcherVars, sessionVars, EnterStart
<1>1. PICK pc \in {"unused", "failed", "clean", "launch"} :
          /\ call' = [call EXCEPT ![s].pc = pc]
          /\ IF pc \in {"unused", "failed"} THEN startMutex' = None
             ELSE startMutex' = s /\ captureSessions[call[s].pid] = None
  BY DEF Failed
<1>2. Moves(s, pc) /\ call[s].pc = "queued"
  <2>1. pc \in CallPcs /\ TypeOK
    BY DEF CallPcs, Inv
  <2>2. Moves(s, pc)
    BY <1>1, <2>1, CallMoves
  <2> QED
    BY <2>2
<1>3. TypeOK'
  BY <1>1, <1>2 DEF Inv, TypeOK, Moves
<1>4. Registry'
  <2> USE DEF Inv, Registry, Moves
  <2>1. \A r \in Sessions : call[r].pc \notin Holding
    <3>1. startMutex = None /\ None \notin Sessions
      BY NameAssumption
    <3> QED
      BY <3>1 DEF OneStartAtATime
  <2>2. OneStartAtATime'
    BY <1>1, <1>2, <2>1 DEF OneStartAtATime, Holding
  <2>3. RegisteredSessionsRun'
    BY <1>2, RegistryTyped DEF RegisteredSessionsRun
  <2>4. SessionsAreRegistered'
    BY <1>2, <2>2 DEF SessionsAreRegistered, OneStartAtATime, Holding
  <2>5. LiveSessionsHaveState'
    BY <1>2 DEF LiveSessionsHaveState
  <2>6. StopsConcernSessions'
    BY <1>2, WorkIsLive DEF StopsConcernSessions
  <2>7. ProcessExists'
    BY DEF ProcessExists
  <2> QED
    BY <2>2, <2>3, <2>4, <2>5, <2>6, <2>7
<1>5. DrainingStays /\ WatchersStay
  BY DEF DrainingStays, WatchersStay
<1> QED
  BY <1>3, <1>4, <1>5, DrainingKept, WatchersKept DEF Inv

LEMMA CleaningKeeps ==
    ASSUME Inv, NEW s \in Sessions, CleanExisting(s) \/ Cleaned(s)
    PROVE  Inv'
<1> USE DEF watcherVars, sessionVars
<1>0. TypeOK
  BY DEF Inv
<1>1. PICK pc \in {"cleaning", "launch"} : call' = [call EXCEPT ![s].pc = pc]
  BY DEF CleanExisting, Cleaned
<1>2. Moves(s, pc) /\ call[s].pc \in {"clean", "cleaning"}
  <2>1. pc \in CallPcs
    BY DEF CallPcs
  <2>2. Moves(s, pc)
    BY <1>0, <1>1, <2>1, CallMoves
  <2> QED
    BY <2>2 DEF CleanExisting, Cleaned
<1>3. /\ todo' \in [Threads -> Worklists]
      /\ \A u \in Threads : \A r \in todo'[u].sessions : r \in Sessions /\ call[r].pc = "live"
  <2>1. CASE CleanExisting(s)
    <3>1. todo' = [todo EXCEPT ![s] = Everything] /\ s \in Threads
      BY <2>1 DEF CleanExisting, Threads
    <3> QED
      BY <3>1, SnapshotsAreLive, WorkBegins
  <2>2. CASE Cleaned(s)
    BY <2>2, WorkIsLive DEF Cleaned
  <2> QED
    BY <2>1, <2>2
<1>4. UNCHANGED <<process, startMutex, captureSessions, watcherVars, sessionVars, button>>
  BY DEF CleanExisting, Cleaned
<1>5. TypeOK'
  BY <1>0, <1>2, <1>3, <1>4 DEF TypeOK, Moves
<1>6. RegistryStays
  BY <1>2, <1>3, <1>4 DEF RegistryStays, Moves, Holding, Inv, Registry, ProcessExists
<1> QED
  BY <1>0, <1>4, <1>5, <1>6, NothingElseMoves, RegistryKept, DrainingKept, WatchersKept
  DEF Inv

\* A call that fails lets startMutex go; it was the only one to hold it.
LEMMA LaunchKeeps ==
    ASSUME Inv, NEW s \in Sessions, Launch(s)
    PROVE  Inv'
<1> USE DEF watcherVars, sessionVars
<1>0. TypeOK
  BY DEF Inv
<1>1. /\ call[s].pc = "launch"
      /\ UNCHANGED <<process, captureSessions, watcherVars, sessionVars, todo, button>>
  BY DEF Launch
<1>2. CASE call' = [call EXCEPT ![s].pc = "register"] /\ UNCHANGED startMutex
  <2>1. Moves(s, "register")
    BY <1>0, <1>2, CallMoves DEF CallPcs
  <2>2. TypeOK'
    BY <1>0, <1>1, <1>2, <2>1 DEF TypeOK, Moves
  <2>3. RegistryStays
    BY <1>1, <1>2, <2>1, WorkIsLive
    DEF RegistryStays, Moves, Holding, Inv, Registry, ProcessExists
  <2> QED
    BY <1>0, <1>1, <1>2, <2>2, <2>3, NothingElseMoves, RegistryKept, DrainingKept,
       WatchersKept DEF Inv
<1>3. CASE call' = [call EXCEPT ![s].pc = Failed(s)] /\ startMutex' = None
  <2>1. PICK pc \in {"unused", "failed"} : call' = [call EXCEPT ![s].pc = pc]
    BY <1>3 DEF Failed
  <2>2. Moves(s, pc)
    <3>1. pc \in CallPcs
      BY DEF CallPcs
    <3> QED
      BY <1>0, <2>1, <3>1, CallMoves
  <2>3. TypeOK'
    BY <1>0, <1>1, <1>3, <2>2 DEF TypeOK, Moves
  <2>4. \A r \in Sessions : call'[r].pc \notin Holding
    <3>1. startMutex = s
      BY <1>1 DEF Inv, Registry, OneStartAtATime, Holding
    <3> QED
      BY <2>2, <3>1 DEF Inv, Registry, OneStartAtATime, Moves, Holding
  <2>5. Registry'
    <3> USE DEF Inv, Registry, Moves
    <3>1. OneStartAtATime'
      BY <2>4 DEF OneStartAtATime
    <3>2. RegisteredSessionsRun'
      BY <1>1, <2>2, RegistryTyped DEF RegisteredSessionsRun
    <3>3. SessionsAreRegistered'
      BY <1>1, <2>2, <2>4 DEF SessionsAreRegistered, Holding
    <3>4. LiveSessionsHaveState'
      BY <1>1, <2>2 DEF LiveSessionsHaveState
    <3>5. StopsConcernSessions'
      BY <1>1, <2>2, WorkIsLive DEF StopsConcernSessions
    <3>6. ProcessExists'
      BY <1>1 DEF ProcessExists
    <3> QED
      BY <3>1, <3>2, <3>3, <3>4, <3>5, <3>6
  <2>6. DrainingStays /\ WatchersStay
    BY <1>1 DEF DrainingStays, WatchersStay
  <2> QED
    BY <2>3, <2>5, <2>6, DrainingKept, WatchersKept DEF Inv
<1> QED
  BY <1>2, <1>3 DEF Launch

\* The registration overwrites nothing, and the session is found by its PID.
LEMMA RegisterKeeps ==
    ASSUME Inv, NEW s \in Sessions, Register(s)
    PROVE  Inv'
<1> USE DEF watcherVars, sessionVars
<1>0. TypeOK
  BY DEF Inv
<1>1. /\ call[s].pc = "register" /\ startMutex' = None
      /\ call' = [call EXCEPT ![s].pc = "live"]
      /\ captureSessions' = [captureSessions EXCEPT ![call[s].pid] = s]
      /\ fetch' = [fetch EXCEPT ![s] = "reading"]
      /\ monitor' = [monitor EXCEPT ![s] = "watching"]
      /\ UNCHANGED <<process, watcherVars, stop, reason, timedOut, todo, button>>
  BY DEF Register
<1>2. Moves(s, "live")
  BY <1>0, <1>1, CallMoves DEF CallPcs
<1>3. call[s].pid \in Pids
  BY <1>0 DEF TypeOK, CallRecords
<1>4. /\ captureSessions' \in [Pids -> Sessions \cup {None}]
      /\ captureSessions'[call[s].pid] = s
      /\ \A p \in Pids \ {call[s].pid} : captureSessions'[p] = captureSessions[p]
  BY <1>0, <1>1, <1>3 DEF TypeOK
<1>5. /\ fetch[s] = "none" /\ monitor[s] = "none" /\ stop[s] = "no"
      /\ captureSessions[call[s].pid] = None /\ startMutex = s
  BY <1>1 DEF Inv, Registry, LiveSessionsHaveState, OneStartAtATime, Holding
<1>6. /\ fetch' \in [Sessions -> {"none", "reading", "broken", "stopping", "done"}]
      /\ monitor' \in [Sessions -> {"none", "watching", "exited", "stopping", "marked",
                                    "armed", "done"}]
      /\ monitor'[s] = "watching"
      /\ \A r \in Sessions \ {s} : fetch'[r] = fetch[r] /\ monitor'[r] = monitor[r]
  BY <1>0, <1>1 DEF TypeOK
<1>7. TypeOK'
  BY <1>0, <1>1, <1>2, <1>4, <1>6 DEF TypeOK, Moves
<1>8. Registry'
  <2> USE DEF Inv, Registry, Moves
  <2>1. \A r \in Sessions : call'[r].pc \notin Holding
    BY <1>2, <1>5 DEF OneStartAtATime, Holding
  <2>2. OneStartAtATime'
    BY <2>1 DEF OneStartAtATime
  <2>3. RegisteredSessionsRun'
    <3> SUFFICES ASSUME NEW p \in Pids, NEW r, r = captureSessions'[p], r # None
                 PROVE  call'[r].pc = "live" /\ call'[r].pid = p /\ stop'[r] # "done"
      BY DEF RegisteredSessionsRun
    <3>1. CASE p = call[s].pid
      BY <1>1, <1>2, <1>4, <1>5, <3>1
    <3>2. CASE p # call[s].pid
      <4>1. r = captureSessions[p] /\ r \in Sessions
        BY <1>0, <1>4, <3>2, RegistryTyped
      <4> QED
        BY <1>1, <1>2, <4>1 DEF RegisteredSessionsRun
    <3> QED
      BY <3>1, <3>2
  <2>4. SessionsAreRegistered'
    <3>1. ASSUME NEW r \in Sessions, call'[r].pc = "live", stop'[r] # "done"
          PROVE  captureSessions'[call'[r].pid] = r
      <4>1. CASE r = s
        BY <1>2, <1>4, <4>1
      <4>2. CASE r # s
        <5>1. captureSessions[call[r].pid] = r /\ call[r].pid \in Pids
          BY <1>0, <1>1, <1>2, <3>1, <4>2 DEF SessionsAreRegistered, TypeOK, CallRecords
        <5>2. call[r].pid # call[s].pid
          BY <1>5, <5>1, NameAssumption
        <5> QED
          BY <1>2, <1>4, <5>1, <5>2
      <4> QED
        BY <4>1, <4>2
    <3> QED
      BY <2>1, <3>1 DEF SessionsAreRegistered, Holding
  <2>5. LiveSessionsHaveState'
    BY <1>1, <1>2, <1>6 DEF LiveSessionsHaveState
  <2>6. StopsConcernSessions'
    BY <1>1, <1>2, WorkIsLive DEF StopsConcernSessions
  <2>7. ProcessExists'
    BY <1>1 DEF ProcessExists
  <2> QED
    BY <2>2, <2>3, <2>4, <2>5, <2>6, <2>7
<1>9. DrainingStays /\ WatchersStay
  BY <1>1, <1>5, <1>6 DEF DrainingStays, WatchersStay
<1> QED
  BY <1>7, <1>8, <1>9, DrainingKept, WatchersKept DEF Inv

\* Every step of a call.
LEMMA StartingKeeps ==
    ASSUME Inv, NEW s \in Sessions, Starting(s)
    PROVE  Inv'
  BY EnterStartKeeps, CleaningKeeps, LaunchKeeps, RegisterKeeps DEF Starting

-----------------------------------------------------------------------------
(* stop(reason).                                                           *)

\* Entering stop changes the session from "no" to "entered", and nothing else
\* of it; it is not closed by that.
StopEntered(s) ==
    /\ stop' \in [Sessions -> {"no", "entered", "closing", "done"}]
    /\ reason' \in [Sessions -> {"", "manual", "processExited", "streamError"}]
    /\ \A r \in Sessions :
          \/ stop'[r] = stop[r] /\ reason'[r] = reason[r]
          \/ r = s /\ stop[r] = "no" /\ stop'[r] = "entered"

LEMMA EnteringStop ==
    ASSUME Inv, NEW s \in Sessions, NEW why \in {"manual", "processExited", "streamError"},
           EnterStop(s, why)
    PROVE  StopEntered(s)
  BY DEF EnterStop, StopEntered, Inv, TypeOK

\* The types of what belongs to a session.
SessionsTyped ==
    /\ stop \in [Sessions -> {"no", "entered", "closing", "done"}]
    /\ reason \in [Sessions -> {"", "manual", "processExited", "streamError"}]
    /\ timedOut \subseteq Sessions
    /\ fetch \in [Sessions -> {"none", "reading", "broken", "stopping", "done"}]
    /\ monitor \in [Sessions -> {"none", "watching", "exited", "stopping", "marked",
                                 "armed", "done"}]

\* A step of a session that is live leaves the registry alone, unless it
\* closes the session.
LEMMA SessionStep ==
    ASSUME Inv, NEW s \in Sessions, call[s].pc = "live",
           UNCHANGED <<process, startMutex, captureSessions, call, todo, button>>,
           \A r \in Sessions : /\ stop'[r] = "done" <=> stop[r] = "done"
                               /\ r # s => /\ stop'[r] = stop[r] /\ fetch'[r] = fetch[r]
                                           /\ monitor'[r] = monitor[r],
           SessionsTyped',
           restartWatcher' \in Sessions \cup {None}, cancelled' = cancelled,
           watcher' \in [Sessions -> {"none", "polling", "starting", "started",
                                      "collecting", "done"}]
    PROVE  TypeOK' /\ Registry'
<1>1. TypeOK'
  BY DEF Inv, TypeOK, SessionsTyped
<1>2. RegistryStays
  BY WorkIsLive DEF RegistryStays, Inv, Registry, ProcessExists
<1> QED
  BY <1>1, <1>2, RegistryKept DEF Inv

\* A session is closed only when the tail of an exit is there, or came too
\* late.
LEMMA StopSessionKeeps ==
    ASSUME Inv, NEW s \in Sessions, StopSession(s) \/ DrainTimeout(s)
    PROVE  Inv'
<1>0. TypeOK /\ SessionsTyped
  BY DEF Inv, TypeOK, SessionsTyped
<1>1. /\ stop[s] = "entered" /\ stop' = [stop EXCEPT ![s] = "closing"]
      /\ timedOut' \in {timedOut, timedOut \cup {s}}
      /\ Drains(s) => fetch[s] = "done" \/ s \in timedOut'
      /\ UNCHANGED <<process, startMutex, captureSessions, watcherVars, call, reason,
                     fetch, monitor, todo, button>>
  BY DEF StopSession, DrainTimeout
<1>2. call[s].pc = "live"
  BY <1>1 DEF Inv, Registry, LiveSessionsHaveState
<1>3. /\ SessionsTyped' /\ stop'[s] = "closing"
      /\ \A r \in Sessions \ {s} : stop'[r] = stop[r]
  BY <1>0, <1>1 DEF SessionsTyped
<1>4. TypeOK' /\ Registry'
  BY <1>0, <1>1, <1>2, <1>3, SessionStep DEF TypeOK, watcherVars
<1>5. TailsAreDrained'
  <2>1. reason[s] = "processExited" => Drains(s)
    BY DEF Drains
  <2> QED
    BY <1>1, <1>3, <2>1 DEF Inv, Draining, TailsAreDrained
<1>6. MonitorsAwaitStops'
  BY <1>1, <1>3 DEF Inv, Draining, MonitorsAwaitStops
<1>7. WatchersStay
  BY <1>1 DEF WatchersStay, watcherVars
<1> QED
  BY <1>4, <1>5, <1>6, <1>7, WatchersKept DEF Inv, Draining

\* Closing takes the session's own entry, and no other one.
LEMMA CloseSessionKeeps ==
    ASSUME Inv, NEW s \in Sessions, CloseSession(s)
    PROVE  Inv'
<1>0. TypeOK
  BY DEF Inv
<1>1. /\ stop[s] = "closing" /\ stop' = [stop EXCEPT ![s] = "done"]
      /\ captureSessions' = [p \in Pids |->
            IF captureSessions[p] = s THEN None ELSE captureSessions[p]]
      /\ UNCHANGED <<process, startMutex, watcherVars, call, reason, timedOut, fetch,
                     monitor, todo, button>>
  BY DEF CloseSession
<1>2. call[s].pc = "live"
  BY <1>1 DEF Inv, Registry, LiveSessionsHaveState
<1>3. /\ stop' \in [Sessions -> {"no", "entered", "closing", "done"}]
      /\ stop'[s] = "done"
      /\ \A r \in Sessions \ {s} : stop'[r] = stop[r]
  BY <1>0, <1>1 DEF TypeOK
<1>4. /\ captureSessions' \in [Pids -> Sessions \cup {None}]
      /\ \A p \in Pids : captureSessions'[p] =
            IF captureSessions[p] = s THEN None ELSE captureSessions[p]
  BY <1>0, <1>1, RegistryTyped
<1>5. TypeOK'
  BY <1>0, <1>1, <1>3, <1>4 DEF TypeOK, watcherVars
<1>6. \A r \in Sessions : call[r].pid \in Pids
  BY <1>0 DEF TypeOK, CallRecords
<1>7. Registry'
  <2> USE DEF Inv, Registry
  <2>1. OneStartAtATime'
    BY <1>1, <1>4, <1>6 DEF OneStartAtATime
  <2>2. RegisteredSessionsRun'
    BY <1>0, <1>1, <1>3, <1>4, RegistryTyped DEF RegisteredSessionsRun
  <2>3. SessionsAreRegistered'
    BY <1>1, <1>3, <1>4, <1>6, <2>1 DEF SessionsAreRegistered, OneStartAtATime, Holding
  <2>4. LiveSessionsHaveState'
    BY <1>1, <1>2, <1>3 DEF LiveSessionsHaveState
  <2>5. StopsConcernSessions'
    BY <1>1 DEF StopsConcernSessions
  <2>6. ProcessExists'
    BY <1>1 DEF ProcessExists
  <2> QED
    BY <2>1, <2>2, <2>3, <2>4, <2>5, <2>6
<1>8. DrainingStays
  BY <1>1, <1>3 DEF DrainingStays, Closed
<1>9. WatchersStay
  BY <1>1 DEF WatchersStay, watcherVars
<1> QED
  BY <1>5, <1>7, <1>8, <1>9, DrainingKept, WatchersKept DEF Inv

-----------------------------------------------------------------------------
(* fetchDataLoop and monitorProcess.                                       *)

LEMMA FetchKeeps ==
    ASSUME Inv, NEW s \in Sessions, FetchEnds(s) \/ FetchStops(s) \/ FetchReturns(s)
    PROVE  Inv'
<1>0. TypeOK /\ SessionsTyped
  BY DEF Inv, TypeOK, SessionsTyped
<1>1. PICK x \in {"broken", "stopping", "done"} :
          fetch[s] \in {"reading", "broken", "stopping"} /\ fetch' = [fetch EXCEPT ![s] = x]
  BY DEF FetchEnds, FetchStops, FetchReturns
<1>2. UNCHANGED <<process, startMutex, captureSessions, watcherVars, call, timedOut,
                  monitor, todo, button>>
  BY DEF FetchEnds, FetchStops, FetchReturns
<1>3. StopEntered(s)
  <2>1. CASE FetchStops(s)
    BY <2>1, EnteringStop DEF FetchStops
  <2>2. CASE UNCHANGED <<stop, reason>>
    BY <1>0, <2>2 DEF StopEntered, SessionsTyped
  <2> QED
    BY <2>1, <2>2 DEF FetchEnds, FetchReturns
<1>4. call[s].pc = "live"
  BY <1>1 DEF Inv, Registry, LiveSessionsHaveState
<1>5. SessionsTyped' /\ \A r \in Sessions \ {s} : fetch'[r] = fetch[r]
  BY <1>0, <1>1, <1>2, <1>3 DEF SessionsTyped, StopEntered
<1>6. TypeOK' /\ Registry'
  <2>1. \A r \in Sessions : /\ stop'[r] = "done" <=> stop[r] = "done"
                            /\ r # s => /\ stop'[r] = stop[r] /\ fetch'[r] = fetch[r]
                                        /\ monitor'[r] = monitor[r]
    BY <1>2, <1>3, <1>5 DEF StopEntered
  <2>2. /\ restartWatcher' \in Sessions \cup {None} /\ cancelled' = cancelled
        /\ watcher' \in [Sessions -> {"none", "polling", "starting", "started",
                                      "collecting", "done"}]
    BY <1>0, <1>2 DEF TypeOK, watcherVars
  <2> QED
    BY <1>2, <1>4, <1>5, <2>1, <2>2, SessionStep
<1>7. DrainingStays
  BY <1>1, <1>2, <1>3, <1>5 DEF DrainingStays, StopEntered, Closed
<1>8. WatchersStay
  BY <1>2 DEF WatchersStay, watcherVars
<1> QED
  BY <1>6, <1>7, <1>8, DrainingKept, WatchersKept DEF Inv

\* The monitor moves past "stopping" only when the session is closed.
LEMMA MonitorKeeps ==
    ASSUME Inv, NEW s \in Sessions,
           \/ MonitorSeesExit(s) \/ MonitorQuits(s) \/ MonitorStops(s)
           \/ EmitProcessKilledMarker(s)
    PROVE  Inv'
<1>0. TypeOK /\ SessionsTyped
  BY DEF Inv, TypeOK, SessionsTyped
<1>1. PICK x \in {"exited", "stopping", "marked", "done"} :
          /\ monitor' = [monitor EXCEPT ![s] = x]
          /\ monitor[s] \in {"watching", "exited", "stopping"}
          /\ x \in {"marked", "done"} => stop[s] \in Closed
  BY DEF MonitorSeesExit, MonitorQuits, MonitorStops, EmitProcessKilledMarker, Closed
<1>2. UNCHANGED <<process, startMutex, captureSessions, watcherVars, call, timedOut,
                  fetch, todo, button>>
  BY DEF MonitorSeesExit, MonitorQuits, MonitorStops, EmitProcessKilledMarker
<1>3. StopEntered(s)
  <2>1. CASE MonitorStops(s)
    BY <2>1, EnteringStop DEF MonitorStops
  <2>2. CASE UNCHANGED <<stop, reason>>
    BY <1>0, <2>2 DEF StopEntered, SessionsTyped
  <2> QED
    BY <2>1, <2>2 DEF MonitorSeesExit, MonitorQuits, EmitProcessKilledMarker
<1>4. call[s].pc = "live"
  BY <1>1 DEF Inv, Registry, LiveSessionsHaveState
<1>5. /\ SessionsTyped' /\ monitor'[s] = x
      /\ \A r \in Sessions \ {s} : monitor'[r] = monitor[r]
  BY <1>0, <1>1, <1>2, <1>3 DEF SessionsTyped, StopEntered
<1>6. TypeOK' /\ Registry'
  <2>1. \A r \in Sessions : /\ stop'[r] = "done" <=> stop[r] = "done"
                            /\ r # s => /\ stop'[r] = stop[r] /\ fetch'[r] = fetch[r]
                                        /\ monitor'[r] = monitor[r]
    BY <1>2, <1>3, <1>5 DEF StopEntered
  <2>2. /\ restartWatcher' \in Sessions \cup {None} /\ cancelled' = cancelled
        /\ watcher' \in [Sessions -> {"none", "polling", "starting", "started",
                                      "collecting", "done"}]
    BY <1>0, <1>2 DEF TypeOK, watcherVars
  <2> QED
    BY <1>2, <1>4, <1>5, <2>1, <2>2, SessionStep
<1>7. TailsAreDrained'
  BY <1>2, <1>3 DEF Inv, Draining, TailsAreDrained, StopEntered
<1>8. MonitorsAwaitStops'
  BY <1>1, <1>3, <1>5 DEF Inv, Draining, MonitorsAwaitStops, StopEntered, Closed
<1>9. WatchersStay
  BY <1>2 DEF WatchersStay, watcherVars
<1> QED
  BY <1>6, <1>7, <1>8, <1>9, WatchersKept DEF Inv, Draining

\* The entry that a new watcher takes is free: no other watcher needs it.
LEMMA StartRestartWatcherKeeps ==
    ASSUME Inv, NEW s \in Sessions, StartRestartWatcher(s)
    PROVE  Inv'
<1>0. TypeOK /\ SessionsTyped
  BY DEF Inv, TypeOK, SessionsTyped
<1>1. /\ monitor[s] = "marked" /\ monitor' = [monitor EXCEPT ![s] = "done"]
      /\ UNCHANGED <<process, startMutex, captureSessions, cancelled, call, stop, reason,
                     timedOut, fetch, todo, button>>
      /\ \/ /\ restartWatcher = None /\ restartWatcher' = s
            /\ watcher' = [watcher EXCEPT ![s] = "polling"]
         \/ UNCHANGED <<restartWatcher, watcher>>
  BY DEF StartRestartWatcher
<1>2. call[s].pc = "live"
  BY <1>1 DEF Inv, Registry, LiveSessionsHaveState
<1>3. /\ SessionsTyped' /\ monitor'[s] = "done"
      /\ \A r \in Sessions \ {s} : monitor'[r] = monitor[r]
  BY <1>0, <1>1 DEF SessionsTyped
<1>4. /\ watcher' \in [Sessions -> {"none", "polling", "starting", "started",
                                    "collecting", "done"}]
      /\ restartWatcher' \in Sessions \cup {None}
      /\ \A w \in Sessions \ {s} : watcher'[w] = watcher[w]
  BY <1>0, <1>1 DEF TypeOK
<1>5. TypeOK' /\ Registry'
  BY <1>1, <1>2, <1>3, <1>4, SessionStep
<1>6. DrainingStays
  BY <1>1, <1>3 DEF DrainingStays
<1>7. WatchersAreRegistered'
  <2>1. CASE UNCHANGED <<restartWatcher, watcher>>
    BY <1>1, <2>1 DEF Inv, WatchersAreRegistered
  <2>2. CASE restartWatcher = None /\ restartWatcher' = s
    <3>1. \A w \in Sessions : watcher[w] \in {"polling", "starting"} => w \in cancelled
      BY <2>2, NameAssumption DEF Inv, WatchersAreRegistered
    <3> QED
      BY <1>1, <1>4, <2>2, <3>1 DEF WatchersAreRegistered
  <2> QED
    BY <1>1, <2>1, <2>2
<1> QED
  BY <1>5, <1>6, <1>7, DrainingKept DEF Inv

-----------------------------------------------------------------------------
(* HiProfilerRestartWatcher.run.                                           *)

\* One watcher moves.
WatcherMoves(w, pc) ==
    /\ watcher' \in [Sessions -> {"none", "polling", "starting", "started",
                                  "collecting", "done"}]
    /\ watcher'[w] = pc
    /\ \A v \in Sessions \ {w} : watcher'[v] = watcher[v]

LEMMA WatcherGoes ==
    ASSUME Inv, NEW w \in Sessions,
           NEW pc \in {"polling", "starting", "started", "collecting", "done"},
           watcher' = [watcher EXCEPT ![w] = pc]
    PROVE  WatcherMoves(w, pc)
<1>1. watcher \in [Sessions -> {"none", "polling", "starting", "started",
                                "collecting", "done"}]
  BY DEF Inv, TypeOK
<1> QED
  BY <1>1 DEF WatcherMoves

\* A step of a watcher that starts nothing.
LEMMA WatcherStep ==
    ASSUME Inv, NEW w \in Sessions, NEW pc \in {"polling", "started", "collecting", "done"},
           WatcherMoves(w, pc), watcher[w] \in {"polling", "starting", "started", "collecting"},
           pc = "polling" => watcher[w] = "starting",
           \/ UNCHANGED restartWatcher
           \/ restartWatcher = w /\ restartWatcher' = None /\ pc = "done",
           todo' \in [Threads -> Worklists],
           \A u \in Threads : \A s \in todo'[u].sessions :
              s \in Sessions /\ call[s].pc = "live",
           call' \in [Sessions -> CallRecords],
           \A s \in Sessions : \/ call'[s] = call[s]
                               \/ call[s].pc = "failed" /\ call'[s].pc = "unused",
           UNCHANGED <<process, startMutex, captureSessions, cancelled, sessionVars, button>>
    PROVE  Inv'
<1>1. TypeOK'
  BY DEF Inv, TypeOK, WatcherMoves, sessionVars
<1>2. RegistryStays
  BY DEF RegistryStays, Inv, Registry, ProcessExists, Holding, sessionVars
<1>3. DrainingStays
  BY DEF DrainingStays, sessionVars
<1>4. WatchersAreRegistered'
  BY NameAssumption DEF WatcherMoves, Inv, WatchersAreRegistered
<1> QED
  BY <1>1, <1>2, <1>3, <1>4, RegistryKept, DrainingKept DEF Inv

\* A step of a watcher alone.
LEMMA QuietWatchersKeep ==
    ASSUME Inv, NEW w \in Sessions,
           WatcherQuits(w) \/ WatcherDeregisters(w) \/ WatcherCollected(w)
    PROVE  Inv'
<1>1. /\ watcher[w] \in {"polling", "started", "collecting"}
      /\ watcher' = [watcher EXCEPT ![w] = "done"]
      /\ \/ UNCHANGED restartWatcher
         \/ restartWatcher = w /\ restartWatcher' = None
      /\ UNCHANGED <<process, startMutex, captureSessions, cancelled, call, sessionVars,
                     todo, button>>
  BY DEF WatcherQuits, WatcherDeregisters, WatcherCollected
<1>2. WatcherMoves(w, "done")
  BY <1>1, WatcherGoes
<1>3. /\ call' \in [Sessions -> CallRecords]
      /\ todo' \in [Threads -> Worklists]
      /\ \A u \in Threads : \A s \in todo'[u].sessions : s \in Sessions /\ call[s].pc = "live"
  BY <1>1, WorkIsLive DEF Inv, TypeOK
<1> QED
  BY <1>1, <1>2, <1>3, WatcherStep

LEMMA WatcherRestartsKeeps ==
    ASSUME Inv, NEW w \in Sessions, NEW s \in Sessions, WatcherRestarts(w, s)
    PROVE  Inv'
<1>1. /\ watcher[w] = "polling" /\ call[s].pc = "unused" /\ process.up
      /\ Call(s, w) /\ watcher' = [watcher EXCEPT ![w] = "starting"]
      /\ UNCHANGED <<process, startMutex, captureSessions, restartWatcher, cancelled,
                     sessionVars, todo, button>>
  BY DEF WatcherRestarts
<1>2. /\ call' \in [Sessions -> CallRecords]
      /\ call'[s].pc = "queued"
      /\ \A r \in Sessions \ {s} : call'[r] = call[r]
  BY <1>1, CallBegins DEF Threads
<1>3. WatcherMoves(w, "starting")
  BY <1>1, WatcherGoes
<1>4. TypeOK'
  BY <1>1, <1>2, <1>3 DEF Inv, TypeOK, WatcherMoves, sessionVars
<1>5. RegistryStays
  BY <1>1, <1>2, WorkIsLive
  DEF RegistryStays, Holding, Inv, Registry, ProcessExists, sessionVars
<1>6. DrainingStays
  BY <1>1 DEF DrainingStays, sessionVars
<1>7. WatchersStay
  BY <1>1, <1>3 DEF WatchersStay, WatcherMoves
<1> QED
  BY <1>4, <1>5, <1>6, <1>7, RegistryKept, DrainingKept, WatchersKept DEF Inv

LEMMA WatcherReturnsKeeps ==
    ASSUME Inv, NEW w \in Sessions, NEW s \in Sessions, WatcherReturns(w, s)
    PROVE  Inv'
<1>1. /\ watcher[w] = "starting"
      /\ UNCHANGED <<process, startMutex, captureSessions, restartWatcher, cancelled,
                     sessionVars, button>>
  BY DEF WatcherReturns
<1>2. call \in [Sessions -> CallRecords]
  BY DEF Inv, TypeOK
<1>3. CASE /\ call[s].pc = "failed" /\ call' = [call EXCEPT ![s].pc = "unused"]
           /\ watcher' = [watcher EXCEPT ![w] = IF w \in cancelled THEN "done" ELSE "polling"]
           /\ UNCHANGED todo
  <2>1. PICK pc \in {"done", "polling"} : watcher' = [watcher EXCEPT ![w] = pc]
    BY <1>3
  <2>2. WatcherMoves(w, pc)
    BY <2>1, WatcherGoes
  <2>3. Moves(s, "unused")
    BY <1>3, CallMoves DEF Inv, CallPcs
  <2>4. \A r \in Sessions : \/ call'[r] = call[r]
                            \/ call[r].pc = "failed" /\ call'[r].pc = "unused"
    BY <1>2, <1>3, <2>3 DEF Moves
  <2>5. /\ todo' \in [Threads -> Worklists]
        /\ \A u \in Threads : \A r \in todo'[u].sessions : r \in Sessions /\ call[r].pc = "live"
    BY <1>3, WorkIsLive
  <2> QED
    BY <1>1, <2>2, <2>3, <2>4, <2>5, WatcherStep DEF Moves
<1>4. CASE /\ call[s].pc = "live" /\ UNCHANGED call
           /\ watcher' = [watcher EXCEPT ![w] = "collecting"]
           /\ todo' = [todo EXCEPT ![w] = Matching(call[s].pid)]
  <2>1. call[s].pid \in Pids /\ w \in Threads
    BY <1>2 DEF CallRecords, Threads
  <2>2. /\ todo' \in [Threads -> Worklists]
        /\ \A u \in Threads : \A r \in todo'[u].sessions : r \in Sessions /\ call[r].pc = "live"
    BY <1>4, <2>1, SnapshotsAreLive, WorkBegins
  <2>3. WatcherMoves(w, "collecting")
    BY <1>4, WatcherGoes
  <2> QED
    BY <1>1, <1>2, <1>4, <2>2, <2>3, WatcherStep
<1>5. CASE /\ UNCHANGED <<call, todo>>
           /\ watcher' = [watcher EXCEPT ![w] = "started"]
  <2>1. WatcherMoves(w, "started")
    BY <1>5, WatcherGoes
  <2>2. /\ todo' \in [Threads -> Worklists]
        /\ \A u \in Threads : \A r \in todo'[u].sessions : r \in Sessions /\ call[r].pc = "live"
    BY <1>5, WorkIsLive
  <2> QED
    BY <1>1, <1>2, <1>5, <2>1, <2>2, WatcherStep
<1> QED
  BY <1>3, <1>4, <1>5 DEF WatcherReturns

-----------------------------------------------------------------------------
(* StopCapture and StopAllCaptures.                                        *)

\* A worklist that gets shorter.
LEMMA WorkShrinks ==
    ASSUME Inv, NEW t \in Threads, NEW W \in Worklists,
           W.sessions \subseteq todo[t].sessions, todo' = [todo EXCEPT ![t] = W]
    PROVE  /\ todo' \in [Threads -> Worklists]
           /\ \A u \in Threads : \A s \in todo'[u].sessions :
                 s \in Sessions /\ call[s].pc = "live"
<1>1. \A s \in W.sessions : call[s].pc = "live"
  BY WorkIsLive
<1> QED
  BY <1>1, WorkBegins

\* The entry goes with the watcher whose stopCh is closed, and with no other.
LEMMA StopWatcherKeeps ==
    ASSUME Inv, NEW t \in Threads, StopWatcher(t)
    PROVE  Inv'
<1> DEFINE w == todo[t].watcher
<1>1. /\ w # None /\ todo' = [todo EXCEPT ![t].watcher = None]
      /\ cancelled' = cancelled \cup {w}
      /\ restartWatcher' = IF restartWatcher = w THEN None ELSE restartWatcher
      /\ UNCHANGED <<process, startMutex, captureSessions, watcher, call, sessionVars, button>>
  BY DEF StopWatcher
<1>2. todo[t] \in Worklists
  BY WorkIsLive
<1>3. w \in Sessions
  BY <1>1, <1>2 DEF Worklists
<1>4. /\ todo' \in [Threads -> Worklists]
      /\ \A u \in Threads : \A s \in todo'[u].sessions : s \in Sessions /\ call[s].pc = "live"
  <2> DEFINE W == [todo[t] EXCEPT !.watcher = None]
  <2>1. W \in Worklists
    BY <1>2 DEF Worklists
  <2>2. W.sessions = todo[t].sessions
    BY <1>2 DEF Worklists
  <2>3. todo' = [todo EXCEPT ![t] = W]
    BY <1>1
  <2> HIDE DEF W
  <2> QED
    BY <2>1, <2>2, <2>3, WorkShrinks
<1> HIDE DEF w
<1>5. TypeOK'
  BY <1>1, <1>3, <1>4 DEF Inv, TypeOK, sessionVars
<1>6. RegistryStays
  BY <1>1, <1>4 DEF RegistryStays, Inv, Registry, ProcessExists, sessionVars
<1>7. DrainingStays
  BY <1>1 DEF DrainingStays, sessionVars
<1>8. WatchersAreRegistered'
  BY <1>1 DEF Inv, WatchersAreRegistered
<1> QED
  BY <1>5, <1>6, <1>7, <1>8, RegistryKept, DrainingKept DEF Inv

LEMMA StopNextKeeps ==
    ASSUME Inv, NEW t \in Threads, NEW s \in Sessions, StopNext(t, s)
    PROVE  Inv'
<1>0. TypeOK /\ SessionsTyped
  BY DEF Inv, TypeOK, SessionsTyped
<1>1. /\ s \in todo[t].sessions /\ EnterStop(s, "manual")
      /\ UNCHANGED <<process, startMutex, captureSessions, watcherVars, call, timedOut,
                     fetch, monitor, todo, button>>
  BY DEF StopNext
<1>2. StopEntered(s)
  BY <1>1, EnteringStop
<1>3. call[s].pc = "live"
  BY <1>1, WorkIsLive
<1>4. SessionsTyped'
  BY <1>0, <1>1, <1>2 DEF SessionsTyped, StopEntered
<1>5. TypeOK' /\ Registry'
  <2>1. \A r \in Sessions : /\ stop'[r] = "done" <=> stop[r] = "done"
                            /\ r # s => /\ stop'[r] = stop[r] /\ fetch'[r] = fetch[r]
                                        /\ monitor'[r] = monitor[r]
    BY <1>1, <1>2 DEF StopEntered
  <2>2. /\ restartWatcher' \in Sessions \cup {None} /\ cancelled' = cancelled
        /\ watcher' \in [Sessions -> {"none", "polling", "starting", "started",
                                      "collecting", "done"}]
    BY <1>0, <1>1 DEF TypeOK, watcherVars
  <2> QED
    BY <1>1, <1>3, <1>4, <2>1, <2>2, SessionStep
<1>6. DrainingStays
  BY <1>1, <1>2 DEF DrainingStays, StopEntered, Closed
<1>7. WatchersStay
  BY <1>1 DEF WatchersStay, watcherVars
<1> QED
  BY <1>5, <1>6, <1>7, DrainingKept, WatchersKept DEF Inv

LEMMA StopReturnsKeeps ==
    ASSUME Inv, NEW t \in Threads, NEW s \in Sessions, StopReturns(t, s)
    PROVE  Inv'
<1>1. /\ todo' = [todo EXCEPT ![t].sessions = @ \ {s}]
      /\ UNCHANGED <<process, startMutex, captureSessions, watcherVars, call, sessionVars,
                     button>>
  BY DEF StopReturns
<1>2. /\ todo' \in [Threads -> Worklists]
      /\ \A u \in Threads : \A r \in todo'[u].sessions : r \in Sessions /\ call[r].pc = "live"
  <2>1. todo[t] \in Worklists
    BY WorkIsLive
  <2> DEFINE W == [todo[t] EXCEPT !.sessions = @ \ {s}]
  <2>2. W \in Worklists
    BY <2>1 DEF Worklists
  <2>3. W.sessions = todo[t].sessions \ {s}
    BY <2>1 DEF Worklists
  <2>4. todo' = [todo EXCEPT ![t] = W]
    BY <1>1
  <2> HIDE DEF W
  <2> QED
    BY <2>2, <2>3, <2>4, WorkShrinks
<1>3. TypeOK'
  BY <1>1, <1>2 DEF Inv, TypeOK, watcherVars, sessionVars
<1>4. RegistryStays
  BY <1>1, <1>2 DEF RegistryStays, Inv, Registry, ProcessExists, sessionVars
<1> QED
  BY <1>1, <1>3, <1>4, NothingElseMoves, RegistryKept, DrainingKept, WatchersKept DEF Inv

-----------------------------------------------------------------------------
(* The invariant.                                                          *)

LEMMA FirstPid == 0 \in 0 .. MaxPid /\ 1 \in Pids
<1>1. MaxPid \in Nat /\ MaxPid # 0
  BY PidAssumption
<1> QED
  BY <1>1 DEF Pids

LEMMA Establishes ==
    ASSUME Init
    PROVE  Inv
<1> USE DEF Init
<1>1. TypeOK
  <2>1. 0 \in 0 .. MaxPid /\ 1 \in Pids
    BY FirstPid
  <2>2. User \in Threads
    BY DEF Threads
  <2>3. [pc |-> "unused", thread |-> User, pid |-> 1] \in CallRecords /\ Nothing \in Worklists
    BY <2>1, <2>2 DEF CallRecords, Nothing, Worklists
  <2> QED
    BY <2>1, <2>3 DEF TypeOK
<1>2. Registry
  BY DEF Registry, OneStartAtATime, RegisteredSessionsRun, SessionsAreRegistered,
         LiveSessionsHaveState, StopsConcernSessions, ProcessExists, Holding, Nothing
<1>3. Draining
  BY DEF Draining, TailsAreDrained, MonitorsAwaitStops
<1>4. WatchersAreRegistered
  BY DEF WatchersAreRegistered
<1> QED
  BY <1>1, <1>2, <1>3, <1>4 DEF Inv

LEMMA Preserves ==
    ASSUME Inv, [Next]_vars
    PROVE  Inv'
<1>1. CASE ProcessStarts \/ ProcessExits \/ Handling \/ \E p \in Pids : PressStop(p)
  BY <1>1, ProcessKeeps, StopButtonKeeps
<1>2. ASSUME NEW s \in Sessions, StartCapture(s) \/ Starting(s) \/ Stopping(s)
      PROVE  Inv'
  BY <1>2, StartCaptureKeeps, StartingKeeps, StopSessionKeeps, CloseSessionKeeps
  DEF Stopping
<1>3. ASSUME NEW s \in Sessions,
             FetchEnds(s) \/ FetchStops(s) \/ FetchReturns(s) \/ Monitoring(s)
      PROVE  Inv'
  BY <1>3, FetchKeeps, MonitorKeeps, StartRestartWatcherKeeps DEF Monitoring
<1>4. ASSUME NEW w \in Sessions, Watching(w)
      PROVE  Inv'
  BY <1>4, QuietWatchersKeep, WatcherRestartsKeeps, WatcherReturnsKeeps DEF Watching
<1>5. ASSUME NEW t \in Threads, Collecting(t)
      PROVE  Inv'
  BY <1>5, StopWatcherKeeps, StopNextKeeps, StopReturnsKeeps DEF Collecting
<1>6. CASE UNCHANGED vars
  <2>1. TypeOK'
    BY <1>6 DEF vars, Inv, TypeOK
  <2>2. RegistryStays
    BY <1>6, WorkIsLive DEF vars, RegistryStays, Inv, Registry, ProcessExists
  <2>3. DrainingStays /\ WatchersStay
    BY <1>6 DEF vars, DrainingStays, WatchersStay
  <2> QED
    BY <2>1, <2>2, <2>3, RegistryKept, DrainingKept, WatchersKept DEF Inv
<1> QED
  BY <1>1, <1>2, <1>3, <1>4, <1>5, <1>6 DEF Next

\* The inductive invariant holds in every reachable state.
THEOREM Invariance == Spec => []Inv
<1>1. Init => Inv
  BY Establishes
<1>2. Inv /\ [Next]_vars => Inv'
  BY Preserves
<1> QED
  BY <1>1, <1>2, PTL DEF Spec

\* The variables have their types.
THEOREM TypeCorrectness == Spec => []TypeOK
<1>1. Inv => TypeOK
  BY DEF Inv
<1> QED
  BY <1>1, Invariance, PTL

\* A session is in the registry until it is wound down, so that a stop finds
\* it, however many threads call startCapture at once.
THEOREM SessionsCanBeStopped == Spec => []SessionsAreRegistered
<1>1. Inv => SessionsAreRegistered
  BY DEF Inv, Registry
<1> QED
  BY <1>1, Invariance, PTL

\* And the registry names nothing else: CloseSession removes what it stopped.
THEOREM OnlySessionsAreRegistered == Spec => []RegisteredSessionsRun
<1>1. Inv => RegisteredSessionsRun
  BY DEF Inv, Registry
<1> QED
  BY <1>1, Invariance, PTL

\* A watcher that may still start a capture, and that nobody stopped, is in
\* the registry, however watchers begin, end and are stopped.
THEOREM WatchersCanBeStopped == Spec => []WatchersAreRegistered
<1>1. Inv => WatchersAreRegistered
  BY DEF Inv
<1> QED
  BY <1>1, Invariance, PTL

\* The marker of a process exit comes after the requests of the tail batch,
\* unless draining timed out, whoever stops the session first.
THEOREM MarkersFollowTheTail == Spec => []MarkerFollowsTail
<1>1. Inv => MarkerFollowsTail
  BY DEF Inv, Draining, TailsAreDrained, MonitorsAwaitStops, MarkerFollowsTail
<1> QED
  BY <1>1, Invariance, PTL
=============================================================================
