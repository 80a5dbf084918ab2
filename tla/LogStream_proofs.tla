-------------------------- MODULE LogStream_proofs ----------------------------
(* NoStreamIsLeftBehind and StreamsAreCurrent for any number of hooks,       *)
(* devices and filters.                                                      *)
(*                                                                           *)
(* A process of the backend always has a holder: a hook whose                *)
(* activeStreamRef names its device, a hook that is about to stop it, or a   *)
(* stop call under way.  No step lets go of a process without passing it on, *)
(* except the hand-over to another window, which is excluded there.          *)
(*                                                                           *)
(* A page that says it streams is at any time either up to date or about to  *)
(* start again: its timer is set, or a start is in progress that knows when  *)
(* it is overtaken.  This holds with hand-overs too.                         *)
EXTENDS LogStream, TLAPS

(* A hook that holds the process of a device by its refs or by its call.     *)
Keeps(k, d) ==
    \/ k.active = d
    \/ k.pc \in {"stopping", "undo"} /\ k.key = d

Holds(h, d) == Keeps(hook[h], d) \/ <<h, d>> \in stops

(* A hook names a stream only while it is mounted and starts no other one;   *)
(* a start that goes on without its page knows that it is overtaken.         *)
Sound(k) ==
    /\ k.active # None => k.mounted /\ k.pc = "idle"
    /\ ~k.mounted => ~k.timer /\ (k.pc # "idle" => k.stale)

StreamInv ==
    /\ TypeOK
    /\ \A h \in Hooks : Sound(hook[h])
    /\ \A d \in Devices : stream[d] # None => \E h \in Hooks : Holds(h, d)

StreamAssumption == None \notin Devices /\ Pids # {}

LEMMA AnyPidsIsOne == ASSUME StreamAssumption PROVE AnyPids \in Pids
  BY DEF StreamAssumption, AnyPids

LEMMA UnmountedIsSound ==
    ASSUME StreamAssumption
    PROVE  Unmounted \in HookRecord /\ Sound(Unmounted)
  BY AnyPidsIsOne DEF Unmounted, HookRecord, Sound

LEMMA InitStreamInv == ASSUME StreamAssumption, Init PROVE StreamInv
  BY UnmountedIsSound DEF Init, StreamInv, TypeOK

(* A start passes the stream that its hook holds on to its first step, which *)
(* stops it.                                                                 *)
LEMMA BeginKeeps ==
    ASSUME NEW k \in HookRecord, Sound(k), k.mounted
    PROVE  /\ BeginStart(k) \in HookRecord
           /\ Sound(BeginStart(k))
           /\ \A d \in Devices : Keeps(k, d) => Keeps(BeginStart(k), d)
<1>1. CASE k.device = None
  BY <1>1 DEF BeginStart
<1>2. CASE k.device # None /\ k.pc # "idle"
  BY <1>2 DEF BeginStart, HookRecord, Sound, Keeps
<1>3. CASE k.device # None /\ k.pc = "idle"
  BY <1>3 DEF BeginStart, HookRecord, Sound, Keeps
<1> QED BY <1>1, <1>2, <1>3

(* The end of a start leaves the stream that it has started to its hook, or  *)
(* to the start that follows.                                                *)
LEMMA FinishKeeps ==
    ASSUME StreamAssumption, NEW k \in HookRecord,
           k.active # None => k.mounted, ~k.mounted => ~k.timer
    PROVE  /\ FinishStart(k) \in HookRecord
           /\ Sound(FinishStart(k))
           /\ \A d \in Devices : k.active = d => Keeps(FinishStart(k), d)
<1> DEFINE done == [k EXCEPT !.pc = "idle", !.key = None, !.opts = AnyPids,
                             !.stale = FALSE, !.pending = FALSE]
<1>1. done \in HookRecord /\ Sound(done) /\ done.mounted = k.mounted
  BY AnyPidsIsOne DEF HookRecord, Sound
<1>2. \A d \in Devices : k.active = d => Keeps(done, d)
  BY DEF HookRecord, Keeps
<1>3. FinishStart(k) = IF k.pending /\ k.mounted THEN BeginStart(done) ELSE done
  BY DEF FinishStart
<1> HIDE DEF done
<1> QED BY <1>1, <1>2, <1>3, BeginKeeps

(* One hook changes: it stays sound and keeps what it held, or the process   *)
(* is gone, or a stop call is on its way.                                    *)
LEMMA HookStep ==
    ASSUME StreamInv, NEW h \in Hooks, NEW n \in HookRecord, Sound(n),
           hook' = [hook EXCEPT ![h] = n],
           stream' \in [Devices -> [by : Hooks, pids : Pids] \cup {None}],
           stops' \subseteq Hooks \X Devices,
           stops \subseteq stops',
           \A d \in Devices : stream'[d] # None =>
               \/ Keeps(n, d) \/ <<h, d>> \in stops'
               \/ stream[d] # None /\ ~Keeps(hook[h], d)
    PROVE  StreamInv'
<1>1. TypeOK'
  BY DEF StreamInv, TypeOK
<1>2. \A g \in Hooks : hook'[g] = IF g = h THEN n ELSE hook[g]
  BY DEF StreamInv, TypeOK
<1>3. ASSUME NEW d \in Devices, stream'[d] # None
      PROVE  \E g \in Hooks : Keeps(hook'[g], d) \/ <<g, d>> \in stops'
  <2>1. CASE Keeps(n, d) \/ <<h, d>> \in stops'
    BY <1>2, <2>1
  <2>2. CASE stream[d] # None /\ ~Keeps(hook[h], d)
    <3>1. PICK g \in Hooks : Keeps(hook[g], d) \/ <<g, d>> \in stops
      BY <2>2 DEF StreamInv, Holds
    <3> QED BY <1>2, <2>2, <3>1
  <2> QED BY <1>3, <2>1, <2>2
<1>4. \A g \in Hooks : Sound(hook'[g])
  BY <1>2 DEF StreamInv
<1> QED BY <1>1, <1>3, <1>4 DEF StreamInv, Holds

-----------------------------------------------------------------------------
(* The steps of a start.                                                     *)

LEMMA StopReturnsKeeps ==
    ASSUME StreamAssumption, StreamInv, NEW h \in Hooks, StopReturns(h)
    PROVE  StreamInv'
<1> DEFINE n == [hook[h] EXCEPT !.pc = "delay", !.streaming = FALSE]
<1>1. hook[h] \in HookRecord /\ Sound(hook[h])
  BY DEF StreamInv, TypeOK
<1>2. n \in HookRecord /\ Sound(n)
  BY <1>1 DEF StopReturns, HookRecord, Sound
<1>3. /\ hook' = [hook EXCEPT ![h] = n]
      /\ stream' = [stream EXCEPT ![hook[h].key] = None]
      /\ stops' = stops
      /\ hook[h].pc = "stopping"
  BY DEF StopReturns
<1>4. /\ stream' \in [Devices -> [by : Hooks, pids : Pids] \cup {None}]
      /\ stops' \subseteq Hooks \X Devices
  BY <1>3 DEF StreamInv, TypeOK
<1>5. ASSUME NEW d \in Devices, stream'[d] # None
      PROVE  stream[d] # None /\ ~Keeps(hook[h], d)
  BY <1>1, <1>3, <1>5 DEF StreamAssumption, StreamInv, TypeOK, Sound, Keeps
<1> HIDE DEF n
<1> QED BY <1>2, <1>3, <1>4, <1>5, HookStep

LEMMA DelayElapsedKeeps ==
    ASSUME StreamAssumption, StreamInv, NEW h \in Hooks, DelayElapsed(h)
    PROVE  StreamInv'
<1> DEFINE k == hook[h]
           goes == [k EXCEPT !.pc = "starting", !.key = k.device,
                             !.opts = k.pids, !.streaming = TRUE, !.paused = FALSE,
                             !.subscribed = TRUE]
           n == IF k.stale \/ ~k.mounted \/ k.device = None THEN FinishStart(k)
                ELSE goes
<1>1. k \in HookRecord /\ Sound(k) /\ k.pc = "delay"
  BY DEF StreamInv, TypeOK, DelayElapsed
<1>2. k.active = None /\ \A d \in Devices : ~Keeps(k, d)
  BY <1>1 DEF StreamAssumption, Sound, Keeps
<1>3. FinishStart(k) \in HookRecord /\ Sound(FinishStart(k))
  BY <1>1, FinishKeeps DEF Sound
<1>4. CASE ~(k.stale \/ ~k.mounted \/ k.device = None)
  <2>1. goes \in HookRecord /\ Sound(goes)
    BY <1>1, <1>2, <1>4 DEF HookRecord, Sound
  <2> QED BY <1>1, <1>2, <1>4, <2>1, HookStep DEF DelayElapsed, StreamInv, TypeOK
<1>5. CASE k.stale \/ ~k.mounted \/ k.device = None
  <2>1. hook' = [hook EXCEPT ![h] = FinishStart(k)] /\ UNCHANGED <<stream, stops>>
    BY <1>5 DEF DelayElapsed
  <2> HIDE DEF k
  <2>2. \A d \in Devices : ~Keeps(hook[h], d)
    BY <1>2 DEF k
  <2> QED BY <1>3, <2>1, <2>2, HookStep DEF StreamInv, TypeOK
<1> QED BY <1>4, <1>5

LEMMA StartReturnsKeeps ==
    ASSUME StreamAssumption, StreamInv, NEW h \in Hooks, StartReturns(h)
    PROVE  StreamInv'
<1> DEFINE k == hook[h]
           good == FinishStart([k EXCEPT !.active = k.key])
           bad == FinishStart([k EXCEPT !.subscribed = FALSE, !.streaming = FALSE])
           undo == [k EXCEPT !.pc = "undo"]
<1>1. k \in HookRecord /\ Sound(k) /\ k.pc = "starting" /\ k.active = None
  BY DEF StreamInv, TypeOK, StartReturns, Sound
<1>2. undo \in HookRecord /\ Sound(undo)
  BY <1>1 DEF HookRecord, Sound
<1>3. bad \in HookRecord /\ Sound(bad)
  <2> DEFINE left == [k EXCEPT !.subscribed = FALSE, !.streaming = FALSE]
  <2>1. left \in HookRecord /\ left.active = None /\ (~left.mounted => ~left.timer)
    BY <1>1 DEF HookRecord, Sound
  <2> HIDE DEF left
  <2> QED BY <2>1, FinishKeeps DEF left
<1>4. ASSUME ~k.stale
      PROVE  /\ good \in HookRecord /\ Sound(good)
             /\ \A d \in Devices : d = k.key => Keeps(good, d)
  <2> DEFINE left == [k EXCEPT !.active = k.key]
  <2>1. left \in HookRecord /\ left.mounted /\ left.active = k.key
    BY <1>1, <1>4 DEF HookRecord, Sound
  <2> HIDE DEF left
  <2> QED BY <2>1, FinishKeeps DEF left
<1>5. PICK ok \in BOOLEAN :
          /\ stream' = [stream EXCEPT ![k.key] =
                            IF ok THEN [by |-> h, pids |-> k.opts] ELSE None]
          /\ hook' = [hook EXCEPT ![h] = IF k.stale THEN undo
                                         ELSE IF ok THEN good ELSE bad]
          /\ stops' = stops
  BY DEF StartReturns
<1>6. /\ stream' \in [Devices -> [by : Hooks, pids : Pids] \cup {None}]
      /\ stops' \subseteq Hooks \X Devices
  <2>1. [by |-> h, pids |-> k.opts] \in [by : Hooks, pids : Pids]
    BY <1>1 DEF HookRecord
  <2> QED BY <1>5, <2>1 DEF StreamInv, TypeOK
<1>7. \A d \in Devices : stream'[d] # None /\ d # k.key => stream[d] # None
  BY <1>5 DEF StreamInv, TypeOK
<1>8. \A d \in Devices : ~Keeps(hook[h], d)
  BY <1>1 DEF StreamAssumption, Keeps
<1>9. CASE k.stale
  <2>1. \A d \in Devices : d = k.key => Keeps(undo, d)
    BY <1>1 DEF Keeps, HookRecord
  <2>2. hook' = [hook EXCEPT ![h] = undo]
    BY <1>5, <1>9
  <2> HIDE DEF undo, k
  <2> QED BY <1>2, <1>5, <1>6, <1>7, <1>8, <2>1, <2>2, HookStep
<1>10. CASE ~k.stale /\ ok
  <2>1. hook' = [hook EXCEPT ![h] = good]
    BY <1>5, <1>10
  <2>2. good \in HookRecord /\ Sound(good) /\ \A d \in Devices : d = k.key => Keeps(good, d)
    BY <1>4, <1>10
  <2> HIDE DEF good, k
  <2> QED BY <1>5, <1>6, <1>7, <1>8, <2>1, <2>2, HookStep
<1>11. CASE ~k.stale /\ ~ok
  <2>1. hook' = [hook EXCEPT ![h] = bad]
    BY <1>5, <1>11
  <2>2. \A d \in Devices : stream'[d] # None => d # k.key
    BY <1>5, <1>11 DEF StreamInv, TypeOK
  <2> HIDE DEF bad, k
  <2> QED BY <1>3, <1>5, <1>6, <1>7, <1>8, <2>1, <2>2, HookStep
<1> QED BY <1>9, <1>10, <1>11

LEMMA UndoReturnsKeeps ==
    ASSUME StreamAssumption, StreamInv, NEW h \in Hooks, UndoReturns(h)
    PROVE  StreamInv'
<1> DEFINE k == hook[h]
           left == [k EXCEPT !.subscribed = FALSE]
           n == FinishStart(left)
<1>1. k \in HookRecord /\ Sound(k) /\ k.pc = "undo" /\ k.active = None
  BY DEF StreamInv, TypeOK, UndoReturns, Sound
<1>2. left \in HookRecord /\ left.active = None /\ (~left.mounted => ~left.timer)
  BY <1>1 DEF HookRecord, Sound
<1>3. /\ hook' = [hook EXCEPT ![h] = n]
      /\ stream' = [stream EXCEPT ![k.key] = None]
      /\ stops' = stops
  BY DEF UndoReturns
<1>4. n \in HookRecord /\ Sound(n)
  <2> HIDE DEF left
  <2> QED BY <1>2, FinishKeeps
<1>5. /\ stream' \in [Devices -> [by : Hooks, pids : Pids] \cup {None}]
      /\ stops' \subseteq Hooks \X Devices
  BY <1>3 DEF StreamInv, TypeOK
<1>6. ASSUME NEW d \in Devices, stream'[d] # None
      PROVE  stream[d] # None /\ ~Keeps(hook[h], d)
  BY <1>1, <1>3, <1>6 DEF StreamAssumption, StreamInv, TypeOK, Keeps
<1> HIDE DEF n
<1> QED BY <1>3, <1>4, <1>5, <1>6, HookStep

-----------------------------------------------------------------------------
(* The steps of the page.                                                    *)

(* The page changes its hook and sends stop calls; the processes go on.      *)
LEMMA PageStep ==
    ASSUME StreamInv, NEW h \in Hooks, NEW n \in HookRecord, Sound(n),
           hook' = [hook EXCEPT ![h] = n], UNCHANGED stream,
           stops \subseteq stops', stops' \subseteq Hooks \X Devices,
           \A d \in Devices :
               Keeps(hook[h], d) => Keeps(n, d) \/ <<h, d>> \in stops'
    PROVE  StreamInv'
<1>1. stream' \in [Devices -> [by : Hooks, pids : Pids] \cup {None}]
  BY DEF StreamInv, TypeOK
<1>2. \A d \in Devices : stream'[d] # None =>
          \/ Keeps(n, d) \/ <<h, d>> \in stops'
          \/ stream[d] # None /\ ~Keeps(hook[h], d)
  OBVIOUS
<1> QED BY <1>1, <1>2, HookStep

LEMMA MountKeeps ==
    ASSUME StreamAssumption, StreamInv, NEW h \in Hooks,
           NEW d \in Devices \cup {None}, Mount(h, d)
    PROVE  StreamInv'
<1> DEFINE n == [Unmounted EXCEPT !.mounted = TRUE, !.device = d,
                                  !.timer = (d # None)]
<1>1. n \in HookRecord /\ Sound(n)
  BY AnyPidsIsOne DEF Unmounted, HookRecord, Sound
<1>2. Sound(hook[h]) /\ ~hook[h].mounted /\ hook[h].pc = "idle"
  BY DEF StreamInv, Mount
<1>3. \A e \in Devices : ~Keeps(hook[h], e)
  BY <1>2 DEF StreamAssumption, Sound, Keeps
<1>4. hook' = [hook EXCEPT ![h] = n] /\ UNCHANGED <<stream, stops>>
  BY DEF Mount
<1> HIDE DEF n
<1> QED BY <1>1, <1>3, <1>4, PageStep DEF StreamInv, TypeOK

LEMMA SelectDeviceKeeps ==
    ASSUME StreamAssumption, StreamInv, NEW h \in Hooks,
           NEW d \in Devices \cup {None}, SelectDevice(h, d)
    PROVE  StreamInv'
<1> DEFINE n == [hook[h] EXCEPT !.device = d, !.timer = (d # None)]
<1>1. hook[h] \in HookRecord /\ Sound(hook[h]) /\ hook[h].mounted
  BY DEF StreamInv, TypeOK, SelectDevice
<1>2. n \in HookRecord /\ Sound(n) /\ \A e \in Devices : Keeps(hook[h], e) => Keeps(n, e)
  BY <1>1 DEF HookRecord, Sound, Keeps
<1>3. hook' = [hook EXCEPT ![h] = n] /\ UNCHANGED <<stream, stops>>
  BY <1>1 DEF SelectDevice, HookRecord, StreamInv, TypeOK
<1> HIDE DEF n
<1> QED BY <1>2, <1>3, PageStep DEF StreamInv, TypeOK

(* What the three ways to begin a start have in common.                      *)
LEMMA BeginStep ==
    ASSUME StreamInv, NEW h \in Hooks, NEW k \in HookRecord, Sound(k), k.mounted,
           hook' = [hook EXCEPT ![h] = BeginStart(k)], UNCHANGED <<stream, stops>>,
           k.active = hook[h].active, k.pc = hook[h].pc, k.key = hook[h].key
    PROVE  StreamInv'
<1>1. \A d \in Devices : Keeps(hook[h], d) => Keeps(k, d)
  BY DEF Keeps
<1> QED BY <1>1, BeginKeeps, PageStep DEF StreamInv, TypeOK

LEMMA TimerFiresKeeps ==
    ASSUME StreamAssumption, StreamInv, NEW h \in Hooks, TimerFires(h)
    PROVE  StreamInv'
<1> DEFINE k == [hook[h] EXCEPT !.timer = FALSE]
<1>1. hook[h] \in HookRecord /\ Sound(hook[h]) /\ hook[h].timer
  BY DEF StreamInv, TypeOK, TimerFires
<1>2. /\ k \in HookRecord /\ Sound(k) /\ k.mounted
      /\ k.active = hook[h].active /\ k.pc = hook[h].pc /\ k.key = hook[h].key
  BY <1>1 DEF HookRecord, Sound
<1>3. hook' = [hook EXCEPT ![h] = BeginStart(k)] /\ UNCHANGED <<stream, stops>>
  BY DEF TimerFires
<1> HIDE DEF k
<1> QED BY <1>2, <1>3, BeginStep

LEMMA ChangePidsKeeps ==
    ASSUME StreamAssumption, StreamInv, NEW h \in Hooks, NEW p \in Pids,
           ChangePids(h, p)
    PROVE  StreamInv'
<1> DEFINE k == [hook[h] EXCEPT !.pids = p]
<1>1. hook[h] \in HookRecord /\ Sound(hook[h]) /\ hook[h].mounted
  BY DEF StreamInv, TypeOK, ChangePids
<1>2. /\ k \in HookRecord /\ Sound(k) /\ k.mounted
      /\ k.active = hook[h].active /\ k.pc = hook[h].pc /\ k.key = hook[h].key
      /\ \A d \in Devices : Keeps(hook[h], d) => Keeps(k, d)
  BY <1>1 DEF HookRecord, Sound, Keeps
<1>3. /\ hook' = [hook EXCEPT ![h] =
                      IF k.streaming /\ ~k.paused THEN BeginStart(k) ELSE k]
      /\ UNCHANGED <<stream, stops>>
  BY DEF ChangePids
<1> HIDE DEF k
<1>4. CASE k.streaming /\ ~k.paused
  BY <1>2, <1>3, <1>4, BeginStep
<1>5. CASE ~(k.streaming /\ ~k.paused)
  BY <1>2, <1>3, <1>5, PageStep DEF StreamInv, TypeOK
<1> QED BY <1>4, <1>5

LEMMA ResumeKeeps ==
    ASSUME StreamAssumption, StreamInv, NEW h \in Hooks, Resume(h)
    PROVE  StreamInv'
<1> DEFINE k == [hook[h] EXCEPT !.paused = FALSE]
<1>1. hook[h] \in HookRecord /\ Sound(hook[h]) /\ hook[h].mounted
  BY DEF StreamInv, TypeOK, Resume
<1>2. /\ k \in HookRecord /\ Sound(k) /\ k.mounted
      /\ k.active = hook[h].active /\ k.pc = hook[h].pc /\ k.key = hook[h].key
  BY <1>1 DEF HookRecord, Sound
<1>3. hook' = [hook EXCEPT ![h] = BeginStart(k)] /\ UNCHANGED <<stream, stops>>
  BY DEF Resume
<1> HIDE DEF k
<1> QED BY <1>2, <1>3, BeginStep

(* A pause and a page that is left send a stop for the stream they held.     *)
LEMMA PauseKeeps ==
    ASSUME StreamAssumption, StreamInv, NEW h \in Hooks, Pause(h)
    PROVE  StreamInv'
<1> DEFINE n == [hook[h] EXCEPT !.paused = TRUE, !.subscribed = FALSE,
                                !.active = None, !.streaming = FALSE]
<1>1. hook[h] \in HookRecord /\ Sound(hook[h])
  BY DEF StreamInv, TypeOK
<1>2. n \in HookRecord /\ Sound(n)
  BY <1>1 DEF HookRecord, Sound
<1>3. /\ hook' = [hook EXCEPT ![h] = n] /\ UNCHANGED stream
      /\ stops' = stops \cup ({<<h, hook[h].active>>} \ {<<h, None>>})
  BY <1>1 DEF Pause, HookRecord, StreamInv, TypeOK
<1>4. stops \subseteq stops' /\ stops' \subseteq Hooks \X Devices
  BY <1>1, <1>3 DEF HookRecord, StreamInv, TypeOK
<1>5. ASSUME NEW d \in Devices, Keeps(hook[h], d)
      PROVE  Keeps(n, d) \/ <<h, d>> \in stops'
  BY <1>1, <1>3, <1>5 DEF StreamAssumption, Keeps, HookRecord
<1> HIDE DEF n
<1> QED BY <1>2, <1>3, <1>4, <1>5, PageStep

LEMMA LeaveKeeps ==
    ASSUME StreamAssumption, StreamInv, NEW h \in Hooks, Leave(h, FALSE)
    PROVE  StreamInv'
<1> DEFINE n == [Unmounted EXCEPT !.pc = hook[h].pc, !.key = hook[h].key,
                                  !.stale = (hook[h].pc # "idle")]
<1>1. hook[h] \in HookRecord /\ Sound(hook[h])
  BY DEF StreamInv, TypeOK
<1>2. n \in HookRecord /\ Sound(n)
  BY <1>1, AnyPidsIsOne DEF Unmounted, HookRecord, Sound
<1>3. /\ hook' = [hook EXCEPT ![h] = n] /\ UNCHANGED stream
      /\ stops' = stops \cup ({<<h, hook[h].active>>} \ {<<h, None>>})
  BY DEF Leave
<1>4. stops \subseteq stops' /\ stops' \subseteq Hooks \X Devices
  BY <1>1, <1>3 DEF HookRecord, StreamInv, TypeOK
<1>5. ASSUME NEW d \in Devices, Keeps(hook[h], d)
      PROVE  Keeps(n, d) \/ <<h, d>> \in stops'
  BY <1>1, <1>3, <1>5 DEF StreamAssumption, Keeps, HookRecord, Unmounted
<1> HIDE DEF n
<1> QED BY <1>2, <1>3, <1>4, <1>5, PageStep

(* A process ends, by a stop call that arrives or by itself.                 *)
LEMMA EndKeeps ==
    ASSUME StreamAssumption, StreamInv, NEW d \in Devices,
           stream' = [stream EXCEPT ![d] = None], UNCHANGED hook,
           stops' \subseteq stops, \A s \in stops \ stops' : s[2] = d
    PROVE  StreamInv'
<1>1. TypeOK'
  BY DEF StreamInv, TypeOK
<1>2. ASSUME NEW e \in Devices, stream'[e] # None
      PROVE  \E h \in Hooks : Keeps(hook'[h], e) \/ <<h, e>> \in stops'
  <2>1. e # d /\ stream[e] # None
    BY <1>2 DEF StreamInv, TypeOK
  <2>2. PICK h \in Hooks : Keeps(hook[h], e) \/ <<h, e>> \in stops
    BY <2>1 DEF StreamInv, Holds
  <2>3. <<h, e>>[2] = e
    OBVIOUS
  <2> QED BY <2>1, <2>2, <2>3
<1> QED BY <1>1, <1>2 DEF StreamInv, Holds

LEMMA NextStreamInv ==
    ASSUME StreamAssumption, HandOvers \subseteq {FALSE},
           StreamInv, [Next]_logVars
    PROVE  StreamInv'
<1>1. ASSUME NEW h \in Hooks, CallReturns(h) PROVE StreamInv'
  BY <1>1, StopReturnsKeeps, DelayElapsedKeeps, StartReturnsKeeps, UndoReturnsKeeps
     DEF CallReturns
<1>2. ASSUME NEW h \in Hooks, NEW d \in Devices \cup {None},
             Mount(h, d) \/ SelectDevice(h, d)
      PROVE  StreamInv'
  BY <1>2, MountKeeps, SelectDeviceKeeps
<1>3. ASSUME NEW h \in Hooks, TimerFires(h) \/ Pause(h) \/ Resume(h)
      PROVE  StreamInv'
  BY <1>3, TimerFiresKeeps, PauseKeeps, ResumeKeeps
<1>4. ASSUME NEW h \in Hooks, NEW p \in Pids, ChangePids(h, p) PROVE StreamInv'
  BY <1>4, ChangePidsKeeps
<1>5. ASSUME NEW h \in Hooks, NEW handOver \in HandOvers, Leave(h, handOver)
      PROVE  StreamInv'
  BY <1>5, LeaveKeeps
<1>6. ASSUME NEW s \in Hooks \X Devices, StopArrives(s) PROVE StreamInv'
  <2>1. s[2] \in Devices /\ stops' \subseteq stops /\ \A t \in stops \ stops' : t = s
    BY <1>6 DEF StopArrives
  <2> QED BY <1>6, <2>1, EndKeeps DEF StopArrives
<1>7. ASSUME NEW d \in Devices, StreamExits(d) PROVE StreamInv'
  BY <1>7, EndKeeps DEF StreamExits
<1>8. CASE UNCHANGED logVars
  BY <1>8 DEF logVars, StreamInv, TypeOK, Holds
<1> QED BY <1>1, <1>2, <1>3, <1>4, <1>5, <1>6, <1>7, <1>8 DEF Next

(* At rest a holder can only be a mounted page.                              *)
LEMMA HoldersAtRest ==
    ASSUME StreamAssumption, StreamInv PROVE NoStreamIsLeftBehind
<1>1. ASSUME AtRest, NEW d \in Devices, stream[d] # None
      PROVE  \E h \in Hooks : hook[h].mounted /\ hook[h].active = d
  <2>1. PICK h \in Hooks : Holds(h, d)
    BY <1>1 DEF StreamInv
  <2>2. hook[h].active = d
    BY <1>1, <2>1 DEF AtRest, Holds, Keeps
  <2>3. Sound(hook[h])
    BY DEF StreamInv
  <2> QED BY <2>2, <2>3 DEF StreamAssumption, Sound
<1> QED BY <1>1 DEF NoStreamIsLeftBehind

(* Once no start, stop or timer is under way, each process that runs is one  *)
(* that the mounted page would stop, for any number of windows, devices and  *)
(* filters (useLogStream.ts).                                                *)
THEOREM NoStreamLeft ==
    ASSUME StreamAssumption, HandOvers \subseteq {FALSE}
    PROVE  Spec => []NoStreamIsLeftBehind
<1>1. Init => StreamInv
  BY InitStreamInv
<1>2. StreamInv /\ [Next]_logVars => StreamInv'
  BY NextStreamInv
<1>3. StreamInv => NoStreamIsLeftBehind
  BY HoldersAtRest
<1> QED BY <1>1, <1>2, <1>3, PTL DEF Spec

-----------------------------------------------------------------------------
(* A page that says it streams, on a device, with no timer set; and one that *)
(* has no start in progress either, so that what it shows must be right.     *)
Settled(k) == k.streaming /\ ~k.timer /\ k.device # None
Shows(k) == Settled(k) /\ k.pc = "idle"

(* A paused or absent page does not stream, and a start that was overtaken   *)
(* will be followed by another if its page is still there.                   *)
Repairable(k) ==
    /\ k.streaming => k.mounted /\ ~k.paused /\ k.pc # "delay"
    /\ k.mounted /\ k.stale => k.pending
    /\ k.pc = "undo" => k.stale

(* The newest start carries the device and the filter of now, and so does    *)
(* the subscription that it leaves.                                          *)
Fresh(k) ==
    /\ Repairable(k)
    /\ Settled(k) /\ k.pc = "starting" /\ ~k.stale =>
           k.subscribed /\ k.key = k.device /\ k.opts = k.pids
    /\ Shows(k) => k.subscribed /\ k.active = k.device

(* The process of a device was started by a page that is gone and is about   *)
(* to stop it again.                                                         *)
Undone(d) == \E g \in Hooks : hook[g].pc = "undo" /\ hook[g].key = d

Serves(h) ==
    Shows(hook[h]) =>
        \/ stream[hook[h].device] \in {None, [by |-> h, pids |-> hook[h].pids]}
        \/ Undone(hook[h].device)

CurrentInv ==
    /\ TypeOK
    /\ \A h \in Hooks : Sound(hook[h]) /\ Fresh(hook[h]) /\ Serves(h)
    /\ \A h, g \in Hooks : hook[h].mounted /\ hook[g].mounted => h = g

LEMMA UnmountedIsFresh == Fresh(Unmounted)
  BY DEF Unmounted, Fresh, Repairable, Settled, Shows

LEMMA InitCurrentInv == ASSUME StreamAssumption, Init PROVE CurrentInv
<1>1. TypeOK /\ \A h \in Hooks : hook[h] = Unmounted
  BY UnmountedIsSound DEF Init, TypeOK
<1>2. Sound(Unmounted) /\ Fresh(Unmounted) /\ ~Unmounted.mounted /\ ~Shows(Unmounted)
  BY UnmountedIsSound, UnmountedIsFresh DEF Unmounted, Shows, Settled
<1> QED BY <1>1, <1>2 DEF CurrentInv, Serves

(* A start that begins, or leaves a note, makes the page repair itself.      *)
LEMMA BeginIsFresh ==
    ASSUME NEW k \in HookRecord, k.mounted, Repairable(k)
    PROVE  /\ Fresh(BeginStart(k)) /\ ~Shows(BeginStart(k))
           /\ BeginStart(k).mounted
           /\ k.pc # "idle" => BeginStart(k).pc = k.pc /\ BeginStart(k).key = k.key
<1>1. CASE k.device = None
  BY <1>1 DEF BeginStart, Fresh, Repairable, Settled, Shows
<1>2. CASE k.device # None /\ k.pc # "idle"
  BY <1>2 DEF BeginStart, HookRecord, Fresh, Repairable, Settled, Shows
<1>3. CASE k.device # None /\ k.pc = "idle"
  BY <1>3 DEF BeginStart, HookRecord, Fresh, Repairable, Settled, Shows
<1> QED BY <1>1, <1>2, <1>3

(* A start that ends without a note leaves the page as the start has made    *)
(* it; one with a note begins anew.                                          *)
LEMMA FinishIsFresh ==
    ASSUME NEW k \in HookRecord,
           k.streaming => k.mounted /\ ~k.paused,
           Settled(k) => \/ k.pending /\ k.mounted
                         \/ k.subscribed /\ k.active = k.device
    PROVE  /\ Fresh(FinishStart(k))
           /\ FinishStart(k).mounted = k.mounted
           /\ Shows(FinishStart(k)) =>
                  /\ Settled(k) /\ ~(k.pending /\ k.mounted)
                  /\ FinishStart(k).device = k.device
                  /\ FinishStart(k).pids = k.pids
<1> DEFINE done == [k EXCEPT !.pc = "idle", !.key = None, !.opts = AnyPids,
                             !.stale = FALSE, !.pending = FALSE]
<1>1. FinishStart(k) = IF k.pending /\ k.mounted THEN BeginStart(done) ELSE done
  BY DEF FinishStart
<1>2. /\ Repairable(done)
      /\ done.mounted = k.mounted /\ done.device = k.device /\ done.pids = k.pids
      /\ done.pc = "idle"
      /\ (Settled(done) <=> Settled(k))
      /\ done.subscribed = k.subscribed /\ done.active = k.active
  BY DEF HookRecord, Repairable, Settled
<1>3. CASE k.pending /\ k.mounted
  <2>1. FinishStart(k) = BeginStart(done)
    BY <1>1, <1>3
  <2>2. /\ Fresh(BeginStart(done)) /\ ~Shows(BeginStart(done))
        /\ BeginStart(done).mounted
    <3> HIDE DEF done
    <3>1. CASE done.device = None
      BY <1>2, <1>3, <3>1 DEF BeginStart, Fresh, Settled, Shows
    <3>2. CASE done.device # None
      <4> USE DEF done
      <4> QED BY <1>2, <1>3, <3>2
              DEF BeginStart, HookRecord, Fresh, Repairable, Settled, Shows
    <3> QED BY <3>1, <3>2
  <2> QED BY <1>2, <1>3, <2>1, <2>2
<1>4. CASE ~(k.pending /\ k.mounted)
  <2>1. FinishStart(k) = done
    BY <1>1, <1>4
  <2> HIDE DEF done
  <2>2. Fresh(done)
    BY <1>2, <1>4 DEF Fresh, Shows
  <2> QED BY <1>2, <1>4, <2>1, <2>2 DEF Shows
<1> QED BY <1>3, <1>4

(* One hook changes.  A claim of its own is served; if it does not stay the  *)
(* mounted one, the processes of others either end or are about to.          *)
LEMMA CurrentStep ==
    ASSUME CurrentInv, NEW h \in Hooks, NEW n \in HookRecord, Sound(n), Fresh(n),
           hook' = [hook EXCEPT ![h] = n],
           stream' \in [Devices -> [by : Hooks, pids : Pids] \cup {None}],
           stops' \subseteq Hooks \X Devices,
           n.mounted => \A g \in Hooks \ {h} : ~hook[g].mounted,
           \A d \in Devices : Undone(d) => Undone(d)' \/ stream'[d] = None,
           n.mounted \/ \A d \in Devices :
               stream'[d] \in {stream[d], None} \/ Undone(d)',
           Shows(n) => \/ stream'[n.device] \in {None, [by |-> h, pids |-> n.pids]}
                       \/ Undone(n.device)'
    PROVE  CurrentInv'
<1>1. TypeOK'
  BY DEF CurrentInv, TypeOK
<1>2. hook'[h] = n /\ \A g \in Hooks \ {h} : hook'[g] = hook[g]
  BY DEF CurrentInv, TypeOK
<1>3. \A g \in Hooks : Sound(hook[g])' /\ Fresh(hook[g])'
  BY <1>2 DEF CurrentInv, Sound, Fresh, Repairable, Settled, Shows
<1>4. ASSUME NEW g \in Hooks PROVE Serves(g)'
  <2>1. CASE g = h
    BY <1>2, <2>1 DEF Serves, Shows, Settled
  <2>2. CASE g # h /\ Shows(hook[g])
    <3>1. hook[g] \in HookRecord /\ Fresh(hook[g]) /\ Serves(g) /\ hook'[g] = hook[g]
      BY <1>2, <2>2 DEF CurrentInv, TypeOK
    <3>2. hook[g].mounted /\ hook[g].device \in Devices
      BY <2>2, <3>1 DEF Fresh, Repairable, Shows, Settled, HookRecord
    <3>3. ~n.mounted
      BY <2>2, <3>2
    <3>4. PICK d \in Devices : d = hook[g].device
      BY <3>2
    <3>5. \/ stream[d] \in {None, [by |-> g, pids |-> hook[g].pids]}
          \/ Undone(d)
      BY <2>2, <3>1, <3>4 DEF Serves
    <3>6. \/ stream'[d] \in {None, [by |-> g, pids |-> hook[g].pids]}
          \/ Undone(d)'
      BY <3>2, <3>3, <3>5
    <3> QED BY <3>1, <3>6, <3>4 DEF Serves
  <2>3. CASE g # h /\ ~Shows(hook[g])
    BY <1>2, <2>3 DEF Serves, Shows, Settled
  <2> QED BY <2>1, <2>2, <2>3
<1>5. \A f, g \in Hooks : hook'[f].mounted /\ hook'[g].mounted => f = g
  BY <1>2 DEF CurrentInv
<1> QED BY <1>1, <1>3, <1>4, <1>5 DEF CurrentInv

(* A step of the page: the processes go on, and it leaves nothing to serve.  *)
LEMMA CurrentPageStep ==
    ASSUME CurrentInv, NEW h \in Hooks, NEW n \in HookRecord, Sound(n), Fresh(n),
           ~Shows(n),
           hook' = [hook EXCEPT ![h] = n], UNCHANGED stream,
           stops' \subseteq Hooks \X Devices,
           n.mounted => hook[h].mounted \/ \A g \in Hooks : ~hook[g].mounted,
           hook[h].pc = "undo" => n.pc = "undo" /\ n.key = hook[h].key
    PROVE  CurrentInv'
<1>1. hook'[h] = n /\ \A g \in Hooks \ {h} : hook'[g] = hook[g]
  BY DEF CurrentInv, TypeOK
<1>2. \A d \in Devices : Undone(d) => Undone(d)'
  BY <1>1 DEF Undone
<1>3. n.mounted => \A g \in Hooks \ {h} : ~hook[g].mounted
  BY DEF CurrentInv
<1>4. stream' \in [Devices -> [by : Hooks, pids : Pids] \cup {None}]
  BY DEF CurrentInv, TypeOK
<1> QED BY <1>2, <1>3, <1>4, CurrentStep

LEMMA StopReturnsIsCurrent ==
    ASSUME StreamAssumption, CurrentInv, NEW h \in Hooks, StopReturns(h)
    PROVE  CurrentInv'
<1> DEFINE k == hook[h]
           n == [k EXCEPT !.pc = "delay", !.streaming = FALSE]
<1>1. k \in HookRecord /\ Sound(k) /\ Fresh(k) /\ k.pc = "stopping"
  BY DEF CurrentInv, TypeOK, StopReturns
<1>2. /\ n \in HookRecord /\ Sound(n) /\ Fresh(n) /\ ~Shows(n)
      /\ n.mounted = k.mounted
  BY <1>1 DEF HookRecord, Sound, Fresh, Repairable, Settled, Shows
<1>3. /\ hook' = [hook EXCEPT ![h] = n] /\ stops' = stops
      /\ stream' = [stream EXCEPT ![k.key] = None]
  BY <1>1 DEF StopReturns, HookRecord, CurrentInv, TypeOK
<1> HIDE DEF n
<1>4. /\ stream' \in [Devices -> [by : Hooks, pids : Pids] \cup {None}]
      /\ stops' \subseteq Hooks \X Devices
  BY <1>3 DEF CurrentInv, TypeOK
<1>5. \A d \in Devices : stream'[d] \in {stream[d], None}
  BY <1>3 DEF CurrentInv, TypeOK
<1>6. \A d \in Devices : Undone(d) => Undone(d)'
  BY <1>1, <1>3 DEF Undone, CurrentInv, TypeOK
<1>7. n.mounted => \A g \in Hooks \ {h} : ~hook[g].mounted
  BY <1>2 DEF CurrentInv
<1> QED BY <1>2, <1>3, <1>4, <1>5, <1>6, <1>7, CurrentStep

LEMMA DelayElapsedIsCurrent ==
    ASSUME StreamAssumption, CurrentInv, NEW h \in Hooks, DelayElapsed(h)
    PROVE  CurrentInv'
<1> DEFINE k == hook[h]
           over == k.stale \/ ~k.mounted \/ k.device = None
           goes == [k EXCEPT !.pc = "starting", !.key = k.device,
                             !.opts = k.pids, !.streaming = TRUE, !.paused = FALSE,
                             !.subscribed = TRUE]
           n == IF over THEN FinishStart(k) ELSE goes
<1>1. k \in HookRecord /\ Sound(k) /\ Fresh(k) /\ k.pc = "delay"
  BY DEF CurrentInv, TypeOK, DelayElapsed
<1>2. hook' = [hook EXCEPT ![h] = n] /\ UNCHANGED stream /\ stops' \subseteq Hooks \X Devices
  BY DEF DelayElapsed, CurrentInv, TypeOK
<1>3. CASE ~over
  <2>1. /\ goes \in HookRecord /\ Sound(goes) /\ Fresh(goes) /\ ~Shows(goes)
        /\ goes.mounted = k.mounted
    BY <1>1, <1>3 DEF StreamAssumption, HookRecord, Sound, Fresh, Repairable,
                      Settled, Shows
  <2>2. hook' = [hook EXCEPT ![h] = goes]
    BY <1>2, <1>3
  <2> HIDE DEF goes
  <2> QED BY <1>1, <1>2, <2>1, <2>2, CurrentPageStep
<1>4. CASE over
  <2>1. ~k.streaming /\ k.active = None /\ (~k.mounted => ~k.timer)
    BY <1>1 DEF Sound, Fresh, Repairable
  <2>2. FinishStart(k) \in HookRecord /\ Sound(FinishStart(k))
    BY <1>1, <2>1, FinishKeeps
  <2>3. /\ Fresh(FinishStart(k)) /\ ~Shows(FinishStart(k))
        /\ FinishStart(k).mounted = k.mounted
    BY <1>1, <2>1, FinishIsFresh DEF Settled
  <2>4. hook' = [hook EXCEPT ![h] = FinishStart(k)]
    BY <1>2, <1>4
  <2> QED BY <1>1, <1>2, <2>2, <2>3, <2>4, CurrentPageStep
<1> QED BY <1>3, <1>4

LEMMA StartReturnsIsCurrent ==
    ASSUME StreamAssumption, CurrentInv, NEW h \in Hooks, StartReturns(h)
    PROVE  CurrentInv'
<1> DEFINE k == hook[h]
           started == [k EXCEPT !.active = k.key]
           failed == [k EXCEPT !.subscribed = FALSE, !.streaming = FALSE]
           undo == [k EXCEPT !.pc = "undo"]
<1>1. k \in HookRecord /\ Sound(k) /\ Fresh(k) /\ k.pc = "starting" /\ k.active = None
  BY DEF CurrentInv, TypeOK, StartReturns, Sound
<1>2. PICK ok \in BOOLEAN :
          /\ stream' = [stream EXCEPT ![k.key] =
                            IF ok THEN [by |-> h, pids |-> k.opts] ELSE None]
          /\ hook' = [hook EXCEPT ![h] = IF k.stale THEN undo
                                         ELSE IF ok THEN FinishStart(started)
                                         ELSE FinishStart(failed)]
          /\ stops' = stops
  BY DEF StartReturns
<1>3. /\ stream' \in [Devices -> [by : Hooks, pids : Pids] \cup {None}]
      /\ stops' \subseteq Hooks \X Devices
  <2>1. [by |-> h, pids |-> k.opts] \in [by : Hooks, pids : Pids]
    BY <1>1 DEF HookRecord
  <2> QED BY <1>2, <2>1 DEF CurrentInv, TypeOK
<1>4. \A d \in Devices : d # k.key => stream'[d] = stream[d]
  BY <1>2 DEF CurrentInv, TypeOK
<1>5. \A d \in Devices : Undone(d) => Undone(d)'
  BY <1>1, <1>2 DEF Undone, CurrentInv, TypeOK
<1>6. k.mounted => \A g \in Hooks \ {h} : ~hook[g].mounted
  BY DEF CurrentInv
<1>7. CASE k.stale
  <2>1. undo \in HookRecord /\ Sound(undo) /\ Fresh(undo) /\ ~Shows(undo)
    BY <1>1, <1>7 DEF HookRecord, Sound, Fresh, Repairable, Settled, Shows
  <2>2. undo.mounted = k.mounted /\ undo.pc = "undo" /\ undo.key = k.key
    BY <1>1 DEF HookRecord
  <2>3. hook' = [hook EXCEPT ![h] = undo]
    BY <1>2, <1>7
  <2> HIDE DEF undo
  <2>4. \A d \in Devices : stream'[d] \in {stream[d], None} \/ Undone(d)'
    <3> SUFFICES ASSUME NEW d \in Devices, d = k.key PROVE Undone(d)'
      BY <1>4
    <3>1. hook'[h].pc = "undo" /\ hook'[h].key = d
      BY <2>2, <2>3 DEF CurrentInv, TypeOK
    <3> QED BY <3>1 DEF Undone
  <2> HIDE DEF k
  <2> QED BY <1>3, <1>5, <1>6, <2>1, <2>2, <2>3, <2>4, CurrentStep
<1>8. CASE ~k.stale /\ ok
  <2>1. k.mounted
    BY <1>1, <1>8 DEF Sound
  <2>2. /\ started \in HookRecord /\ started.active = k.key /\ started.mounted
        /\ started.subscribed = k.subscribed /\ started.device = k.device
        /\ started.pids = k.pids
        /\ (started.streaming => ~started.paused)
        /\ (Settled(started) <=> Settled(k))
    BY <1>1, <2>1 DEF HookRecord, Fresh, Repairable, Settled
  <2>3. Settled(k) => k.subscribed /\ k.key = k.device /\ k.opts = k.pids
    BY <1>1, <1>8 DEF Fresh
  <2> DEFINE n == FinishStart(started)
  <2>4. n \in HookRecord /\ Sound(n)
    <3> HIDE DEF started
    <3> QED BY <2>2, FinishKeeps
  <2>5. /\ Fresh(n) /\ n.mounted
        /\ Shows(n) => Settled(k) /\ n.device = k.device /\ n.pids = k.pids
    <3> HIDE DEF started
    <3> QED BY <2>2, <2>3, FinishIsFresh
  <2>6. hook' = [hook EXCEPT ![h] = n]
    BY <1>2, <1>8
  <2>7. Shows(n) => stream'[n.device] = [by |-> h, pids |-> n.pids]
    <3>1. k.key \in Devices => stream'[k.key] = [by |-> h, pids |-> k.opts]
      BY <1>2, <1>8 DEF CurrentInv, TypeOK
    <3>2. Settled(k) => k.device \in Devices
      BY <1>1 DEF Settled, HookRecord
    <3> HIDE DEF n
    <3> QED BY <2>3, <2>5, <3>1, <3>2
  <2> HIDE DEF n
  <2> QED BY <1>3, <1>5, <1>6, <2>1, <2>4, <2>5, <2>6, <2>7, CurrentStep
<1>9. CASE ~k.stale /\ ~ok
  <2>1. /\ failed \in HookRecord /\ ~failed.streaming /\ failed.mounted = k.mounted
        /\ failed.active = None /\ (~failed.mounted => ~failed.timer)
    BY <1>1 DEF HookRecord, Sound
  <2> DEFINE n == FinishStart(failed)
  <2>2. n \in HookRecord /\ Sound(n)
    <3> HIDE DEF failed
    <3> QED BY <2>1, FinishKeeps
  <2>3. Fresh(n) /\ n.mounted = k.mounted /\ ~Shows(n)
    <3> HIDE DEF failed
    <3> QED BY <2>1, FinishIsFresh DEF Settled
  <2>4. hook' = [hook EXCEPT ![h] = n]
    BY <1>2, <1>9
  <2>5. \A d \in Devices : stream'[d] \in {stream[d], None}
    BY <1>2, <1>9 DEF CurrentInv, TypeOK
  <2> HIDE DEF n
  <2> QED BY <1>3, <1>5, <1>6, <2>2, <2>3, <2>4, <2>5, CurrentStep
<1> QED BY <1>7, <1>8, <1>9

LEMMA UndoReturnsIsCurrent ==
    ASSUME StreamAssumption, CurrentInv, NEW h \in Hooks, UndoReturns(h)
    PROVE  CurrentInv'
<1> DEFINE k == hook[h]
           left == [k EXCEPT !.subscribed = FALSE]
           n == FinishStart(left)
<1>1. /\ k \in HookRecord /\ Sound(k) /\ Fresh(k)
      /\ k.pc = "undo" /\ k.active = None /\ k.stale
  BY DEF CurrentInv, TypeOK, UndoReturns, Sound, Fresh, Repairable
<1>2. /\ left \in HookRecord /\ left.active = None /\ left.mounted = k.mounted
      /\ (~left.mounted => ~left.timer)
      /\ left.streaming => left.mounted /\ ~left.paused
      /\ left.mounted => left.pending
  BY <1>1 DEF HookRecord, Sound, Fresh, Repairable
<1>3. /\ hook' = [hook EXCEPT ![h] = n] /\ stops' = stops
      /\ stream' = [stream EXCEPT ![k.key] = None]
  BY DEF UndoReturns
<1>4. n \in HookRecord /\ Sound(n)
  <2> HIDE DEF left
  <2> QED BY <1>2, FinishKeeps
<1>5. Fresh(n) /\ n.mounted = k.mounted /\ ~Shows(n)
  <2> HIDE DEF left
  <2> QED BY <1>2, FinishIsFresh DEF Settled
<1> HIDE DEF n
<1>6. /\ stream' \in [Devices -> [by : Hooks, pids : Pids] \cup {None}]
      /\ stops' \subseteq Hooks \X Devices
  BY <1>3 DEF CurrentInv, TypeOK
<1>7. \A d \in Devices : stream'[d] \in {stream[d], None}
  BY <1>3 DEF CurrentInv, TypeOK
<1>8. ASSUME NEW d \in Devices, Undone(d) PROVE Undone(d)' \/ stream'[d] = None
  BY <1>3, <1>8 DEF Undone, CurrentInv, TypeOK
<1>9. n.mounted => \A g \in Hooks \ {h} : ~hook[g].mounted
  BY <1>5 DEF CurrentInv
<1> QED BY <1>3, <1>4, <1>5, <1>6, <1>7, <1>8, <1>9, CurrentStep

LEMMA MountIsCurrent ==
    ASSUME StreamAssumption, CurrentInv, NEW h \in Hooks,
           NEW d \in Devices \cup {None}, Mount(h, d)
    PROVE  CurrentInv'
<1> DEFINE n == [Unmounted EXCEPT !.mounted = TRUE, !.device = d,
                                  !.timer = (d # None)]
<1>1. n \in HookRecord /\ Sound(n) /\ Fresh(n) /\ ~Shows(n)
  BY AnyPidsIsOne
     DEF Unmounted, HookRecord, Sound, Fresh, Repairable, Settled, Shows
<1>2. /\ hook' = [hook EXCEPT ![h] = n] /\ UNCHANGED <<stream, stops>>
      /\ hook[h].pc = "idle" /\ \A g \in Hooks : ~hook[g].mounted
  BY DEF Mount
<1> HIDE DEF n
<1> QED BY <1>1, <1>2, CurrentPageStep DEF CurrentInv, TypeOK

LEMMA SelectDeviceIsCurrent ==
    ASSUME StreamAssumption, CurrentInv, NEW h \in Hooks,
           NEW d \in Devices \cup {None}, SelectDevice(h, d)
    PROVE  CurrentInv'
<1> DEFINE n == [hook[h] EXCEPT !.device = d, !.timer = (d # None)]
<1>1. hook[h] \in HookRecord /\ Sound(hook[h]) /\ Fresh(hook[h]) /\ hook[h].mounted
  BY DEF CurrentInv, TypeOK, SelectDevice
<1>2. /\ n \in HookRecord /\ Sound(n) /\ Fresh(n) /\ ~Shows(n)
      /\ n.pc = hook[h].pc /\ n.key = hook[h].key
  BY <1>1 DEF HookRecord, Sound, Fresh, Repairable, Settled, Shows
<1>3. hook' = [hook EXCEPT ![h] = n] /\ UNCHANGED <<stream, stops>>
  BY <1>1 DEF SelectDevice, HookRecord, CurrentInv, TypeOK
<1> HIDE DEF n
<1> QED BY <1>1, <1>2, <1>3, CurrentPageStep DEF CurrentInv, TypeOK

(* What the three ways to begin a start have in common.                      *)
LEMMA CurrentBeginStep ==
    ASSUME CurrentInv, NEW h \in Hooks, NEW k \in HookRecord, Sound(k), Repairable(k),
           k.mounted, hook[h].mounted,
           hook' = [hook EXCEPT ![h] = BeginStart(k)], UNCHANGED <<stream, stops>>,
           k.pc = hook[h].pc, k.key = hook[h].key
    PROVE  CurrentInv'
<1>1. /\ BeginStart(k) \in HookRecord /\ Sound(BeginStart(k))
      /\ Fresh(BeginStart(k)) /\ ~Shows(BeginStart(k))
      /\ k.pc # "idle" => BeginStart(k).pc = k.pc /\ BeginStart(k).key = k.key
  BY BeginKeeps, BeginIsFresh
<1> QED BY <1>1, CurrentPageStep DEF CurrentInv, TypeOK

LEMMA TimerFiresIsCurrent ==
    ASSUME StreamAssumption, CurrentInv, NEW h \in Hooks, TimerFires(h)
    PROVE  CurrentInv'
<1> DEFINE k == [hook[h] EXCEPT !.timer = FALSE]
<1>1. hook[h] \in HookRecord /\ Sound(hook[h]) /\ Fresh(hook[h]) /\ hook[h].timer
  BY DEF CurrentInv, TypeOK, TimerFires
<1>2. /\ k \in HookRecord /\ Sound(k) /\ Repairable(k) /\ k.mounted /\ hook[h].mounted
      /\ k.pc = hook[h].pc /\ k.key = hook[h].key
  BY <1>1 DEF HookRecord, Sound, Fresh, Repairable
<1>3. hook' = [hook EXCEPT ![h] = BeginStart(k)] /\ UNCHANGED <<stream, stops>>
  BY DEF TimerFires
<1> HIDE DEF k
<1> QED BY <1>2, <1>3, CurrentBeginStep

LEMMA ResumeIsCurrent ==
    ASSUME StreamAssumption, CurrentInv, NEW h \in Hooks, Resume(h)
    PROVE  CurrentInv'
<1> DEFINE k == [hook[h] EXCEPT !.paused = FALSE]
<1>1. hook[h] \in HookRecord /\ Sound(hook[h]) /\ Fresh(hook[h]) /\ hook[h].mounted
  BY DEF CurrentInv, TypeOK, Resume
<1>2. /\ k \in HookRecord /\ Sound(k) /\ Repairable(k) /\ k.mounted
      /\ k.pc = hook[h].pc /\ k.key = hook[h].key
  BY <1>1 DEF HookRecord, Sound, Fresh, Repairable
<1>3. hook' = [hook EXCEPT ![h] = BeginStart(k)] /\ UNCHANGED <<stream, stops>>
  BY DEF Resume
<1> HIDE DEF k
<1> QED BY <1>1, <1>2, <1>3, CurrentBeginStep

(* A change of the filter restarts a page that streams; one that is paused   *)
(* has nothing to show.                                                      *)
LEMMA ChangePidsIsCurrent ==
    ASSUME StreamAssumption, CurrentInv, NEW h \in Hooks, NEW p \in Pids,
           ChangePids(h, p)
    PROVE  CurrentInv'
<1> DEFINE k == [hook[h] EXCEPT !.pids = p]
<1>1. hook[h] \in HookRecord /\ Sound(hook[h]) /\ Fresh(hook[h]) /\ hook[h].mounted
  BY DEF CurrentInv, TypeOK, ChangePids
<1>2. /\ k \in HookRecord /\ Sound(k) /\ Repairable(k) /\ k.mounted
      /\ k.pc = hook[h].pc /\ k.key = hook[h].key
  BY <1>1 DEF HookRecord, Sound, Fresh, Repairable
<1>3. /\ hook' = [hook EXCEPT ![h] =
                      IF k.streaming /\ ~k.paused THEN BeginStart(k) ELSE k]
      /\ UNCHANGED <<stream, stops>>
  BY DEF ChangePids
<1> HIDE DEF k
<1>4. CASE k.streaming /\ ~k.paused
  BY <1>1, <1>2, <1>3, <1>4, CurrentBeginStep
<1>5. CASE ~(k.streaming /\ ~k.paused)
  <2>1. ~k.streaming
    BY <1>2, <1>5 DEF Repairable
  <2>2. Fresh(k) /\ ~Shows(k)
    BY <1>2, <2>1 DEF Fresh, Shows, Settled
  <2> QED BY <1>1, <1>2, <1>3, <1>5, <2>2, CurrentPageStep DEF CurrentInv, TypeOK
<1> QED BY <1>4, <1>5

LEMMA PauseIsCurrent ==
    ASSUME StreamAssumption, CurrentInv, NEW h \in Hooks, Pause(h)
    PROVE  CurrentInv'
<1> DEFINE n == [hook[h] EXCEPT !.paused = TRUE, !.subscribed = FALSE,
                                !.active = None, !.streaming = FALSE]
<1>1. hook[h] \in HookRecord /\ Sound(hook[h]) /\ Fresh(hook[h]) /\ hook[h].mounted
  BY DEF CurrentInv, TypeOK, Pause
<1>2. /\ n \in HookRecord /\ Sound(n) /\ Fresh(n) /\ ~Shows(n)
      /\ n.pc = hook[h].pc /\ n.key = hook[h].key
  BY <1>1 DEF HookRecord, Sound, Fresh, Repairable, Settled, Shows
<1>3. /\ hook' = [hook EXCEPT ![h] = n] /\ UNCHANGED stream
      /\ stops' = stops \cup ({<<h, hook[h].active>>} \ {<<h, None>>})
  BY <1>1 DEF Pause, HookRecord, CurrentInv, TypeOK
<1>4. stops' \subseteq Hooks \X Devices
  BY <1>1, <1>3 DEF HookRecord, CurrentInv, TypeOK
<1> HIDE DEF n
<1> QED BY <1>1, <1>2, <1>3, <1>4, CurrentPageStep

LEMMA LeaveIsCurrent ==
    ASSUME StreamAssumption, CurrentInv, NEW h \in Hooks, NEW handOver,
           Leave(h, handOver)
    PROVE  CurrentInv'
<1> DEFINE n == [Unmounted EXCEPT !.pc = hook[h].pc, !.key = hook[h].key,
                                  !.stale = (hook[h].pc # "idle")]
<1>1. hook[h] \in HookRecord /\ Sound(hook[h])
  BY DEF CurrentInv, TypeOK
<1>2. /\ n \in HookRecord /\ Sound(n) /\ Fresh(n) /\ ~Shows(n) /\ ~n.mounted
      /\ n.pc = hook[h].pc /\ n.key = hook[h].key
  BY <1>1, AnyPidsIsOne
     DEF Unmounted, HookRecord, Sound, Fresh, Repairable, Settled, Shows
<1>3. hook' = [hook EXCEPT ![h] = n] /\ UNCHANGED stream
  BY DEF Leave
<1>4. stops' \subseteq Hooks \X Devices
  BY <1>1 DEF Leave, HookRecord, CurrentInv, TypeOK
<1> HIDE DEF n
<1> QED BY <1>2, <1>3, <1>4, CurrentPageStep

(* A process ends, by a stop call that arrives or by itself.                 *)
LEMMA EndIsCurrent ==
    ASSUME CurrentInv, NEW d \in Devices, stream' = [stream EXCEPT ![d] = None],
           UNCHANGED hook, stops' \subseteq stops
    PROVE  CurrentInv'
<1>1. TypeOK' /\ \A e \in Devices : stream'[e] \in {stream[e], None}
  BY DEF CurrentInv, TypeOK
<1>2. ASSUME NEW h \in Hooks PROVE Serves(h)'
  <2>1. Serves(h) /\ hook[h] \in HookRecord
    BY DEF CurrentInv, TypeOK
  <2>2. Shows(hook[h]) => hook[h].device \in Devices
    BY <2>1 DEF Shows, Settled, HookRecord
  <2> QED BY <1>1, <2>1, <2>2 DEF Serves, Undone
<1> QED BY <1>1, <1>2 DEF CurrentInv

LEMMA NextCurrentInv ==
    ASSUME StreamAssumption, CurrentInv, [Next]_logVars PROVE CurrentInv'
<1>1. ASSUME NEW h \in Hooks, CallReturns(h) PROVE CurrentInv'
  BY <1>1, StopReturnsIsCurrent, DelayElapsedIsCurrent, StartReturnsIsCurrent,
     UndoReturnsIsCurrent DEF CallReturns
<1>2. ASSUME NEW h \in Hooks, NEW d \in Devices \cup {None},
             Mount(h, d) \/ SelectDevice(h, d)
      PROVE  CurrentInv'
  BY <1>2, MountIsCurrent, SelectDeviceIsCurrent
<1>3. ASSUME NEW h \in Hooks, TimerFires(h) \/ Pause(h) \/ Resume(h)
      PROVE  CurrentInv'
  BY <1>3, TimerFiresIsCurrent, PauseIsCurrent, ResumeIsCurrent
<1>4. ASSUME NEW h \in Hooks, NEW p \in Pids, ChangePids(h, p) PROVE CurrentInv'
  BY <1>4, ChangePidsIsCurrent
<1>5. ASSUME NEW h \in Hooks, NEW handOver \in HandOvers, Leave(h, handOver)
      PROVE  CurrentInv'
  BY <1>5, LeaveIsCurrent
<1>6. ASSUME NEW s \in Hooks \X Devices, StopArrives(s) PROVE CurrentInv'
  <2>1. s[2] \in Devices /\ stops' \subseteq stops
    BY <1>6 DEF StopArrives
  <2> QED BY <1>6, <2>1, EndIsCurrent DEF StopArrives
<1>7. ASSUME NEW d \in Devices, StreamExits(d) PROVE CurrentInv'
  BY <1>7, EndIsCurrent DEF StreamExits
<1>8. CASE UNCHANGED logVars
  BY <1>8 DEF logVars, CurrentInv, TypeOK, Serves, Undone
<1> QED BY <1>1, <1>2, <1>3, <1>4, <1>5, <1>6, <1>7, <1>8 DEF Next

(* Type correctness of the hooks, whichever way pages are left.              *)
THEOREM TypeCorrectness ==
    ASSUME StreamAssumption PROVE Spec => []TypeOK
<1>1. Init => CurrentInv
  BY InitCurrentInv
<1>2. CurrentInv /\ [Next]_logVars => CurrentInv'
  BY NextCurrentInv
<1>3. CurrentInv => TypeOK
  BY DEF CurrentInv
<1> QED BY <1>1, <1>2, <1>3, PTL DEF Spec

(* At rest a page that shows a stream is up to date.                         *)
LEMMA CurrentAtRest == ASSUME CurrentInv PROVE StreamsAreCurrent
<1> SUFFICES ASSUME AtRest, NEW h \in Hooks,
                    hook[h].streaming, hook[h].device # None
             PROVE  /\ hook[h].subscribed
                    /\ hook[h].active = hook[h].device
                    /\ stream[hook[h].device] \in
                           {None, [by |-> h, pids |-> hook[h].pids]}
  BY DEF StreamsAreCurrent
<1>1. Shows(hook[h])
  BY DEF AtRest, Shows, Settled
<1>2. ~Undone(hook[h].device)
  BY DEF AtRest, Undone
<1>3. Fresh(hook[h]) /\ Serves(h)
  BY DEF CurrentInv
<1> QED BY <1>1, <1>2, <1>3 DEF Fresh, Serves

(* Once nothing is under way, a page that says it streams listens to the     *)
(* selected device, and its process has the filter of now, whatever fell     *)
(* between the awaits of its starts and whichever way earlier pages were     *)
(* left (useLogStream.ts).                                                   *)
THEOREM PagesAreCurrent ==
    ASSUME StreamAssumption PROVE Spec => []StreamsAreCurrent
<1>1. Init => CurrentInv
  BY InitCurrentInv
<1>2. CurrentInv /\ [Next]_logVars => CurrentInv'
  BY NextCurrentInv
<1>3. CurrentInv => StreamsAreCurrent
  BY CurrentAtRest
<1> QED BY <1>1, <1>2, <1>3, PTL DEF Spec
=============================================================================
