------------------------------ MODULE HiProfilerPage --------------------------
(* The page of the HarmonyOS capture (NetworkCapturePage.tsx) in HiProfiler  *)
(* mode, over the devices that can be selected.  The sessions of the backend *)
(* (module HiProfiler) are here what the page can tell of them, and other    *)
(* windows may start and stop them.                                          *)
(*                                                                           *)
(* Answers and events come in the order in which the backend sends them.     *)
(* Events that only announce another one (starting, stopping, restarting)    *)
(* are left out.                                                             *)
EXTENDS Naturals, Sequences

CONSTANTS
    Devices,
    Foreign,    \* the devices on which other windows start and stop captures
    Calls,      \* calls of the page's handlers in progress
    MaxChannel, \* bound: messages under way to the page
    None

States == {"idle", "capturing", "waiting", "error", "starting", "stopping"}
Steps == {"alive", "start", "stop", "stopAll"}

VARIABLES
    session,   \* the backend's session of each device
    channel,   \* messages to the page
    device,    \* selectedDevice
    status,    \* hiProfilerStatus: its state, and the device it is of
    listens,   \* the devices whose requests the store receives
    calls,     \* the handlers in progress: the device and the step of each
    asked,     \* the calls, and devices, whose request is to be served
    own        \* ghost: the devices whose session this page started

hiProfilerPageVars ==
    <<session, channel, device, status, listens, calls, asked, own>>

TypeOK ==
    /\ session \in [Devices -> {"idle", "capturing", "waiting"}]
    /\ channel \in Seq([to : Calls \cup {"page", "event"}, of : Devices,
                        what : States \cup {"yes", "no", "ok", "failed"}])
    /\ device \in Devices
    /\ status \in [state : States, of : Devices]
    /\ listens \subseteq Devices /\ own \subseteq Devices
    /\ calls \in [Calls -> {None} \cup [of : Devices, step : Steps]]
    /\ asked \subseteq Calls \cup Devices

(* The page opens; other windows may have started captures before.           *)
Init ==
    /\ session \in {s \in [Devices -> {"idle", "capturing", "waiting"}] :
                      \A d \in Devices \ Foreign : s[d] = "idle"}
    /\ channel = <<>> /\ listens = {} /\ own = {}
    /\ device \in Devices
    /\ status = [state |-> "idle", of |-> device]
    /\ calls = [c \in Calls |-> None]
    /\ asked = {device}

-----------------------------------------------------------------------------
Send(ms) ==
    /\ Len(channel) + Len(ms) <= MaxChannel
    /\ channel' = channel \o ms

Message(to, of, what) == [to |-> to, of |-> of, what |-> what]

(* The backend stops whatever it has of a device, and says so.               *)
Ends(d) ==
    /\ session' = [session EXCEPT ![d] = "idle"]
    /\ own' = own \ {d}

EndEvent(d) ==
    IF session[d] = "idle" THEN <<>> ELSE <<Message("event", d, "idle")>>

(* A request of a handler.  A start fails, or finds the process captured.    *)
Serve(c) ==
    /\ c \in asked \cap Calls
    /\ asked' = asked \ {c}
    /\ LET d == calls[c].of
           reply(what) == Message(c, d, what) IN
        \/ /\ calls[c].step = "alive"
           /\ \E what \in {"yes", "no"} : Send(<<reply(what)>>)
           /\ UNCHANGED <<session, own>>
        \/ /\ calls[c].step = "start" /\ session[d] = "idle"
           /\ session' = [session EXCEPT ![d] = "capturing"]
           /\ own' = own \cup {d}
           /\ Send(<<Message("event", d, "capturing"), reply("ok")>>)
        \/ /\ calls[c].step = "start"
           /\ Send((IF session[d] = "idle" THEN <<Message("event", d, "error")>>
                    ELSE <<>>) \o <<reply("failed")>>)
           /\ UNCHANGED <<session, own>>
        \/ /\ calls[c].step \in {"stop", "stopAll"}
           /\ Ends(d)
           /\ Send(EndEvent(d) \o <<reply("ok")>>)
    /\ UNCHANGED <<device, status, listens, calls>>

(* GetHiProfilerCaptureStatus.                                               *)
ServeStatus(d) ==
    /\ d \in asked
    /\ asked' = asked \ {d}
    /\ Send(<<Message("page", d, session[d])>>)
    /\ UNCHANGED <<session, device, status, listens, calls, own>>

(* The process ends and comes back, other windows start and stop captures.   *)
Backend(d) ==
    /\ \/ /\ session[d] = "capturing"
          /\ session' = [session EXCEPT ![d] = "waiting"]
          /\ Send(<<Message("event", d, "waiting")>>) /\ UNCHANGED own
       \/ /\ session[d] = "waiting"
          /\ session' = [session EXCEPT ![d] = "capturing"]
          /\ Send(<<Message("event", d, "capturing")>>) /\ UNCHANGED own
       \/ /\ session[d] = "idle" /\ d \in Foreign
          /\ session' = [session EXCEPT ![d] = "capturing"]
          /\ Send(<<Message("event", d, "capturing")>>) /\ UNCHANGED own
       \/ /\ session[d] # "idle" /\ d \in Foreign /\ Ends(d) /\ Send(EndEvent(d))
    /\ UNCHANGED <<device, status, listens, calls, asked>>

-----------------------------------------------------------------------------
(* Another device: its status is asked for, the one of the old device stays  *)
(* until the answer, and what was asked for the old device is still heard.   *)
SelectDevice(d) ==
    /\ d # device /\ device' = d
    /\ asked' = asked \cup {d}
    /\ UNCHANGED <<session, channel, status, listens, calls, own>>

Active == status.state \in {"starting", "capturing", "stopping", "waiting"}

Go(c, of, step) ==
    /\ calls' = [calls EXCEPT ![c] = [of |-> of, step |-> step]]
    /\ asked' = asked \cup {c}
Done(c) == calls' = [calls EXCEPT ![c] = None] /\ UNCHANGED asked
Show(state, of) == status' = [state |-> state, of |-> of]

(* handleStartHiProfilerCapture and handleStopHiProfilerCapture are on one   *)
(* button.                                                                   *)
PressStart(c) ==
    /\ calls[c] = None /\ ~Active
    /\ Go(c, device, "alive")
    /\ UNCHANGED <<session, channel, device, status, listens, own>>

PressStop(c) ==
    /\ calls[c] = None /\ Active
    /\ Go(c, device, "stop")
    /\ Show("stopping", status.of)
    /\ UNCHANGED <<session, channel, device, listens, own>>

(* The process is alive: the store listens before the capture starts.        *)
StartsListening(c, d) == Go(c, d, "start") /\ listens' = listens \cup {d}

Continue(c, d, what) ==
    CASE calls[c].step = "alive" /\ what = "yes" ->
            StartsListening(c, d) /\ Show("starting", d)
      [] calls[c].step = "alive" /\ what = "no" ->
            Done(c) /\ UNCHANGED <<status, listens>>
      [] calls[c].step = "start" /\ what = "ok" ->
            /\ IF status.state = "capturing" THEN UNCHANGED status
               ELSE Show("capturing", d)
            /\ Done(c) /\ UNCHANGED listens
      [] calls[c].step = "start" /\ what = "failed" ->
            Show("error", status.of) /\ Done(c) /\ UNCHANGED listens
      [] calls[c].step = "stop" ->
            Go(c, d, "stopAll") /\ UNCHANGED <<status, listens>>
      [] calls[c].step = "stopAll" ->
            Show("idle", d) /\ Done(c) /\ UNCHANGED listens

(* The answer to GetHiProfilerCaptureStatus is taken whatever is selected.   *)
TakeStatus(d, what) ==
    /\ Show(what, d)
    /\ listens' = IF what = "capturing" THEN listens \cup {d} ELSE listens
    /\ UNCHANGED <<calls, asked>>

\* Mutant: the device of an event is not compared with the selected one.
HearAny(d, what) ==
    /\ Show(what, device)
    /\ UNCHANGED <<listens, calls, asked>>

Hear(d, what) ==
    /\ IF d = device THEN Show(what, d) ELSE UNCHANGED status
    /\ UNCHANGED <<listens, calls, asked>>

Deliver ==
    /\ channel # <<>> /\ channel' = Tail(channel)
    /\ LET m == Head(channel) IN
        CASE m.to = "event" -> Hear(m.of, m.what)
          [] m.to = "page"  -> TakeStatus(m.of, m.what)
          [] OTHER          -> Continue(m.to, m.of, m.what)
    /\ UNCHANGED <<session, device, own>>

Next ==
    \/ \E c \in Calls : Serve(c) \/ PressStart(c) \/ PressStop(c)
    \/ \E d \in Devices : ServeStatus(d) \/ Backend(d) \/ SelectDevice(d)
    \/ Deliver

Spec == Init /\ [][Next]_hiProfilerPageVars

-----------------------------------------------------------------------------
Quiet == channel = <<>> /\ asked = {} /\ \A c \in Calls : calls[c] = None

(* When nothing is under way, a status of the selected device is the         *)
(* backend's, whatever exits, restarts, stops and other windows came between *)
(* the request and its answer.                                               *)
QuietPageAgrees ==
    Quiet /\ status.of = device =>
        IF status.state = "error" THEN TRUE ELSE status.state = session[device]

(* The store listens to a device whenever a capture that this page started   *)
(* runs there, so that no short request is missed.                           *)
OwnCapturesAreHeard ==
    \A d \in own : session[d] = "capturing" => d \in listens

(* The page shows the status of the selected device (the effect at line 291  *)
(* of NetworkCapturePage.tsx).  Does not hold: the answer of an earlier      *)
(* device is taken as well, and may come last.                               *)
QuietPageShowsItsDevice == Quiet => status.of = device
==============================================================================
