------------------------------- MODULE AndroidPage ----------------------------
(* The page of the Android capture (AndroidNetworkCapturePage.tsx) with the  *)
(* status that androidCaptureStore.ts keeps for a device while the page is   *)
(* away, for one device and one app.  The capture sessions of the backend    *)
(* (module AndroidCapture) are here what the page can tell of them.          *)
(*                                                                           *)
(* Answers and events come in the order in which the backend sends them; an  *)
(* event may be sent after the session it tells of was stopped, because the  *)
(* monitor of the process sends it after it released the lock.               *)
EXTENDS Naturals, Sequences

CONSTANTS
    Calls,      \* calls of the handlers in progress
    MaxChannel, \* bound: messages under way to the page
    None

(* A handler at "overtaken" is at "storeStop", and a start that was pressed  *)
(* before has succeeded meanwhile.                                           *)
Steps == {"pid", "start", "clean", "cleanAll", "again", "stop", "stopAll",
          "storeStop", "overtaken"}
Events == {"exited", "restarted", "failed"}

VARIABLES
    session,   \* the backend's session; "switching": its process has another
               \* PID, and to switch to it has failed
    toSend,    \* the event that the monitor is about to send
    channel,   \* messages to the page
    status,    \* captureStatus: [shows, named]; named: packageName is not empty
    mounted,   \* the page is there
    calls,     \* the step of each call of handleStartCapture or handleStopCapture
    asked,     \* the calls whose request the backend has still to serve
    check,     \* the calibration: None, "asked", "answered"
    lost       \* ghost: a start has stopped what the status shows, and failed,
               \* or a stop has ended after the start that followed it

androidPageVars ==
    <<session, toSend, channel, status, mounted, calls, asked, check, lost>>

Answers == {"found", "gone", "done", "running", "error"}
Sent == [to : Calls, what : Answers] \cup
        [to : {"check", "nobody"}, what : {"idle", "capturing", "waiting"}] \cup
        [to : {"page"}, what : Events]

TypeOK ==
    /\ session \in {"idle", "capturing", "waiting", "switching"}
    /\ toSend \in Events \cup {None}
    /\ channel \in Seq(Sent)
    /\ status \in [shows : {"idle", "capturing", "waiting"}, named : BOOLEAN]
    /\ mounted \in BOOLEAN
    /\ calls \in [Calls -> Steps \cup {None}]
    /\ asked \in SUBSET Calls
    /\ check \in {None, "asked", "answered"}
    /\ lost \in BOOLEAN

Idle == [shows |-> "idle", named |-> FALSE]

Init ==
    /\ session = "idle" /\ toSend = None /\ channel = <<>>
    /\ status = Idle /\ mounted = TRUE
    /\ calls = [c \in Calls |-> None] /\ asked = {} /\ check = None
    /\ lost = FALSE

-----------------------------------------------------------------------------
(* What the backend does.                                                    *)

Send(m) == Len(channel) < MaxChannel /\ channel' = Append(channel, m)

(* The effect of a request and its answer.  The event of an old session is   *)
(* sent before the user has stopped it and started another.                  *)
Serve(c) ==
    /\ c \in asked
    /\ asked' = asked \ {c}
    /\ \E answer \in Answers :
        /\ Send([to |-> c, what |-> answer])
        /\ CASE calls[c] = "pid" -> answer \in {"found", "gone"} /\ UNCHANGED session
             [] calls[c] \in {"start", "again"} ->
                 /\ toSend = None
                 /\ \/ session # "idle" /\ answer = "running" /\ UNCHANGED session
                    \/ session = "idle" /\ answer = "done" /\ session' = "capturing"
                    \/ session = "idle" /\ answer = "error" /\ UNCHANGED session
             [] calls[c] \in {"storeStop", "overtaken"} ->
                 answer = "done" /\ UNCHANGED session
             [] OTHER -> answer = "done" /\ session' = "idle"
    /\ UNCHANGED <<toSend, status, mounted, calls, check, lost>>

(* GetAndroidCaptureStatus: a session that fails to switch counts as         *)
(* capturing, since only an exit marks it as waiting.                        *)
ServeCheck ==
    /\ check = "asked"
    /\ check' = "answered"
    /\ Send([to |-> "check",
             what |-> IF session = "switching" THEN "capturing" ELSE session])
    /\ UNCHANGED <<session, toSend, status, mounted, calls, asked, lost>>

(* The monitor of the process notices, and changes the session.              *)
Monitor ==
    /\ toSend = None
    /\ \/ session = "capturing" /\ session' = "waiting" /\ toSend' = "exited"
       \/ session # "idle" /\ session' = "capturing" /\ toSend' = "restarted"
       \/ session # "idle" /\ toSend' = "failed"
          /\ session' = IF session = "waiting" THEN "waiting" ELSE "switching"
    /\ UNCHANGED <<channel, status, mounted, calls, asked, check, lost>>

SendEvent ==
    /\ toSend # None
    /\ Send([to |-> "page", what |-> toSend])
    /\ toSend' = None
    /\ UNCHANGED <<session, status, mounted, calls, asked, check, lost>>

-----------------------------------------------------------------------------
(* What the page does.                                                       *)

(* The effect that calibrates runs when the page appears with a name, and    *)
(* when the name changes; a change to no name cancels it.                    *)
Calibrate(new) ==
    IF new.named = status.named THEN UNCHANGED check
    ELSE check' = IF new.named /\ mounted THEN "asked" ELSE None

(* What a cancelled calibration still receives is for nobody.                *)
Forget(messages) ==
    [i \in DOMAIN messages |->
        IF messages[i].to = "check" THEN [messages[i] EXCEPT !.to = "nobody"]
        ELSE messages[i]]

Received ==
    channel' = IF check' = "answered" THEN Tail(channel) ELSE Forget(Tail(channel))

Go(c, step) == calls' = [calls EXCEPT ![c] = step] /\ asked' = asked \cup {c}
Done(c) == calls' = [calls EXCEPT ![c] = None] /\ UNCHANGED asked
Show(new) == status' = new /\ Calibrate(new) /\ lost' = FALSE
Stay == UNCHANGED <<status, check, lost>>

(* handleStartCapture and handleStopCapture as they are called: there is one *)
(* button, and the status says which of them it is.                          *)
Press(c) ==
    /\ mounted /\ calls[c] = None
    /\ Go(c, IF status.shows = "idle" THEN "pid"
             ELSE IF status.named THEN "stop" ELSE "stopAll")
    /\ UNCHANGED <<session, toSend, channel, status, mounted, check, lost>>

(* The answer to a call, and what the handler does next.                     *)
Continue(c, what) ==
    CASE calls[c] = "pid" ->
            /\ IF what = "gone" THEN Done(c) ELSE Go(c, "start")
            /\ Stay
      [] calls[c] \in {"start", "again"} /\ what = "done" ->
            /\ calls' = [o \in Calls |-> IF o = c THEN None
                                     ELSE IF calls[o] = "storeStop" THEN "overtaken"
                                     ELSE calls[o]]
            /\ UNCHANGED asked
            /\ Show([shows |-> "capturing", named |-> TRUE])
      [] calls[c] = "start" /\ what = "running" -> Go(c, "clean") /\ Stay
      [] calls[c] = "start" /\ what = "error" -> Done(c) /\ Stay
      [] calls[c] = "again" /\ what # "done" ->
            /\ Done(c)
            /\ lost' = (lost \/ (what = "error" /\ status.named))
            /\ UNCHANGED <<status, check>>
      [] calls[c] = "clean"    -> Go(c, "cleanAll") /\ Stay
      [] calls[c] = "cleanAll" -> Go(c, "again") /\ Stay
      [] calls[c] = "stop"     -> Go(c, "stopAll") /\ Stay
      [] calls[c] = "stopAll"  -> Go(c, "storeStop") /\ Stay
      [] calls[c] \in {"storeStop", "overtaken"} ->
            /\ Done(c)
            /\ status' = Idle /\ Calibrate(Idle)
            /\ lost' = (calls[c] = "overtaken")

(* The handlers of the events of the process.                                *)
Hear(event) ==
    IF ~mounted THEN Stay
    ELSE Show(CASE event = "exited"    -> [shows |-> "waiting", named |-> TRUE]
                [] event = "restarted" -> [shows |-> "capturing", named |-> TRUE]
                [] event = "failed"    -> [status EXCEPT !.shows = "waiting"])

Deliver ==
    /\ channel # <<>>
    /\ LET m == Head(channel) IN
        CASE m.to = "page"  -> Hear(m.what) /\ UNCHANGED <<calls, asked>>
          [] m.to = "check" ->
                /\ status' = [shows |-> m.what, named |-> TRUE]
                /\ check' = None
                /\ lost' = FALSE
                /\ UNCHANGED <<calls, asked>>
          [] m.to = "nobody" -> Stay /\ UNCHANGED <<calls, asked>>
          [] OTHER -> Continue(m.to, m.what)
    /\ Received
    /\ UNCHANGED <<session, toSend, mounted>>

(* The user goes to another page and comes back.                             *)
Leave ==
    /\ mounted /\ mounted' = FALSE
    /\ check' = None
    /\ channel' = Forget(channel)
    /\ UNCHANGED <<session, toSend, status, calls, asked, lost>>

\* Mutant: the page that comes back does not ask for the status.
ReturnUnasked ==
    /\ ~mounted /\ mounted' = TRUE
    /\ check' = None
    /\ UNCHANGED <<session, toSend, channel, status, calls, asked, lost>>

Return ==
    /\ ~mounted /\ mounted' = TRUE
    /\ check' = IF status.named THEN "asked" ELSE None
    /\ UNCHANGED <<session, toSend, channel, status, calls, asked, lost>>

Next ==
    \/ \E c \in Calls : Press(c) \/ Serve(c)
    \/ ServeCheck \/ Monitor \/ SendEvent \/ Deliver \/ Leave \/ Return

Spec == Init /\ [][Next]_androidPageVars

-----------------------------------------------------------------------------
(* When nothing is under way and the page is there, it shows what the        *)
(* backend does, whatever it missed while it was away and whatever was       *)
(* pressed twice.  The exceptions, which nothing corrects until the next     *)
(* press: a switch that failed without an exit, which the backend reports as *)
(* capturing; the event of a failed switch that was sent after a stop; and   *)
(* presses that overlap, where a start fails after it has stopped what the   *)
(* page shows, or succeeds while a stop waits for its last call.             *)
Quiet ==
    mounted /\ channel = <<>> /\ toSend = None /\ check = None
    /\ \A c \in Calls : calls[c] = None

QuietPageAgrees ==
    Quiet => \/ status.shows = session
             \/ session = "switching"
             \/ status = [shows |-> "waiting", named |-> FALSE]
             \/ lost
==============================================================================
