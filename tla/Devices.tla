-------------------------------- MODULE Devices -------------------------------
(* The device that each window of Hadice works with (deviceStore.ts,         *)
(* device-selection.ts).  The main window has the list with the selector;    *)
(* a panel that is opened as a window of its own inherits the device of the  *)
(* main window and loads the list once.  A selection goes to the backend,    *)
(* which keeps the key and tells all windows.                                *)
EXTENDS Naturals, Sequences, FiniteSets

CONSTANTS
    Keys,        \* connect keys of devices
    Main,        \* the main window
    Panels,      \* windows of panels
    MaxRequests, \* bound: calls of SetSelectedConnectKey in progress
    MaxEvents,   \* bound: events that a window has still to handle
    None

Windows == {Main} \cup Panels

VARIABLES
    attached,  \* the devices that are connected
    key,       \* selectedConnectKey of the backend
    window,    \* "closed", "new" until the list has come, then "open", or
               \* "bare" if it could not be read
    url,       \* the device in the URL of a panel that opens
    list,      \* devices
    selected,  \* selectedDevice
    preferred, \* preferredConnectKey
    asked,     \* the windows whose ListAllDevices is to be served
    answer,    \* the list under way to a window
    requests,  \* calls of SetSelectedConnectKey: the key, and who made them
    events,    \* device-selected events under way to a window
    settled    \* ghost: the choice that all windows have been told of

devicesVars == <<attached, key, window, url, list, selected, preferred, asked,
                 answer, requests, events, settled>>

TypeOK ==
    /\ attached \subseteq Keys
    /\ {key, settled} \subseteq Keys \cup {None}
    /\ window \in [Windows -> {"closed", "new", "open", "bare"}]
    /\ url \in [Windows -> Keys \cup {None}]
    /\ list \in [Windows -> SUBSET Keys]
    /\ selected \in [Windows -> Keys \cup {None}]
    /\ preferred \in [Windows -> Keys \cup {None}]
    /\ asked \subseteq Windows
    /\ answer \in [Windows -> (SUBSET Keys) \cup {None}]
    /\ requests \subseteq [key : Keys, by : {"user", "initialize"}]
    /\ events \in [Windows -> Seq(Keys)]

(* The main window starts with what localStorage remembers, which may be any *)
(* device, and asks for the list.                                            *)
Init ==
    /\ attached \in SUBSET Keys
    /\ key = None /\ settled = None
    /\ window = [w \in Windows |-> IF w = Main THEN "new" ELSE "closed"]
    /\ url = [w \in Windows |-> None]
    /\ list = [w \in Windows |-> {}]
    /\ \E last \in Keys \cup {None} :
        selected = [w \in Windows |-> IF w = Main THEN last ELSE None]
    /\ preferred = selected
    /\ asked = {Main}
    /\ answer = [w \in Windows |-> None]
    /\ requests = {}
    /\ events = [w \in Windows |-> <<>>]

-----------------------------------------------------------------------------
Set(f, w, v) == [f EXCEPT ![w] = v]
Or(k, other) == IF k = None THEN other ELSE k

(* resolveSelectedDevice with the fallback that setDevices asks for: the     *)
(* list is in no order that means anything.                                  *)
Resolve(devices, wish, result) ==
    IF wish \in devices THEN result = wish
    ELSE IF devices = {} THEN result = None ELSE result \in devices

(* applyRemoteDeviceKey: a device that is not in the list is remembered for  *)
(* later.                                                                    *)
Applied(w, k, current) == IF k \in list'[w] THEN k ELSE current

Ask(k, by) ==
    IF k = None THEN UNCHANGED requests
    ELSE /\ Cardinality(requests) < MaxRequests
         /\ requests' = requests \cup {[key |-> k, by |-> by]}

(* Choices that meet a window that opens, or one another, are not settled.   *)
Unsettled == \/ \E w \in Panels : window[w] = "new"
             \/ window[Main] = "new"
             \/ Cardinality(requests) > 1

-----------------------------------------------------------------------------
(* setDevices, and for a window that opens the rest of initialize and of the *)
(* effect of App.tsx: the selection is sent to the backend, then the device  *)
(* of the URL is applied once more.                                          *)
SetDevices(w) ==
    /\ answer[w] # None /\ window[w] # "closed"
    /\ list' = Set(list, w, answer[w])
    /\ answer' = Set(answer, w, None)
    /\ window' = Set(window, w, "open")
    /\ \E found \in Keys \cup {None} :
        /\ Resolve(answer[w], Or(preferred[w], selected[w]), found)
        /\ LET old == Or(preferred[w], selected[w])
               wish == IF answer[w] = {} THEN Or(found, old) ELSE found
               again == window[w] = "new" /\ url[w] # None IN
           /\ selected'  =
                  Set(selected, w, IF again THEN Applied(w, url[w], found) ELSE found)
           /\ preferred' = Set(preferred, w, IF again THEN url[w] ELSE wish)
        /\ IF window[w] = "new" THEN Ask(found, "initialize")
           ELSE UNCHANGED requests
    /\ url' = Set(url, w, None)
    /\ settled' = IF settled \in answer[w] THEN settled ELSE None
    /\ UNCHANGED <<attached, key, asked, events>>

(* ListAllDevices.                                                           *)
ServeList(w) ==
    /\ w \in asked
    /\ asked' = asked \ {w}
    /\ answer' = Set(answer, w, attached)
    /\ UNCHANGED <<attached, key, window, url, list, selected, preferred,
                   requests, events, settled>>

(* refreshDevices swallows the error, so that initialize goes on with the    *)
(* device that localStorage remembers.                                       *)
ListFails(w) ==
    /\ w \in asked
    /\ asked' = asked \ {w}
    /\ IF window[w] = "new"
       THEN /\ window' = Set(window, w, "bare")
            /\ \E last \in IF w = Main THEN {selected[w]} ELSE Keys \cup {None} :
                /\ selected' = Set(selected, w, last)
                /\ Ask(last, "initialize")
            /\ preferred' = Set(preferred, w, Or(url[w], preferred[w]))
            /\ url' = Set(url, w, None)
       ELSE UNCHANGED <<window, selected, requests, preferred, url>>
    /\ UNCHANGED <<attached, key, list, answer, events, settled>>

(* refreshDevices, which only the main window has a button for.              *)
Refresh ==
    /\ window[Main] # "new" /\ Main \notin asked /\ answer[Main] = None
    /\ asked' = asked \cup {Main}
    /\ UNCHANGED <<attached, key, window, url, list, selected, preferred, answer,
                   requests, events, settled>>

(* selectDevice.                                                             *)
SelectDevice(k) ==
    /\ k \in list[Main] /\ k # selected[Main]
    /\ selected'  = Set(selected, Main, k)
    /\ preferred' = Set(preferred, Main, k)
    /\ Ask(k, "user")
    /\ settled' = None
    /\ UNCHANGED <<attached, key, window, url, list, asked, answer, events>>

\* Mutant: the windows of panels are not told.
TellMain(k) ==
    /\ Len(events[Main]) < MaxEvents
    /\ events' = [events EXCEPT ![Main] = Append(@, k)]

(* SetSelectedConnectKey: the key is kept, and every window is told.         *)
Tell(k) ==
    /\ \A w \in Windows : Len(events[w]) < MaxEvents
    /\ events' = [w \in Windows |->
                    IF window[w] = "closed" THEN <<>> ELSE Append(events[w], k)]

ServeRequest(r) ==
    /\ r \in requests
    /\ requests' = requests \ {r}
    /\ key' = r.key
    /\ Tell(r.key)
    /\ settled' = IF r.by = "user" /\ ~Unsettled /\ r.key = selected[Main]
                  THEN r.key ELSE None
    /\ UNCHANGED <<attached, window, url, list, selected, preferred, asked,
                   answer>>

\* Mutant: a device that is not in the list is selected all the same.
HandleEventUnlisted(w) ==
    /\ events[w] # <<>>
    /\ events' = Set(events, w, Tail(events[w]))
    /\ preferred' = Set(preferred, w, Head(events[w]))
    /\ selected' = Set(selected, w, Head(events[w]))
    /\ UNCHANGED <<attached, key, window, url, list, asked, answer, requests,
                   settled>>

HandleEvent(w) ==
    /\ events[w] # <<>>
    /\ events' = Set(events, w, Tail(events[w]))
    /\ LET k == Head(events[w]) IN
        /\ preferred' = Set(preferred, w, k)
        /\ selected' =
               Set(selected, w, IF k \in list[w] THEN k ELSE selected[w])
        /\ UNCHANGED <<attached, key, window, url, list, asked, answer, requests,
                       settled>>

-----------------------------------------------------------------------------
(* OpenPanelWindowWithDevice: a new window with the device in its URL, or an *)
(* event to the one that is open.                                            *)
OpenPanel(w) ==
    /\ window[Main] # "new"
    /\ key' = Or(selected[Main], key)
    /\ IF window[w] = "closed"
       THEN /\ url' = Set(url, w, Or(selected[Main], key))
            /\ window' = Set(window, w, "new")
            /\ \E last \in Keys \cup {None} :
                preferred' = Set(preferred, w, Or(url'[w], last))
            /\ asked' = asked \cup {w}
            /\ UNCHANGED <<selected, events>>
       ELSE /\ selected[Main] # None /\ Tell(selected[Main])
            /\ UNCHANGED <<url, window, selected, preferred, asked>>
    /\ settled' = IF settled = selected[Main] THEN settled ELSE None
    /\ UNCHANGED <<attached, list, answer, requests>>

ClosePanel(w) ==
    /\ window[w] # "closed"
    /\ window' = Set(window, w, "closed")
    /\ list' = Set(list, w, {})
    /\ selected' = Set(selected, w, None)
    /\ preferred' = Set(preferred, w, None)
    /\ url' = Set(url, w, None)
    /\ asked' = asked \ {w} /\ answer' = Set(answer, w, None)
    /\ events' = Set(events, w, <<>>)
    /\ UNCHANGED <<attached, key, requests, settled>>

Plug(k) ==
    /\ attached' = IF k \in attached THEN attached \ {k} ELSE attached \cup {k}
    /\ settled' = IF settled = k THEN None ELSE settled
    /\ UNCHANGED <<key, window, url, list, selected, preferred, asked, answer,
                   requests, events>>

Next ==
    \/ \E w \in Windows :
        SetDevices(w) \/ ServeList(w) \/ ListFails(w) \/ HandleEvent(w)
    \/ \E w \in Panels : OpenPanel(w) \/ ClosePanel(w)
    \/ \E k \in Keys : SelectDevice(k) \/ Plug(k)
    \/ \E r \in requests : ServeRequest(r)
    \/ Refresh

Spec == Init /\ [][Next]_devicesVars

-----------------------------------------------------------------------------
(* A window that has its list works with a device of that list, and with     *)
(* some device if there is one.                                              *)
SelectionIsListed == \A w \in Windows :
    window[w] = "open" => /\ selected[w] \in list[w] \cup {None}
                          /\ selected[w] = None => list[w] = {}

(* A choice that met no window that was opening reaches every window that    *)
(* lists the device, and stays: what was refreshed, opened and told in       *)
(* between does not bring an older one back.                                 *)
ChoicesReachAllWindows ==
    settled # None /\ requests = {} =>
        \A w \in Windows :
            window[w] = "open" /\ events[w] = <<>> /\ settled \in list[w] =>
                selected[w] = settled
==============================================================================
