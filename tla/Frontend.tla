------------------------------- MODULE Frontend -------------------------------
(* The modules of the user interface, one of them at a time: `part' is the   *)
(* one that runs, and the others rest at None.  They share no variable.  The *)
(* ring buffer rests in its initial state, because what it implements is a   *)
(* property of its steps.                                                    *)
EXTENDS RingBuffer

CONSTANTS
    Devices,            \* connect keys
    Hooks, Pids,        \* LogStream
    Levels, Filters, ViewCapacity, MaxEntries, MaxFilterings,    \* LogView
    Packages, Installed, DiskCache, MaxLoads,                    \* LogApps
    RequestKeys, Clients, Times, MaxCaptured, Warning, MaxCount, \* CaptureStore
    AndroidCalls, MaxAndroidChannel,                             \* AndroidPage
    Foreign, HiProfilerCalls, MaxHiProfilerChannel,              \* HiProfilerPage
    Main, Panels, MaxSelections, MaxEvents,                      \* Devices
    Processes, ShellWindows, ShellCalls                          \* ShellSession

VARIABLES
    part,
    hook, stream, stops,
    ring, received, epoch, live, filter, list, request, toWorker, config, toPage,
    terminal, writes, timers,
    device, catalog, diskRead, flags, loads, selected, saved, chosen,
    requests, count, managed, whole,
    session, toSend, channel, status, mounted, calls, asked, check, lost,
    hpSession, hpChannel, hpDevice, hpStatus, listens, hpCalls, hpAsked, own,
    attached, key, window, url, devices, selectedDevice, preferred, listAsked,
    answer, selections, events, settled,
    activeShell, process, tab, pane, shellCalls

(* Pages are left for good here; LogStream has the hand-over too.            *)
Streams == INSTANCE LogStream WITH HandOvers <- {FALSE}

View == INSTANCE LogView WITH
    Capacity <- ViewCapacity, MaxRequests <- MaxFilterings

Apps == INSTANCE LogApps

Store == INSTANCE CaptureStore WITH Keys <- RequestKeys, MaxRequests <- MaxCaptured

Android == INSTANCE AndroidPage WITH
    Calls <- AndroidCalls, MaxChannel <- MaxAndroidChannel

HiProfiler == INSTANCE HiProfilerPage WITH
    Calls <- HiProfilerCalls, MaxChannel <- MaxHiProfilerChannel,
    session <- hpSession, channel <- hpChannel, device <- hpDevice,
    status <- hpStatus, calls <- hpCalls, asked <- hpAsked

Selection == INSTANCE Devices WITH
    Keys <- Devices, MaxRequests <- MaxSelections, list <- devices,
    selected <- selectedDevice, asked <- listAsked, requests <- selections

Shell == INSTANCE ShellSession WITH
    Windows <- ShellWindows, Calls <- ShellCalls,
    active <- activeShell, calls <- shellCalls

ASSUME FrontendAssumption ==
    /\ None \notin Devices \cup Processes
    /\ Pids # {}
    /\ Filters \subseteq [levels : SUBSET Levels, hidden : SUBSET Levels]
    /\ ViewCapacity \in Nat \ {0} /\ MaxEntries \in Nat /\ MaxFilterings \in Nat
    /\ Installed \in [Devices -> SUBSET Packages] /\ DiskCache \subseteq Packages
    /\ None \notin Store!Status \cup Store!Message
    /\ Main \notin Panels
    /\ AndroidCalls \cap {"page", "check", "nobody"} = {}
    /\ None \notin Android!Steps \cup Android!Events \cup {"asked", "answered"}
    /\ HiProfilerCalls \cap (Devices \cup {"page", "event"}) = {}
    /\ None \notin [of : Devices, step : HiProfiler!Steps]

-----------------------------------------------------------------------------
streamVars == <<hook, stream, stops>>
viewVars == <<ring, received, epoch, live, filter, list, request, toWorker, config,
              toPage, terminal, writes, timers>>
appsVars == <<device, catalog, diskRead, flags, loads, selected, saved, chosen>>
storeVars == <<requests, count, managed, whole>>
androidVars == <<session, toSend, channel, status, mounted, calls, asked, check, lost>>
hiProfilerVars == <<hpSession, hpChannel, hpDevice, hpStatus, listens, hpCalls,
                    hpAsked, own>>
selectionVars == <<attached, key, window, url, devices, selectedDevice, preferred,
                   listAsked, answer, selections, events, settled>>
shellVars == <<activeShell, process, tab, pane, shellCalls>>

StreamsRest == hook = None /\ stream = None /\ stops = None

ViewRests ==
    /\ ring = None /\ received = None /\ epoch = None /\ live = None
    /\ filter = None /\ list = None /\ request = None /\ toWorker = None
    /\ config = None /\ toPage = None /\ terminal = None /\ writes = None
    /\ timers = None

AppsRest ==
    /\ device = None /\ catalog = None /\ diskRead = None /\ flags = None
    /\ loads = None /\ selected = None /\ saved = None /\ chosen = None

StoreRests == requests = None /\ count = None /\ managed = None /\ whole = None

AndroidRests ==
    /\ session = None /\ toSend = None /\ channel = None /\ status = None
    /\ mounted = None /\ calls = None /\ asked = None /\ check = None
    /\ lost = None

HiProfilerRests ==
    /\ hpSession = None /\ hpChannel = None /\ hpDevice = None
    /\ hpStatus = None /\ listens = None /\ hpCalls = None /\ hpAsked = None
    /\ own = None

SelectionRests ==
    /\ attached = None /\ key = None /\ window = None /\ url = None
    /\ devices = None /\ selectedDevice = None /\ preferred = None
    /\ listAsked = None /\ answer = None /\ selections = None
    /\ events = None /\ settled = None

ShellRests ==
    /\ activeShell = None /\ process = None /\ tab = None /\ pane = None
    /\ shellCalls = None

FrontInit ==
    /\ part \in {"ring", "streams", "view", "apps", "store", "android",
                 "hiprofiler", "selection", "shell"}
    /\ Init
    /\ IF part = "streams" THEN Streams!Init ELSE StreamsRest
    /\ IF part = "view" THEN View!Init ELSE ViewRests
    /\ IF part = "apps" THEN Apps!Init ELSE AppsRest
    /\ IF part = "store" THEN Store!Init ELSE StoreRests
    /\ IF part = "android" THEN Android!Init ELSE AndroidRests
    /\ IF part = "hiprofiler" THEN HiProfiler!Init ELSE HiProfilerRests
    /\ IF part = "selection" THEN Selection!Init ELSE SelectionRests
    /\ IF part = "shell" THEN Shell!Init ELSE ShellRests

(* A step of the part that runs.                                            *)
FrontNext ==
    /\ UNCHANGED part
    /\ IF part = "ring" THEN Next ELSE UNCHANGED ringVars
    /\ IF part = "streams" THEN Streams!Next ELSE UNCHANGED streamVars
    /\ IF part = "view" THEN View!Next ELSE UNCHANGED viewVars
    /\ IF part = "apps" THEN Apps!Next ELSE UNCHANGED appsVars
    /\ IF part = "store" THEN Store!Next ELSE UNCHANGED storeVars
    /\ IF part = "android" THEN Android!Next ELSE UNCHANGED androidVars
    /\ IF part = "hiprofiler" THEN HiProfiler!Next ELSE UNCHANGED hiProfilerVars
    /\ IF part = "selection" THEN Selection!Next ELSE UNCHANGED selectionVars
    /\ IF part = "shell" THEN Shell!Next ELSE UNCHANGED shellVars

frontVars ==
    <<part, ringVars, streamVars, viewVars, appsVars, storeVars, androidVars,
      hiProfilerVars, selectionVars, shellVars>>

FrontSpec == FrontInit /\ [][FrontNext]_frontVars

-----------------------------------------------------------------------------
(* The variables of each part have their types.                              *)
FrontTypeOK ==
    /\ part = "streams" => Streams!TypeOK
    /\ part = "view" => View!TypeOK
    /\ part = "apps" => Apps!TypeOK
    /\ part = "store" => Store!TypeOK
    /\ part = "android" => Android!TypeOK
    /\ part = "hiprofiler" => HiProfiler!TypeOK
    /\ part = "selection" => Selection!TypeOK
    /\ part = "shell" => Shell!TypeOK

(* Once no start, stop or timer is under way, each log process that runs is  *)
(* one the mounted page would stop: useLogStream.ts undoes every start that  *)
(* was overtaken.                                                            *)
NoStreamIsLeftBehind == part = "streams" => Streams!NoStreamIsLeftBehind

(* Once nothing is under way, a page that says it streams listens to the     *)
(* selected device, whose process has the filter of now: useLogStream.ts     *)
(* makes up for every change that fell into a start.                         *)
StreamsAreCurrent == part = "streams" => Streams!StreamsAreCurrent

(* When all timers have fired and all messages are taken, the filtered list  *)
(* is what the filter of now leaves of the ring buffer (useFilterPipeline.ts *)
(* and the worker).                                                          *)
ListSettles == part = "view" => View!ListSettles

(* What was there before clearLogs is not shown again, neither by a worker   *)
(* that was filtering it nor by a frame that was about to write it.          *)
NothingReturnsAfterAClear == part = "view" => View!NothingReturnsAfterAClear

(* The terminal shows no line twice and none out of order, however replays,  *)
(* snapshots, new entries and frames interleave (useLogStream.ts).           *)
TerminalInOrder == part = "view" => View!TerminalInOrder

(* Choices of applications are saved under the device for which they were    *)
(* made, whatever order devices, lists and choices change in                 *)
(* (SystemLogsPage.tsx).                                                     *)
SavedWhereChosen == part = "apps" => Apps!SavedWhereChosen

(* A request has one entry, with all that its messages said, in whatever     *)
(* order they came (addRequest of networkCaptureStore.ts).                   *)
EntriesAreWhole == part = "store" => Store!EntriesAreWhole

(* The counters of successes and errors never fall short of the list, which  *)
(* is merged, deleted from and expired on its own (networkCaptureStore.ts).  *)
CountsCoverTheList == part = "store" => Store!CountsCoverTheList

(* With nothing under way, the Android page shows what the backend does,     *)
(* whatever it missed while it was away (AndroidNetworkCapturePage.tsx).     *)
AndroidPageAgrees == part = "android" => Android!QuietPageAgrees

(* With nothing under way, the HiProfiler page shows what the backend does   *)
(* on its device, and it hears of the captures that it started itself        *)
(* (NetworkCapturePage.tsx).                                                 *)
HiProfilerPageAgrees == part = "hiprofiler" =>
    HiProfiler!QuietPageAgrees /\ HiProfiler!OwnCapturesAreHeard

(* An open window works with a device of its list, and with some device if   *)
(* there is one (setDevices and applyRemoteDeviceKey of deviceStore.ts).     *)
SelectionIsListed == part = "selection" => Selection!SelectionIsListed

(* A choice of a device reaches every open window that lists it, and stays   *)
(* (deviceStore.ts, panel_window.go).                                        *)
ChoicesReachAllWindows ==
    part = "selection" => Selection!ChoicesReachAllWindows

(* The shell process that runs is the registered one, and a registered one   *)
(* that has ended is about to be removed (shell.go).                         *)
RegisteredShellRuns == part = "shell" => Shell!RegisteredShellRuns
===============================================================================
