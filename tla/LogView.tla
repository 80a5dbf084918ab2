------------------------------- MODULE LogView -------------------------------
(* What the log page shows of a stream: the ring buffer that keeps every     *)
(* entry, the terminal that gets the entries passing the display filter, and *)
(* the list that a web worker filters on request.                            *)
(*                                                                           *)
(* The page and the worker exchange messages in order, each way.  Timers of  *)
(* the page are flags, and their firing is an action.  Entries are numbered  *)
(* in the order of arrival; the level stands for all that a filter looks at. *)
(* A filter has a part that is applied after a pause in typing (levels, tag, *)
(* keyword) and a part applied at once (the suppression rules).              *)
EXTENDS Naturals, Sequences, SequencesExt, FiniteSets

CONSTANTS
    Levels,
    Filters,      \* [levels, hidden]: the levels to show ({}: all), and the
                  \* levels that a suppression rule hides
    Capacity,     \* of the ring buffer
    MaxEntries,   \* bound: entries that arrive in a behaviour
    MaxRequests   \* bound: messages between page and worker

VARIABLES
    ring,      \* ringBufferRef, oldest first
    received,  \* entries so far
    epoch,     \* ghost: the first entry since the last clear
    live,      \* subscribed to the stream
    filter,    \* displayFilterRef: the filter the user sees selected
    list,      \* filteredEntries
    request,   \* requestIdRef
    toWorker,  \* messages to the worker: a new config, or a filter request
    config,    \* the worker's own copy of the filter
    toPage,    \* results of the worker
    terminal,  \* the terminal's lines, and whether the page has a terminal
    writes,    \* writeBufferRef
    timers     \* what is scheduled

viewVars == <<ring, received, epoch, live, filter, list, request, toWorker,
              config, toPage, terminal, writes, timers>>

Timers == {"flush",      \* workerTimerRef, 50 ms after an entry
           "debounce",   \* clientDebounceRef, 150 ms after a new filter
           "frame",      \* rAFIdRef: the next animation frame writes
           "snapshot",   \* the frame in which a new terminal is filled
           "ingest"}     \* startupReplayTimerRef: only the ring is filled

Entries == [n : 1..MaxEntries, level : Levels]

TypeOK ==
    /\ ring \in Seq(Entries) /\ Len(ring) <= Capacity
    /\ received \in 0..MaxEntries /\ epoch \in 1..(MaxEntries + 1)
    /\ live \in BOOLEAN
    /\ filter \in Filters
    /\ config \in [levels : SUBSET Levels, hidden : SUBSET Levels]
    /\ list \in Seq(Entries) /\ writes \in Seq(Entries)
    /\ request \in 0..MaxRequests
    /\ terminal \in [open : BOOLEAN, lines : Seq(Entries)]
    /\ timers \subseteq Timers

Init ==
    /\ ring = <<>> /\ received = 0 /\ epoch = 1 /\ live = FALSE
    /\ filter \in Filters /\ config = [levels |-> {}, hidden |-> filter.hidden]
    /\ list = <<>> /\ request = 0 /\ toWorker = <<>> /\ toPage = <<>>
    /\ terminal = [open |-> FALSE, lines |-> <<>>]
    /\ writes = <<>> /\ timers = {"debounce"}

-----------------------------------------------------------------------------
(* log-display-filter.ts and the first four stages of the worker.            *)
Passes(e, f) ==
    /\ f.levels = {} \/ e.level \in f.levels
    /\ e.level \notin f.hidden

(* The entries of s that pass f, in their order; a recursive function, as    *)
(* SelectSeq is not open to proofs.                                          *)
Filtered(s, f) ==
    LET kept[i \in 0 .. Len(s)] ==
            IF i = 0 THEN <<>>
            ELSE IF Passes(s[i], f) THEN Append(kept[i - 1], s[i])
            ELSE kept[i - 1]
    IN  kept[Len(s)]

\* Mutant: a full buffer grows.
PushedOnTop(s, e) == Append(s, e)

(* RingBuffer.push: the newest entry replaces the oldest of a full buffer.   *)
Pushed(s, e) == IF Len(s) < Capacity THEN Append(s, e) ELSE Append(Tail(s), e)

(* filterEntries: the request carries the entries of now and a new number.   *)
Ask(queue) ==
    /\ request < MaxRequests
    /\ request' = request + 1
    /\ toWorker' = Append(queue, [type |-> "filter", entries |-> ring,
                                  id |-> request + 1])

FrameIf(wanted, set) == IF wanted THEN set \cup {"frame"} ELSE set

-----------------------------------------------------------------------------
(* handleEntry.                                                              *)
Receive(l) ==
    LET e == [n |-> received + 1, level |-> l]
        shown == terminal.open /\ "ingest" \notin timers /\ Passes(e, filter)
    IN  /\ live /\ received < MaxEntries
        /\ received' = received + 1
        /\ ring' = Pushed(ring, e)
        /\ writes' = IF shown THEN Append(writes, e) ELSE writes
        /\ timers' = FrameIf(shown, timers \cup {"flush"})
        /\ UNCHANGED <<epoch, live, filter, list, request, toWorker, config, toPage,
                       terminal>>

(* The frame of scheduleRafWrite; without a terminal the buffer stays.       *)
WriteFrame ==
    /\ "frame" \in timers
    /\ timers' = timers \ {"frame"}
    /\ IF terminal.open
       THEN /\ terminal' = [terminal EXCEPT !.lines = @ \o writes]
            /\ writes' = <<>>
       ELSE UNCHANGED <<terminal, writes>>
    /\ UNCHANGED <<ring, received, epoch, live, filter, list, request, toWorker,
                   config, toPage>>

(* flushToWorker sends the whole ring, unless it is empty.                   *)
Flush ==
    /\ "flush" \in timers
    /\ timers' = timers \ {"flush"}
    /\ IF ring # <<>> THEN Ask(toWorker) ELSE UNCHANGED <<request, toWorker>>
    /\ UNCHANGED <<ring, received, epoch, live, filter, list, config, toPage,
                   terminal, writes>>

(* The worker's onmessage: a new config replaces one part of its own; a      *)
(* request is filtered with the config it has.                               *)
WorkerStep ==
    /\ toWorker # <<>>
    /\ toWorker' = Tail(toWorker)
    /\ LET m == Head(toWorker) IN
       \/ /\ m.type = "levels"
          /\ config' = [config EXCEPT !.levels = m.value] /\ UNCHANGED toPage
       \/ /\ m.type = "hidden"
          /\ config' = [config EXCEPT !.hidden = m.value] /\ UNCHANGED toPage
       \/ /\ m.type = "filter"
          /\ toPage' = Append(toPage, [entries |-> Filtered(m.entries, config),
                                       id |-> m.id])
          /\ UNCHANGED config
    /\ UNCHANGED <<ring, received, epoch, live, filter, list, request, terminal,
                   writes, timers>>

\* Mutant: any result is taken.
TakeAnyResult ==
    /\ toPage # <<>>
    /\ toPage' = Tail(toPage)
    /\ list' = Head(toPage).entries
    /\ UNCHANGED <<ring, received, epoch, live, filter, request, toWorker,
                   config, terminal, writes, timers>>

(* A result that is not of the newest request is dropped.                    *)
TakeResult ==
    /\ toPage # <<>>
    /\ toPage' = Tail(toPage)
    /\ list' = IF Head(toPage).id = request THEN Head(toPage).entries ELSE list
    /\ UNCHANGED <<ring, received, epoch, live, filter, request, toWorker,
                   config, terminal, writes, timers>>

\* Mutant: the request overtakes the new config.
RefilterFirst(part, f, left) ==
    /\ Ask(toWorker)
    /\ IF terminal.open
       THEN /\ terminal' = [terminal EXCEPT !.lines = <<>>]
            /\ writes' = Filtered(ring, f)
       ELSE UNCHANGED <<terminal, writes>>
    /\ timers' = FrameIf(terminal.open /\ Filtered(ring, f) # <<>>, left)

(* Refilter the ring with a new part of the filter, f being the whole of it. *)
Refilter(part, f, left) ==
    /\ Ask(Append(toWorker, [type |-> part, value |-> f[part]]))
    /\ IF terminal.open
       THEN /\ terminal' = [terminal EXCEPT !.lines = <<>>]
            /\ writes' = Filtered(ring, f)
       ELSE UNCHANGED <<terminal, writes>>
    /\ timers' = FrameIf(terminal.open /\ Filtered(ring, f) # <<>>, left)

(* Other levels, tags or keywords: new entries are judged by them at once,   *)
(* the list and the terminal follow 150 ms later.                            *)
SetLevels(f) ==
    /\ f.levels # filter.levels /\ f.hidden = filter.hidden
    /\ filter' = f
    /\ timers' = timers \cup {"debounce"}
    /\ UNCHANGED <<ring, received, epoch, live, list, request, toWorker, config,
                   toPage, terminal, writes>>

ApplyLevels ==
    /\ "debounce" \in timers
    /\ Refilter("levels", filter, timers \ {"debounce"})
    /\ UNCHANGED <<ring, received, epoch, live, filter, list, config, toPage>>

(* Another suppression rule takes effect at once.                            *)
SetRules(f) ==
    /\ f.hidden # filter.hidden /\ f.levels = filter.levels
    /\ filter' = f
    /\ Refilter("hidden", f, timers)
    /\ UNCHANGED <<ring, received, epoch, live, list, config, toPage>>

(* The terminal view is opened; the frame that follows fills it with what    *)
(* the list shows.                                                           *)
ShowTerminal ==
    /\ ~terminal.open
    /\ terminal' = [open |-> TRUE, lines |-> <<>>]
    /\ timers' = timers \cup {"snapshot"}
    /\ UNCHANGED <<ring, received, epoch, live, filter, list, request, toWorker,
                   config, toPage, writes>>

\* Mutant: the lines the terminal has are left there.
FillTerminalOnTop ==
    /\ "snapshot" \in timers
    /\ writes' = list
    /\ timers' = FrameIf(list # <<>>, timers \ {"snapshot"})
    /\ UNCHANGED <<ring, received, epoch, live, filter, list, request, toWorker,
                   config, toPage, terminal>>

FillTerminal ==
    /\ "snapshot" \in timers
    /\ terminal' = [terminal EXCEPT !.lines = <<>>]
    /\ writes' = list
    /\ timers' = FrameIf(list # <<>>, timers \ {"snapshot"})
    /\ UNCHANGED <<ring, received, epoch, live, filter, list, request, toWorker,
                   config, toPage>>

ShowList ==
    /\ terminal.open
    /\ terminal' = [open |-> FALSE, lines |-> <<>>]
    /\ timers' = timers \ {"snapshot"}
    /\ UNCHANGED <<ring, received, epoch, live, filter, list, request, toWorker,
                   config, toPage, writes>>

(* clearLogs; the number of the newest request moves on, so that the result  *)
(* of one that is under way is dropped.                                      *)
Cleared(left) ==
    /\ request < MaxRequests
    /\ ring' = <<>> /\ list' = <<>> /\ writes' = <<>>
    /\ request' = request + 1
    /\ epoch' = received + 1
    /\ terminal' = [terminal EXCEPT !.lines = <<>>]
    /\ timers' = left
    /\ UNCHANGED <<received, filter, toWorker, config, toPage>>

Clear == Cleared(timers \ {"frame", "flush"}) /\ UNCHANGED live

(* A start of the stream clears, and lets the first burst only fill the ring.*)
StartStream ==
    /\ Cleared((timers \ {"frame", "flush"}) \cup {"ingest"})
    /\ live' = TRUE

(* The burst is over: the terminal gets the ring.                            *)
StartupReplay ==
    /\ "ingest" \in timers
    /\ IF terminal.open
       THEN /\ terminal' = [terminal EXCEPT !.lines = <<>>]
            /\ writes' = Filtered(ring, filter)
       ELSE UNCHANGED <<terminal, writes>>
    /\ timers' = FrameIf(terminal.open /\ Filtered(ring, filter) # <<>>,
                         timers \ {"ingest"})
    /\ UNCHANGED <<ring, received, epoch, live, filter, list, request, toWorker,
                   config, toPage>>

(* A pause drops the frame and the flush that are scheduled.                 *)
Pause ==
    /\ live
    /\ live' = FALSE
    /\ timers' = timers \ {"frame", "flush"}
    /\ UNCHANGED <<ring, received, epoch, filter, list, request, toWorker,
                   config, toPage, terminal, writes>>

PageSteps == WriteFrame \/ Flush \/ TakeResult \/ ApplyLevels \/ FillTerminal
             \/ StartupReplay

Next ==
    \/ \E l \in Levels : Receive(l)
    \/ PageSteps
    \/ WorkerStep
    \/ \E f \in Filters : SetLevels(f) \/ SetRules(f)
    \/ ShowTerminal \/ ShowList
    \/ Clear \/ StartStream \/ Pause

Spec == Init /\ [][Next]_viewVars

-----------------------------------------------------------------------------
AtRest == live /\ timers = {} /\ toWorker = <<>> /\ toPage = <<>>

(* The list converges: when every timer has fired and every message is       *)
(* taken, it holds the entries of the ring that pass the filter of now, and  *)
(* all of them; no flush, config or result is lost or applied out of order.  *)
ListSettles == AtRest => list = Filtered(ring, filter)

(* A clear is final: nothing that came before it is shown again, not even by *)
(* a worker that was filtering it (useFilterPipeline.ts:31, 68).             *)
NothingReturnsAfterAClear ==
    \A e \in ToSet(list) \cup ToSet(terminal.lines) \cup ToSet(writes) :
        e.n >= epoch

(* The terminal never shows a line twice or out of order, however replays,   *)
(* new entries and animation frames interleave.                              *)
TerminalInOrder ==
    LET shown == terminal.lines \o (IF terminal.open THEN writes ELSE <<>>)
    IN  \A i, j \in DOMAIN shown : i < j => shown[i].n < shown[j].n

(* The terminal and the list agree ("terminal and list are aligned",         *)
(* useLogStream.ts:206-210, 245).  Does not hold: a terminal that is opened  *)
(* while a result is under way is filled from the list before it.            *)
TerminalShowsTheList ==
    AtRest /\ terminal.open => ToSet(list) \subseteq ToSet(terminal.lines)
=============================================================================
