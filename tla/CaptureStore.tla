------------------------------ MODULE CaptureStore ----------------------------
(* The requests of one device in the frontend's store of captured requests   *)
(* (networkCaptureStore.ts).  A request and its response come as messages of *)
(* their own, in any order and more than once, and are merged by key into    *)
(* one entry.  An entry carries a status exactly when it carries a response. *)
(*                                                                           *)
(* The order of the list matters to none of the operations, so it is a set.  *)
EXTENDS Integers, FiniteSets

CONSTANTS
    Keys,        \* what getNetworkRequestKey returns
    Clients,     \* who may disconnect
    Times,       \* timestamps, a set of numbers
    MaxRequests, \* MAX_REQUESTS_PER_DEVICE
    Warning,     \* MEMORY_WARNING_THRESHOLD
    MaxCount,    \* bound: messages counted since the last count
    None

Status == {"success", "error"}

VARIABLES
    requests,  \* the entries and the boundary markers
    count,     \* successCount, errorCount
    managed,   \* isRunning of the global cache manager
    whole      \* ghost: for each key, all that its messages said together

captureVars == <<requests, count, managed, whole>>

Message == [key : Keys, status : Status \cup {None}, body : BOOLEAN,
            mocked : BOOLEAN, time : Times]
Marker == [client : Clients, time : Times]

Entries == requests \cap Message
With(s) == {r \in Entries : r.status = s}

TypeOK ==
    /\ requests \subseteq Message \cup Marker
    /\ count \in [Status -> Nat]
    /\ managed \in BOOLEAN
    /\ whole \in [Keys -> Message \cup {None}]

Init ==
    /\ requests = {}
    /\ count = [s \in Status |-> 0]
    /\ managed = FALSE
    /\ whole = [k \in Keys |-> None]

-----------------------------------------------------------------------------
Earlier(s, t) == IF s <= t THEN s ELSE t

\* Mutant: an answer that is known already hides that a later one is mocked.
JoinOldMark(old, new) ==
    LET base == IF new.status # None /\ old.status = None THEN new ELSE old IN
    [base EXCEPT
        !.status = IF new.status # None THEN new.status ELSE old.status,
        !.body   = new.body \/ old.body,
        !.time   = Earlier(old.time, new.time)]

(* What two messages say together, whatever case of addRequest it is: the    *)
(* case says which of them the other fields come from.                       *)
Join(old, new) ==
    LET base == IF new.status # None /\ old.status = None THEN new ELSE old IN
    [base EXCEPT
        !.status = IF new.status # None THEN new.status ELSE old.status,
        !.body   = new.body \/ old.body,
        !.mocked = old.mocked \/ new.mocked,
        !.time   = Earlier(old.time, new.time)]

(* The same without the cases.                                               *)
Said(told, m) ==
    [key    |-> m.key,
     status |-> IF m.status = None THEN told.status ELSE m.status,
     body   |-> told.body \/ m.body,
     mocked |-> told.mocked \/ m.mocked,
     time   |-> Earlier(told.time, m.time)]

\* Mutant: only the first message of an entry is counted.
ReceiveCountsNew(m) ==
    LET known == {r \in Entries : r.key = m.key} IN
    /\ count["success"] + count["error"] < MaxCount
    /\ IF known = {} THEN requests' = requests \cup {m}
       ELSE \E old \in known : requests' = (requests \ {old}) \cup {Join(old, m)}
    /\ count' = IF m.status = None \/ known # {} THEN count
                ELSE [count EXCEPT ![m.status] = @ + 1]
    /\ managed' = TRUE
    /\ whole' = [whole EXCEPT ![m.key] = IF @ = None THEN m ELSE Said(@, m)]

(* addRequest, and the count that the listener makes of every message.       *)
Receive(m) ==
    LET known == {r \in Entries : r.key = m.key} IN
    /\ count["success"] + count["error"] < MaxCount
    /\ IF known = {} THEN requests' = requests \cup {m}
       ELSE \E old \in known : requests' = (requests \ {old}) \cup {Join(old, m)}
    /\ count' = IF m.status = None THEN count
                ELSE [count EXCEPT ![m.status] = @ + 1]
    /\ managed' = TRUE
    /\ whole' = [whole EXCEPT ![m.key] = IF @ = None THEN m ELSE Said(@, m)]

(* addBoundaryMarker: one entry for one disconnection.                       *)
Disconnect(b) ==
    /\ requests' = requests \cup {b}
    /\ UNCHANGED <<count, managed, whole>>

(* What the list no longer holds starts anew with its next message.          *)
Keep(kept) ==
    /\ requests' = kept
    /\ whole' = [k \in Keys |->
                    IF \E r \in kept \cap Message : r.key = k THEN whole[k] ELSE None]

(* setRequests: the entries ticked on the page are deleted.                  *)
DeleteSelected(keys) ==
    /\ Keep({r \in requests : r \in Message => r.key \notin keys})
    /\ UNCHANGED <<count, managed>>

(* clearRequests.                                                            *)
ClearRequests ==
    /\ Keep({})
    /\ count' = [s \in Status |-> 0]
    /\ UNCHANGED managed

(* The count that syncStatus makes of the list.                              *)
Recount ==
    /\ count' = [s \in Status |-> Cardinality(With(s))]
    /\ UNCHANGED <<requests, managed, whole>>

(* Sorted before: the markers, then the younger.                             *)
Before(r, s) ==
    IF r \in Marker THEN s \in Message \/ r.time >= s.time
    ELSE s \in Message /\ r.time >= s.time

(* cleanupCache, as the timer of the cache manager calls it: what is older   *)
(* than the expiry time goes, and what the list has no room for.             *)
CleanupCache(expiry) ==
    LET fresh == {r \in requests : r \in Message => r.time > expiry} IN
    /\ managed
    /\ Cardinality(requests) > Warning
    /\ \E kept \in SUBSET fresh :
        /\ IF Cardinality(fresh) <= MaxRequests THEN kept = fresh
           ELSE Cardinality(kept) = MaxRequests
        /\ \A r \in kept, s \in fresh \ kept : Before(r, s)
        /\ Keep(kept)
    /\ UNCHANGED <<count, managed>>

Next ==
    \/ \E m \in Message : Receive(m)
    \/ \E b \in Marker : Disconnect(b)
    \/ \E keys \in SUBSET Keys \ {{}} : DeleteSelected(keys)
    \/ ClearRequests \/ Recount
    \/ \E t \in Times \cup {0} : CleanupCache(t)

Spec == Init /\ [][Next]_captureVars

-----------------------------------------------------------------------------
(* One entry per request, and it holds all that the messages since the entry *)
(* was made said, whichever came first: the body, the mark of a mocked       *)
(* answer, the earliest time and the latest status.                          *)
EntriesAreWhole ==
    /\ \A r, s \in Entries : r.key = s.key => r = s
    /\ \A r \in Entries : r = whole[r.key]

(* The counters never show fewer successes or errors than the list holds:    *)
(* messages are counted one by one, entries are merged, deleted and expired. *)
CountsCoverTheList == \A s \in Status : count[s] >= Cardinality(With(s))
==============================================================================
