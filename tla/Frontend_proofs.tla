---------------------------- MODULE Frontend_proofs ---------------------------
(* The user interface: what its parts promise, for any values of their       *)
(* constants.                                                                *)
EXTENDS Frontend, FiniteSetTheorems, SequenceTheorems, TLAPS

-----------------------------------------------------------------------------
(* The store of captured requests.                                           *)

StoreAssumption == None \notin Store!Status \cup Store!Message

StoreInv ==
    /\ requests \subseteq Store!Message \cup Store!Marker /\ IsFiniteSet(requests)
    /\ count \in [Store!Status -> Nat]
    /\ whole \in [RequestKeys -> Store!Message \cup {None}]
    /\ Store!EntriesAreWhole
    /\ \A k \in RequestKeys : whole[k] # None => \E r \in Store!Entries : r.key = k
    /\ Store!CountsCoverTheList

(* An instance has the operators of FiniteSets under its own name.           *)
LEMMA StoreCardinality == \A S : Store!Cardinality(S) = Cardinality(S)
  BY DEF Store!Cardinality, Cardinality

(* A marker is no message.                                                   *)
LEMMA MarkersAreApart == Store!Message \cap Store!Marker = {}
<1> SUFFICES ASSUME NEW r \in Store!Message, r \in Store!Marker PROVE FALSE
  OBVIOUS
<1>1. "client" \in DOMAIN r
  BY DEF Store!Marker
<1>2. "client" \notin DOMAIN r
  BY DEF Store!Message
<1> QED BY <1>1, <1>2

LEMMA EntriesAreFinite ==
    ASSUME IsFiniteSet(requests)
    PROVE  IsFiniteSet(Store!Entries) /\ \A s \in Store!Status : IsFiniteSet(Store!With(s))
<1>1. Store!Entries \subseteq requests
  BY DEF Store!Entries
<1>2. IsFiniteSet(Store!Entries)
  BY <1>1, FS_Subset
<1>3. \A s \in Store!Status : Store!With(s) \subseteq Store!Entries
  BY DEF Store!With
<1> QED BY <1>2, <1>3, FS_Subset

LEMMA OneMore ==
    ASSUME NEW S, IsFiniteSet(S), NEW x, NEW T, T = S \cup {x}
    PROVE  /\ IsFiniteSet(T)
           /\ Cardinality(S) \in Nat /\ Cardinality(T) \in Nat
           /\ Cardinality(T) <= Cardinality(S) + 1
<1>1. IsFiniteSet(T)
  BY FS_AddElement
<1>2. Cardinality(S) \in Nat /\ Cardinality(T) \in Nat
  BY <1>1, FS_CardinalityType
<1>3. T = S \/ Cardinality(T) = Cardinality(S) + 1
  <2>1. CASE x \in S
    BY <2>1
  <2>2. CASE x \notin S
    BY <2>2, FS_AddElement
  <2> QED BY <2>1, <2>2
<1> QED BY <1>1, <1>2, <1>3

(* The cases of addRequest make no difference to what an entry says.         *)
LEMMA JoinSaysBoth ==
    ASSUME StoreAssumption, NEW old \in Store!Message, NEW m \in Store!Message,
           old.key = m.key
    PROVE  Store!Join(old, m) = Store!Said(old, m) /\ Store!Said(old, m) \in Store!Message
<1>1. Store!Said(old, m) \in Store!Message
  BY DEF Store!Said, Store!Message, Store!Earlier
<1>2. PICK base \in {old, m} :
          Store!Join(old, m) = [base EXCEPT
              !.status = IF m.status # None THEN m.status ELSE old.status,
              !.body   = m.body \/ old.body,
              !.mocked = old.mocked \/ m.mocked,
              !.time   = Store!Earlier(old.time, m.time)]
  BY DEF Store!Join
<1>3. base \in Store!Message /\ base.key = m.key
  BY <1>2
<1> DEFINE st == IF m.status # None THEN m.status ELSE old.status
           bo == m.body \/ old.body
           mo == old.mocked \/ m.mocked
           ti == Store!Earlier(old.time, m.time)
<1>4. Store!Join(old, m) = [base EXCEPT !.status = st, !.body = bo, !.mocked = mo,
                                  !.time = ti]
  BY <1>2
<1>5. st = IF m.status = None THEN old.status ELSE m.status
  OBVIOUS
<1>6. bo = (old.body \/ m.body)
  BY DEF Store!Message
<1>7. Store!Said(old, m) = [key |-> m.key, status |-> st, body |-> bo, mocked |-> mo,
                      time |-> ti]
  BY <1>5, <1>6 DEF Store!Said
<1> HIDE DEF st, bo, mo, ti
<1> DEFINE Fields == {"key", "status", "body", "mocked", "time"}
<1>8. DOMAIN base = Fields
  BY <1>3 DEF Store!Message
<1>9. Store!Join(old, m) = [f \in Fields |-> CASE f = "status" -> st [] f = "body" -> bo
                        [] f = "mocked" -> mo [] f = "time" -> ti
                        [] OTHER -> base[f]]
  BY <1>4, <1>8
<1>10. Store!Join(old, m) = [key |-> base.key, status |-> st, body |-> bo,
                       mocked |-> mo, time |-> ti]
  BY <1>9
<1> QED BY <1>1, <1>3, <1>7, <1>10

LEMMA InitStoreInv == ASSUME StoreAssumption, Store!Init PROVE StoreInv
<1>1. IsFiniteSet(requests) /\ Store!Entries = {}
  BY FS_EmptySet DEF Store!Init, Store!Entries
<1>2. \A s \in Store!Status : Store!With(s) = {} /\ count[s] = 0 /\ Cardinality({}) = 0
  BY <1>1, FS_EmptySet DEF Store!With, Store!Entries, Store!Init
<1> QED BY <1>1, <1>2, StoreCardinality
           DEF Store!Init, StoreInv, Store!EntriesAreWhole,
               Store!CountsCoverTheList

(* What keeps a part of the list keeps both.                                 *)
LEMMA KeepIsWhole ==
    ASSUME StoreAssumption, StoreInv, NEW kept, kept \subseteq requests, Store!Keep(kept)
    PROVE  /\ requests' \subseteq Store!Message \cup Store!Marker /\ IsFiniteSet(requests')
           /\ whole' \in [RequestKeys -> Store!Message \cup {None}]
           /\ Store!EntriesAreWhole'
           /\ (\A k \in RequestKeys : whole[k] # None => \E r \in Store!Entries : r.key = k)'
           /\ \A s \in Store!Status : Store!With(s)' \subseteq Store!With(s)
<1>1. requests' = kept /\ IsFiniteSet(kept)
  BY FS_Subset DEF Store!Keep, StoreInv
<1>2. Store!Entries' = kept \cap Store!Message /\ Store!Entries' \subseteq Store!Entries
  BY <1>1 DEF Store!Entries
<1>3. \A k \in RequestKeys : whole'[k] =
          IF \E r \in Store!Entries' : r.key = k THEN whole[k] ELSE None
  BY <1>2 DEF Store!Keep
<1>4. whole' \in [RequestKeys -> Store!Message \cup {None}]
  BY DEF Store!Keep, StoreInv
<1>5. \A r \in Store!Entries' : r.key \in RequestKeys
  BY <1>2 DEF Store!Message
<1> QED BY <1>1, <1>2, <1>3, <1>4, <1>5
           DEF StoreInv, Store!EntriesAreWhole, Store!With

(* A message leaves one entry of its key, which says all that was said.      *)
LEMMA ReceiveMerges ==
    ASSUME StoreAssumption, StoreInv, NEW m \in Store!Message, Store!Receive(m)
    PROVE  \E x \in Store!Message, known \in SUBSET Store!Entries :
        /\ x.key = m.key /\ whole' = [whole EXCEPT ![m.key] = x]
        /\ known = {r \in Store!Entries : r.key = m.key}
        /\ requests' = (requests \ known) \cup {x}
        /\ \/ known = {} /\ x = m
           \/ \E old \in Store!Message :
                /\ known = {old}
                /\ x.status = IF m.status = None THEN old.status ELSE m.status
<1> DEFINE known == {r \in Store!Entries : r.key = m.key}
<1>0. known \in SUBSET Store!Entries /\ m.key \in RequestKeys
  BY DEF Store!Message
<1>1. CASE known = {}
  <2>1. whole[m.key] = None
    BY <1>0, <1>1 DEF StoreInv
  <2>2. requests' = (requests \ known) \cup {m}
    BY <1>1 DEF Store!Receive
  <2>3. whole' = [whole EXCEPT ![m.key] = m]
    BY <2>1 DEF Store!Receive
  <2> QED BY <1>0, <1>1, <2>2, <2>3
<1>2. CASE known # {}
  <2>1. PICK old \in known : requests' = (requests \ {old}) \cup {Store!Join(old, m)}
    BY <1>2 DEF Store!Receive
  <2>2. known = {old} /\ old \in Store!Message /\ old = whole[m.key]
    BY <2>1 DEF StoreInv, Store!EntriesAreWhole, Store!Entries
  <2>3. Store!Join(old, m) = Store!Said(old, m) /\ Store!Said(old, m) \in Store!Message
    BY <2>1, <2>2, JoinSaysBoth
  <2>4. whole' = [whole EXCEPT ![m.key] = Store!Said(old, m)]
    BY <2>2 DEF Store!Receive, StoreAssumption
  <2>5. /\ Store!Said(old, m).key = m.key
        /\ Store!Said(old, m).status = IF m.status = None THEN old.status ELSE m.status
    BY DEF Store!Said
  <2> HIDE DEF known
  <2>6. requests' = (requests \ known) \cup {Store!Said(old, m)}
    BY <2>1, <2>2, <2>3
  <2> QED BY <1>0, <2>2, <2>3, <2>4, <2>5, <2>6 DEF known
<1> QED BY <1>1, <1>2

LEMMA ReceiveKeeps ==
    ASSUME StoreAssumption, StoreInv, NEW m \in Store!Message, Store!Receive(m)
    PROVE  StoreInv'
<1>1. PICK x \in Store!Message, known \in SUBSET Store!Entries :
        /\ x.key = m.key /\ whole' = [whole EXCEPT ![m.key] = x]
        /\ known = {r \in Store!Entries : r.key = m.key}
        /\ requests' = (requests \ known) \cup {x}
        /\ \/ known = {} /\ x = m
           \/ \E old \in Store!Message :
                /\ known = {old}
                /\ x.status = IF m.status = None THEN old.status ELSE m.status
  BY ReceiveMerges
<1>2. Store!Entries' = (Store!Entries \ known) \cup {x}
  BY <1>1 DEF Store!Entries
<1>3. m.key \in RequestKeys /\ m.status \in Store!Status \cup {None}
  BY DEF Store!Message
<1>4. requests' \subseteq Store!Message \cup Store!Marker /\ IsFiniteSet(requests')
  <2>1. IsFiniteSet(requests \ known)
    BY FS_Subset DEF StoreInv
  <2> QED BY <1>1, <2>1, FS_AddElement DEF StoreInv
<1>5. whole' \in [RequestKeys -> Store!Message \cup {None}]
  BY <1>1, <1>3 DEF StoreInv
<1>6. Store!EntriesAreWhole'
  BY <1>1, <1>2, <1>3 DEF StoreInv, Store!EntriesAreWhole
<1>7. (\A k \in RequestKeys : whole[k] # None => \E r \in Store!Entries : r.key = k)'
  BY <1>1, <1>2, <1>3 DEF StoreInv
<1>8. count' \in [Store!Status -> Nat]
  BY <1>3 DEF Store!Receive, StoreInv
<1>9. ASSUME NEW s \in Store!Status PROVE (count[s] >= Cardinality(Store!With(s)))'
  <2>1. IsFiniteSet(Store!With(s)) /\ Cardinality(Store!With(s)) \in Nat
    BY EntriesAreFinite, FS_CardinalityType DEF StoreInv
  <2>2. count[s] \in Nat /\ count[s] >= Cardinality(Store!With(s))
    BY StoreCardinality DEF StoreInv, Store!CountsCoverTheList
  <2>3. Store!With(s)' \subseteq Store!With(s) \cup {x}
    BY <1>2 DEF Store!With
  <2>4. CASE m.status = s
    <3>1. count'[s] = count[s] + 1
      BY <2>4 DEF Store!Receive, StoreInv, StoreAssumption
    <3>2. PICK more : more = Store!With(s) \cup {x}
      OBVIOUS
    <3>3. /\ IsFiniteSet(more) /\ Cardinality(more) \in Nat
          /\ Cardinality(more) <= Cardinality(Store!With(s)) + 1
      BY <2>1, <3>2, OneMore
    <3>4. /\ Cardinality(Store!With(s)') <= Cardinality(more)
          /\ Cardinality(Store!With(s)') \in Nat
      BY <2>3, <3>2, <3>3, FS_Subset, FS_CardinalityType
    <3> QED BY <2>1, <2>2, <3>1, <3>3, <3>4
  <2>5. CASE m.status # s /\ x.status # s
    <3>1. Store!With(s)' \subseteq Store!With(s)
      BY <1>2, <2>5 DEF Store!With
    <3>2. Cardinality(Store!With(s)') <= Cardinality(Store!With(s)) /\ Cardinality(Store!With(s)') \in Nat
      BY <2>1, <3>1, FS_Subset, FS_CardinalityType
    <3>3. count'[s] = count[s]
      BY <1>3, <2>5 DEF Store!Receive, StoreInv
    <3> QED BY <2>1, <2>2, <3>2, <3>3
  <2>6. CASE m.status # s /\ x.status = s
    <3>1. PICK old \in Store!Message : known = {old} /\ old.status = s /\ m.status = None
      BY <1>1, <1>3, <2>6 DEF StoreAssumption
    <3>2. old \in Store!With(s)
      BY <1>1, <3>1 DEF Store!With
    <3>3. Store!With(s)' \subseteq (Store!With(s) \ {old}) \cup {x}
      BY <1>2, <3>1 DEF Store!With
    <3>4. /\ IsFiniteSet(Store!With(s) \ {old})
          /\ Cardinality(Store!With(s) \ {old}) = Cardinality(Store!With(s)) - 1
      BY <2>1, <3>2, FS_RemoveElement
    <3>5. PICK others, all : others = Store!With(s) \ {old} /\ all = others \cup {x}
      OBVIOUS
    <3>6. /\ IsFiniteSet(all) /\ Cardinality(all) \in Nat
          /\ Cardinality(all) <= Cardinality(Store!With(s))
      <4>1. IsFiniteSet(others) /\ Cardinality(others) = Cardinality(Store!With(s)) - 1
        BY <3>4, <3>5
      <4>2. /\ IsFiniteSet(all) /\ Cardinality(all) \in Nat
            /\ Cardinality(all) <= Cardinality(others) + 1
        BY <3>5, <4>1, OneMore
      <4> QED BY <2>1, <4>1, <4>2
    <3>7. Cardinality(Store!With(s)') <= Cardinality(all) /\ Cardinality(Store!With(s)') \in Nat
      BY <3>3, <3>5, <3>6, FS_Subset, FS_CardinalityType
    <3>8. count'[s] = count[s]
      BY <1>3, <3>1 DEF Store!Receive, StoreInv
    <3> QED BY <2>1, <2>2, <3>6, <3>7, <3>8
  <2> QED BY <2>4, <2>5, <2>6
<1>10. Store!CountsCoverTheList'
  BY <1>9, StoreCardinality DEF Store!CountsCoverTheList
<1> QED BY <1>4, <1>5, <1>6, <1>7, <1>8, <1>10 DEF StoreInv

LEMMA DisconnectKeeps ==
    ASSUME StoreAssumption, StoreInv, NEW b \in Store!Marker, Store!Disconnect(b)
    PROVE  StoreInv'
<1>1. IsFiniteSet(requests')
  BY FS_AddElement DEF Store!Disconnect, StoreInv
<1>2. Store!Entries' = Store!Entries
  BY MarkersAreApart DEF Store!Disconnect, Store!Entries
<1>3. \A s \in Store!Status : Store!With(s)' = Store!With(s)
  BY <1>2 DEF Store!With
<1> QED BY <1>1, <1>2, <1>3
       
          DEF Store!Disconnect, StoreInv, Store!EntriesAreWhole,
              Store!CountsCoverTheList

(* What keeps a part of the list, and the counts, keeps the invariant.       *)
LEMMA KeepKeeps ==
    ASSUME StoreAssumption, StoreInv, NEW kept, kept \subseteq requests, Store!Keep(kept),
           UNCHANGED count
    PROVE  StoreInv'
<1>1. ASSUME NEW s \in Store!Status PROVE (count[s] >= Cardinality(Store!With(s)))'
  <2>1. Store!With(s)' \subseteq Store!With(s)
    BY KeepIsWhole
  <2>2. IsFiniteSet(Store!With(s)) /\ Cardinality(Store!With(s)) \in Nat
    BY EntriesAreFinite, FS_CardinalityType DEF StoreInv
  <2>3. Cardinality(Store!With(s)') <= Cardinality(Store!With(s)) /\ Cardinality(Store!With(s)') \in Nat
    BY <2>1, <2>2, FS_Subset, FS_CardinalityType
  <2>4. count[s] \in Nat /\ count[s] >= Cardinality(Store!With(s))
    BY StoreCardinality DEF StoreInv, Store!CountsCoverTheList
  <2> QED BY <2>2, <2>3, <2>4
<1>2. count' \in [Store!Status -> Nat]
  BY DEF StoreInv
<1> QED BY <1>1, <1>2, KeepIsWhole, StoreCardinality
           DEF StoreInv, Store!CountsCoverTheList

LEMMA ClearRequestsKeeps ==
    ASSUME StoreAssumption, StoreInv, Store!ClearRequests
    PROVE  StoreInv'
<1>1. Store!Keep({}) /\ count' = [s \in Store!Status |-> 0]
  BY DEF Store!ClearRequests
<1>2. Store!Entries' = {}
  BY <1>1 DEF Store!Keep, Store!Entries
<1>3. \A s \in Store!Status : Store!With(s)' = {} /\ Cardinality({}) = 0
  BY <1>2, FS_EmptySet DEF Store!With
<1>4. Store!CountsCoverTheList' /\ count' \in [Store!Status -> Nat]
  BY <1>1, <1>3, StoreCardinality DEF Store!CountsCoverTheList
<1> QED BY <1>1, <1>4, KeepIsWhole DEF StoreInv

LEMMA RecountKeeps ==
    ASSUME StoreAssumption, StoreInv, Store!Recount
    PROVE  StoreInv'
<1>1. Store!Entries' = Store!Entries /\ \A s \in Store!Status : Store!With(s)' = Store!With(s)
  BY DEF Store!Recount, Store!Entries, Store!With
<1>2. \A s \in Store!Status : Cardinality(Store!With(s)) \in Nat
  BY EntriesAreFinite, FS_CardinalityType DEF StoreInv
<1> QED BY <1>1, <1>2, StoreCardinality
           DEF Store!Recount, StoreInv, Store!EntriesAreWhole,
               Store!CountsCoverTheList

LEMMA NextStoreInv ==
    ASSUME StoreAssumption, StoreInv, [Store!Next]_storeVars
    PROVE  StoreInv'
<1>1. ASSUME NEW m \in Store!Message, Store!Receive(m) PROVE StoreInv'
  BY <1>1, ReceiveKeeps
<1>2. ASSUME NEW b \in Store!Marker, Store!Disconnect(b) PROVE StoreInv'
  BY <1>2, DisconnectKeeps
<1>3. ASSUME NEW keys \in SUBSET RequestKeys \ {{}}, Store!DeleteSelected(keys) PROVE StoreInv'
  <2>1. {r \in requests : r \in Store!Message => r.key \notin keys} \subseteq requests
    OBVIOUS
  <2> QED BY <1>3, <2>1, KeepKeeps DEF Store!DeleteSelected
<1>4. CASE Store!ClearRequests
  BY <1>4, ClearRequestsKeeps
<1>5. CASE Store!Recount
  BY <1>5, RecountKeeps
<1>6. ASSUME NEW t \in Times \cup {0}, Store!CleanupCache(t) PROVE StoreInv'
  <2>1. \E kept \in SUBSET requests : Store!Keep(kept) /\ UNCHANGED count
    BY <1>6 DEF Store!CleanupCache
  <2> QED BY <2>1, KeepKeeps
<1>7. CASE UNCHANGED storeVars
  BY <1>7
     DEF storeVars, StoreInv, Store!EntriesAreWhole, Store!CountsCoverTheList,
         Store!With, Store!Entries
<1> QED BY <1>1, <1>2, <1>3, <1>4, <1>5, <1>6, <1>7 DEF Store!Next

StoreHolds == part = "store" => StoreInv

LEMMA StoreHoldsAlways == FrontSpec => []StoreHolds
<1>0. StoreAssumption
  BY FrontendAssumption DEF StoreAssumption
<1>1. FrontInit => StoreHolds
  BY <1>0, InitStoreInv DEF FrontInit, StoreHolds
<1>2. StoreHolds /\ [FrontNext]_frontVars => StoreHolds'
  <2> SUFFICES ASSUME StoreHolds, [FrontNext]_frontVars, part' = "store"
               PROVE  StoreInv'
    BY DEF StoreHolds
  <2>1. part = "store" /\ StoreInv /\ [Store!Next]_storeVars
    BY DEF StoreHolds, FrontNext, frontVars
  <2> QED BY <1>0, <2>1, NextStoreInv
<1> QED BY <1>1, <1>2, PTL DEF FrontSpec

(* A request has one entry with all that its messages said, for any number   *)
(* of requests, clients and messages (addRequest of networkCaptureStore.ts). *)
THEOREM StoreIsWhole == FrontSpec => []EntriesAreWhole
<1>1. StoreHolds => EntriesAreWhole
  BY DEF StoreHolds, StoreInv, EntriesAreWhole
<1> QED BY <1>1, StoreHoldsAlways, PTL

(* The counters never fall short of the list, whatever is merged, deleted    *)
(* and expired (networkCaptureStore.ts).                                     *)
THEOREM CountersCover == FrontSpec => []CountsCoverTheList
<1>1. StoreHolds => CountsCoverTheList
  BY DEF StoreHolds, StoreInv, CountsCoverTheList
<1> QED BY <1>1, StoreHoldsAlways, PTL

-----------------------------------------------------------------------------
(* The shells.                                                               *)

Untouched(p) == process[p].waiter = "waiting" /\ ~process[p].closed

ShellInv ==
    /\ Shell!TypeOK
    /\ Shell!RegisteredShellRuns
    /\ activeShell # None => process[activeShell].state # "none"
    /\ \A p \in Processes :
        /\ process[p].state # "ended" => Untouched(p)
        /\ process[p].waiter = "removing" => process[p].state = "ended"

LEMMA InitShellInv == Shell!Init => ShellInv
  BY DEF Shell!Init, ShellInv, Shell!TypeOK, Shell!RegisteredShellRuns,
         Untouched, Shell!Process, Shell!Call

(* The steps that leave the backend alone.                                   *)
LEMMA PaneStepsKeep ==
    ASSUME ShellInv, UNCHANGED <<activeShell, process>>, Shell!TypeOK'
    PROVE  ShellInv'
  BY DEF ShellInv, Shell!RegisteredShellRuns, Untouched

(* Closing what is registered, and removing it.                              *)
LEMMA StopShellKeeps ==
    ASSUME None \notin Processes, ShellInv, Shell!StopActive, Shell!TypeOK'
    PROVE  ShellInv'
  BY DEF ShellInv, Shell!StopActive, Shell!RegisteredShellRuns, Untouched,
         Shell!TypeOK, Shell!Process

LEMMA StartShellKeeps ==
    ASSUME None \notin Processes, ShellInv, Shell!StartShell, Shell!TypeOK'
    PROVE  ShellInv'
<1>1. CASE UNCHANGED <<activeShell, process>>
  BY <1>1, PaneStepsKeep
<1>2. CASE /\ activeShell = None
           /\ \E p \in Processes :
                /\ process[p].state = "none"
                /\ activeShell' = p
                /\ process' = [process EXCEPT ![p].state = "runs"]
  BY <1>2
     DEF ShellInv, Shell!RegisteredShellRuns, Untouched, Shell!TypeOK,
         Shell!Process
<1> QED BY <1>1, <1>2 DEF Shell!StartShell

LEMMA ShellTypesKept == ASSUME Shell!TypeOK, [Shell!Next]_shellVars PROVE Shell!TypeOK'
<1> USE DEF Shell!TypeOK
<1>1. ASSUME NEW p \in Processes, Shell!Exit(p) \/ Shell!ExitNoticed(p) \/ Shell!Deregister(p)
      PROVE  Shell!TypeOK'
  BY <1>1 DEF Shell!Exit, Shell!ExitNoticed, Shell!Deregister, Shell!Process
<1>2. ASSUME NEW c \in ShellCalls, Shell!Serve(c) PROVE Shell!TypeOK'
  <2>1. shellCalls[c] \in Shell!Call
    BY <1>2 DEF Shell!Serve
  <2>2. shellCalls' \in [ShellCalls -> Shell!Call \cup {None}]
    BY <1>2, <2>1 DEF Shell!Serve, Shell!Call
  <2>3. CASE Shell!StopActive
    BY <1>2, <2>2, <2>3 DEF Shell!Serve, Shell!StopActive, Shell!Process
  <2>4. CASE UNCHANGED <<activeShell, process>>
    BY <1>2, <2>2, <2>4 DEF Shell!Serve
  <2>5. ASSUME NEW p \in Processes, activeShell' = p,
               process' = [process EXCEPT ![p].state = "runs"]
        PROVE  Shell!TypeOK'
    BY <1>2, <2>2, <2>5 DEF Shell!Serve, Shell!Process
  <2> QED BY <1>2, <2>3, <2>4, <2>5 DEF Shell!Serve, Shell!StartShell
<1>3. ASSUME NEW c \in ShellCalls, Shell!Answer(c) PROVE Shell!TypeOK'
  BY <1>3 DEF Shell!Answer, Shell!Call
<1>4. ASSUME NEW w \in ShellWindows, NEW c \in ShellCalls, Shell!Mount(w, c) \/ Shell!PressRestart(w, c)
      PROVE  Shell!TypeOK'
  BY <1>4 DEF Shell!Mount, Shell!PressRestart, Shell!Call
<1>5. CASE Shell!Unmount \/ Shell!CloseTab
  BY <1>5 DEF Shell!Unmount, Shell!CloseTab, Shell!Unmounted, Shell!Call
<1>6. CASE Shell!ServeStop
  BY <1>6 DEF Shell!ServeStop, Shell!StopActive, Shell!Process
<1>7. CASE Shell!Closed \/ UNCHANGED shellVars
  BY <1>7 DEF Shell!Closed, shellVars
<1> QED BY <1>1, <1>2, <1>3, <1>4, <1>5, <1>6, <1>7 DEF Shell!Next

LEMMA NextShellInv ==
    ASSUME None \notin Processes, ShellInv, [Shell!Next]_shellVars
    PROVE  ShellInv'
<1>0. Shell!TypeOK'
  BY ShellTypesKept DEF ShellInv
<1>1. ASSUME NEW p \in Processes, Shell!Exit(p) PROVE ShellInv'
  BY <1>0, <1>1
     DEF ShellInv, Shell!Exit, Shell!RegisteredShellRuns, Untouched,
         Shell!TypeOK, Shell!Process
<1>2. ASSUME NEW p \in Processes, Shell!ExitNoticed(p) PROVE ShellInv'
  BY <1>0, <1>2
     DEF ShellInv, Shell!ExitNoticed, Shell!RegisteredShellRuns, Untouched,
         Shell!TypeOK,
                    Shell!Process
<1>3. ASSUME NEW p \in Processes, Shell!Deregister(p) PROVE ShellInv'
  BY <1>0, <1>3
     DEF ShellInv, Shell!Deregister, Shell!RegisteredShellRuns, Untouched,
         Shell!TypeOK,
                    Shell!Process
<1>4. ASSUME NEW c \in ShellCalls, Shell!Serve(c) PROVE ShellInv'
  BY <1>0, <1>4, StopShellKeeps, StartShellKeeps, PaneStepsKeep DEF Shell!Serve
<1>5. CASE Shell!ServeStop
  BY <1>0, <1>5, StopShellKeeps DEF Shell!ServeStop
<1>6. CASE \/ \E c \in ShellCalls : Shell!Answer(c)
           \/ \E w \in ShellWindows, c \in ShellCalls : Shell!Mount(w, c) \/ Shell!PressRestart(w, c)
           \/ Shell!Unmount \/ Shell!CloseTab \/ Shell!Closed \/ UNCHANGED shellVars
  BY <1>0, <1>6, PaneStepsKeep
    
       DEF Shell!Answer, Shell!Mount, Shell!PressRestart, Shell!Unmount,
           Shell!CloseTab, Shell!Unmounted, Shell!Closed, shellVars
<1> QED BY <1>1, <1>2, <1>3, <1>4, <1>5, <1>6 DEF Shell!Next

ShellHolds == part = "shell" => ShellInv

LEMMA ShellHoldsAlways == FrontSpec => []ShellHolds
<1>0. None \notin Processes
  BY FrontendAssumption
<1>1. FrontInit => ShellHolds
  BY InitShellInv DEF FrontInit, ShellHolds
<1>2. ShellHolds /\ [FrontNext]_frontVars => ShellHolds'
  <2> SUFFICES ASSUME ShellHolds, [FrontNext]_frontVars, part' = "shell"
               PROVE  ShellInv'
    BY DEF ShellHolds
  <2>1. part = "shell" /\ ShellInv /\ [Shell!Next]_shellVars
    BY DEF ShellHolds, FrontNext, frontVars
  <2> QED BY <1>0, <2>1, NextShellInv
<1> QED BY <1>1, <1>2, PTL DEF FrontSpec

(* Every shell process that runs is the registered one, and a registered one *)
(* that has ended is about to be removed, however many windows, calls and    *)
(* processes there are (shell.go).                                           *)
THEOREM ShellsAreInReach == FrontSpec => []RegisteredShellRuns
<1>1. ShellHolds => RegisteredShellRuns
  BY DEF ShellHolds, ShellInv, RegisteredShellRuns
<1> QED BY <1>1, ShellHoldsAlways, PTL

-----------------------------------------------------------------------------
(* The streams of the log page: the invariants of LogStream_proofs hold      *)
(* while this part runs.                                                     *)

StreamProofs == INSTANCE LogStream_proofs WITH HandOvers <- {FALSE}

LEMMA SameStreams ==
    /\ Streams!Init => StreamProofs!Init
    /\ Streams!Next => StreamProofs!Next
<1>1. Streams!Init => StreamProofs!Init
  BY DEF Streams!Init, StreamProofs!Init, Streams!Unmounted,
         StreamProofs!Unmounted, Streams!AnyPids, StreamProofs!AnyPids
<1>2. Streams!Next => StreamProofs!Next
  BY DEF Streams!Next, StreamProofs!Next, Streams!CallReturns,
         StreamProofs!CallReturns, Streams!TimerFires,
         StreamProofs!TimerFires, Streams!Mount, StreamProofs!Mount,
         Streams!SelectDevice, StreamProofs!SelectDevice, Streams!ChangePids,
         StreamProofs!ChangePids, Streams!Pause, StreamProofs!Pause,
         Streams!Resume, StreamProofs!Resume, Streams!Leave,
         StreamProofs!Leave, Streams!StopArrives, StreamProofs!StopArrives,
         Streams!StreamExits, StreamProofs!StreamExits, Streams!StopReturns,
         StreamProofs!StopReturns, Streams!DelayElapsed,
         StreamProofs!DelayElapsed, Streams!StartReturns,
         StreamProofs!StartReturns, Streams!UndoReturns,
         StreamProofs!UndoReturns, Streams!BeginStart,
         StreamProofs!BeginStart, Streams!Unmounted, StreamProofs!Unmounted,
         Streams!FinishStart, StreamProofs!FinishStart, Streams!AnyPids,
         StreamProofs!AnyPids
<1> QED BY <1>1, <1>2

StreamsHold ==
    part = "streams" => StreamProofs!StreamInv /\ StreamProofs!CurrentInv

LEMMA StreamsHoldAlways == FrontSpec => []StreamsHold
<1>1. StreamProofs!StreamAssumption
  BY FrontendAssumption DEF StreamProofs!StreamAssumption
<1>2. FrontInit => StreamsHold
  <2> SUFFICES ASSUME FrontInit, part = "streams"
               PROVE  StreamProofs!StreamInv /\ StreamProofs!CurrentInv
    BY DEF StreamsHold
  <2>1. StreamProofs!Init
    BY SameStreams DEF FrontInit
  <2> QED BY <1>1, <2>1, StreamProofs!InitStreamInv, StreamProofs!InitCurrentInv
<1>3. StreamsHold /\ [FrontNext]_frontVars => StreamsHold'
  <2> SUFFICES ASSUME StreamsHold, [FrontNext]_frontVars, part' = "streams"
               PROVE  (StreamProofs!StreamInv /\ StreamProofs!CurrentInv)'
    BY DEF StreamsHold
  <2>1. part = "streams" /\ StreamProofs!StreamInv /\ StreamProofs!CurrentInv
    BY DEF StreamsHold, FrontNext, frontVars
  <2>2. [StreamProofs!Next]_StreamProofs!logVars
    BY <2>1, SameStreams
       DEF FrontNext, frontVars, streamVars, StreamProofs!logVars
  <2> QED BY <1>1, <2>1, <2>2, StreamProofs!NextStreamInv,
             StreamProofs!NextCurrentInv
<1> QED BY <1>2, <1>3, PTL DEF FrontSpec

(* Once no start, stop or timer is under way, each log process that runs is  *)
(* one that the mounted page would stop, whatever overtook its starts        *)
(* (useLogStream.ts).                                                        *)
THEOREM NoStreamLeft == FrontSpec => []NoStreamIsLeftBehind
<1>1. StreamsHold => NoStreamIsLeftBehind
  <2> SUFFICES ASSUME StreamsHold, part = "streams"
               PROVE  Streams!NoStreamIsLeftBehind
    BY DEF NoStreamIsLeftBehind
  <2>1. StreamProofs!StreamAssumption
    BY FrontendAssumption DEF StreamProofs!StreamAssumption
  <2>2. StreamProofs!NoStreamIsLeftBehind
    BY <2>1, StreamProofs!HoldersAtRest DEF StreamsHold
  <2> QED BY <2>2 DEF Streams!NoStreamIsLeftBehind,
                      StreamProofs!NoStreamIsLeftBehind,
                      Streams!AtRest, StreamProofs!AtRest
<1> QED BY <1>1, StreamsHoldAlways, PTL

(* Once nothing is under way, a page that says it streams listens to the     *)
(* selected device, and the process there has the filter of now              *)
(* (useLogStream.ts).                                                        *)
THEOREM PagesAreCurrent == FrontSpec => []StreamsAreCurrent
<1>1. StreamsHold => StreamsAreCurrent
  <2> SUFFICES ASSUME StreamsHold, part = "streams"
               PROVE  Streams!StreamsAreCurrent
    BY DEF StreamsAreCurrent
  <2>1. StreamProofs!StreamsAreCurrent
    BY StreamProofs!CurrentAtRest DEF StreamsHold
  <2> QED BY <2>1 DEF Streams!StreamsAreCurrent, StreamProofs!StreamsAreCurrent,
                      Streams!AtRest, StreamProofs!AtRest
<1> QED BY <1>1, StreamsHoldAlways, PTL

-----------------------------------------------------------------------------
(* What the log page shows: the invariants of LogView_proofs hold while this *)
(* part runs.                                                                *)

ViewProofs == INSTANCE LogView_proofs WITH
    Capacity <- ViewCapacity, MaxRequests <- MaxFilterings

LEMMA SameView ==
    /\ View!Init => ViewProofs!Init
    /\ View!Next => ViewProofs!Next
<1>1. View!Init => ViewProofs!Init
  BY DEF View!Init, ViewProofs!Init
<1>2. View!Next => ViewProofs!Next
  BY DEF View!Next, ViewProofs!Next, View!Receive, ViewProofs!Receive,
         View!PageSteps, ViewProofs!PageSteps, View!WorkerStep,
         ViewProofs!WorkerStep, View!SetLevels, ViewProofs!SetLevels,
         View!SetRules, ViewProofs!SetRules, View!ShowTerminal,
         ViewProofs!ShowTerminal, View!ShowList, ViewProofs!ShowList,
         View!Clear, ViewProofs!Clear, View!StartStream,
         ViewProofs!StartStream, View!Pause, ViewProofs!Pause, View!Passes,
         ViewProofs!Passes, View!Pushed, ViewProofs!Pushed, View!FrameIf,
         ViewProofs!FrameIf, View!WriteFrame, ViewProofs!WriteFrame,
         View!Flush, ViewProofs!Flush, View!TakeResult, ViewProofs!TakeResult,
         View!ApplyLevels, ViewProofs!ApplyLevels, View!FillTerminal,
         ViewProofs!FillTerminal, View!StartupReplay,
         ViewProofs!StartupReplay, View!Filtered, ViewProofs!Filtered,
         View!Refilter, ViewProofs!Refilter, View!Cleared, ViewProofs!Cleared,
         View!Ask, ViewProofs!Ask
<1> QED BY <1>1, <1>2

ViewInv == ViewProofs!ViewTypes /\ ViewProofs!ViewOrder /\ ViewProofs!Settling

ViewHolds == part = "view" => ViewInv

LEMMA ViewHoldsAlways == FrontSpec => []ViewHolds
<1>1. ViewProofs!ViewAssumption
  BY FrontendAssumption DEF ViewProofs!ViewAssumption
<1>2. FrontInit => ViewHolds
  <2> SUFFICES ASSUME FrontInit, part = "view" PROVE ViewInv
    BY DEF ViewHolds
  <2>1. ViewProofs!Init
    BY SameView DEF FrontInit
  <2> QED BY <1>1, <2>1, ViewProofs!InitTypes, ViewProofs!InitOrder,
             ViewProofs!InitSettles DEF ViewInv
<1>3. ViewHolds /\ [FrontNext]_frontVars => ViewHolds'
  <2> SUFFICES ASSUME ViewHolds, [FrontNext]_frontVars, part' = "view"
               PROVE  ViewInv'
    BY DEF ViewHolds
  <2>1. part = "view" /\ ViewInv
    BY DEF ViewHolds, FrontNext, frontVars
  <2>2. [ViewProofs!Next]_ViewProofs!viewVars
    BY <2>1, SameView DEF FrontNext, frontVars, viewVars, ViewProofs!viewVars
  <2> QED BY <1>1, <2>1, <2>2, ViewProofs!StepTypes, ViewProofs!StepOrder,
             ViewProofs!StepSettles DEF ViewInv
<1> QED BY <1>2, <1>3, PTL DEF FrontSpec

(* A clear is final: no entry from before it is in the list, in the terminal *)
(* or on its way there, whatever the worker was doing (useLogStream.ts,      *)
(* useFilterPipeline.ts).                                                    *)
THEOREM ClearIsFinal == FrontSpec => []NothingReturnsAfterAClear
<1>1. ViewHolds => NothingReturnsAfterAClear
  <2> SUFFICES ASSUME ViewInv PROVE View!NothingReturnsAfterAClear
    BY DEF ViewHolds, NothingReturnsAfterAClear
  <2>1. ViewProofs!ViewAssumption
    BY FrontendAssumption DEF ViewProofs!ViewAssumption
  <2>2. ViewProofs!NothingReturnsAfterAClear
    BY <2>1, ViewProofs!OrderedViewForgets DEF ViewInv
  <2> QED BY <2>2 DEF View!NothingReturnsAfterAClear,
                      ViewProofs!NothingReturnsAfterAClear,
                      View!ToSet, ViewProofs!ToSet
<1> QED BY <1>1, ViewHoldsAlways, PTL

(* The terminal shows no line twice or out of order, however replays, new    *)
(* entries, snapshots and frames interleave (useLogStream.ts).               *)
THEOREM TerminalStaysInOrder == FrontSpec => []TerminalInOrder
<1>1. ViewHolds => TerminalInOrder
  <2> SUFFICES ASSUME ViewInv PROVE View!TerminalInOrder
    BY DEF ViewHolds, TerminalInOrder
  <2>1. ViewProofs!TerminalInOrder
    BY ViewProofs!OrderedViewIsInOrder DEF ViewInv
  <2> QED BY <2>1 DEF View!TerminalInOrder, ViewProofs!TerminalInOrder
<1> QED BY <1>1, ViewHoldsAlways, PTL

(* When every timer has fired and every message is taken, the list is what   *)
(* the filter of now leaves of the ring (useFilterPipeline.ts).              *)
THEOREM FilteredListSettles == FrontSpec => []ListSettles
<1>1. ViewHolds => ListSettles
  <2> SUFFICES ASSUME ViewInv PROVE View!ListSettles
    BY DEF ViewHolds, ListSettles
  <2>1. ViewProofs!ListSettles
    BY ViewProofs!SettledList DEF ViewInv
  <2> QED BY <2>1 DEF View!ListSettles, ViewProofs!ListSettles,
                      View!AtRest, ViewProofs!AtRest,
                      View!Filtered, ViewProofs!Filtered,
                      View!Passes, ViewProofs!Passes
<1> QED BY <1>1, ViewHoldsAlways, PTL

-----------------------------------------------------------------------------
(* The applications of the log page.                                         *)

AppsInv == Apps!TypeOK /\ Apps!SavedWhereChosen /\ selected \subseteq chosen[device]

AppsAssumption ==
    Installed \in [Devices -> SUBSET Packages] /\ DiskCache \subseteq Packages

LEMMA InitAppsInv == ASSUME AppsAssumption, Apps!Init PROVE AppsInv
<1>1. PICK p \in Packages : saved = [d \in Devices |-> {p} \cap Installed[d]]
  BY DEF Apps!Init
<1>2. saved \in [Devices -> SUBSET Packages]
  BY <1>1
<1>3. device \in Devices /\ selected = saved[device] /\ chosen = saved
  BY DEF Apps!Init
<1>4. loads \subseteq Apps!Load /\ flags \in [disk : BOOLEAN, device : BOOLEAN]
  BY DEF Apps!Init, Apps!Load
<1>5. catalog = {} /\ diskRead \in BOOLEAN
  BY DEF Apps!Init
<1> QED BY <1>2, <1>3, <1>4, <1>5 DEF AppsInv, Apps!TypeOK, Apps!SavedWhereChosen

(* What is left of a choice that was saved and shown.                        *)
LEMMA KnownIsLess == \A choice, known : Apps!Known(choice, known) \subseteq choice
  BY DEF Apps!Known

LEMMA StartLoadTypes ==
    ASSUME Apps!TypeOK, NEW d \in Devices, Apps!StartLoad(d)
    PROVE  loads' \subseteq Apps!Load /\ flags' \in [disk : BOOLEAN, device : BOOLEAN]
<1>1. CASE UNCHANGED <<flags, loads>>
  BY <1>1 DEF Apps!TypeOK
<1>2. ASSUME NEW w \in {"disk", "device"},
             loads' = loads \cup {[device |-> d, waits |-> w]},
             flags' = [flags EXCEPT !.disk = TRUE] \/ flags' = [flags EXCEPT !.device = TRUE]
      PROVE  loads' \subseteq Apps!Load /\ flags' \in [disk : BOOLEAN, device : BOOLEAN]
  <2>1. flags' \in [disk : BOOLEAN, device : BOOLEAN]
    BY <1>2 DEF Apps!TypeOK
  <2>2. [device |-> d, waits |-> w] \in Apps!Load
    BY DEF Apps!Load
  <2> QED BY <1>2, <2>1, <2>2 DEF Apps!TypeOK
<1> QED BY <1>1, <1>2 DEF Apps!StartLoad

LEMMA RestoreKeeps ==
    ASSUME AppsInv, NEW d \in Devices, Apps!Restore(d), device' = d,
           UNCHANGED <<catalog, diskRead, chosen>>
    PROVE  AppsInv'
<1>1. loads' \subseteq Apps!Load /\ flags' \in [disk : BOOLEAN, device : BOOLEAN]
  BY StartLoadTypes DEF Apps!Restore, AppsInv
<1>2. selected' \subseteq saved[d] /\ saved' = [saved EXCEPT ![d] = selected']
  BY KnownIsLess DEF Apps!Restore
<1> QED BY <1>1, <1>2 DEF AppsInv, Apps!TypeOK, Apps!SavedWhereChosen

LEMMA UpdateKeeps ==
    ASSUME AppsInv, NEW known \in SUBSET Packages, Apps!Update(known),
           UNCHANGED <<device, chosen>>, loads' \subseteq Apps!Load,
           flags' \in [disk : BOOLEAN, device : BOOLEAN]
    PROVE  AppsInv'
<1>1. selected' \subseteq selected /\ saved' = [saved EXCEPT ![device] = selected']
  BY KnownIsLess DEF Apps!Update
<1> QED BY <1>1 DEF AppsInv, Apps!TypeOK, Apps!SavedWhereChosen, Apps!Update

LEMMA NextAppsInv ==
    ASSUME AppsAssumption, AppsInv, [Apps!Next]_appsVars
    PROVE  AppsInv'
<1>1. ASSUME NEW d \in Devices, Apps!SelectDevice(d) PROVE AppsInv'
  BY <1>1, RestoreKeeps DEF Apps!SelectDevice
<1>2. CASE Apps!Remount
  BY <1>2, RestoreKeeps DEF Apps!Remount, AppsInv, Apps!TypeOK
<1>3. ASSUME NEW l \in Apps!Load, Apps!DiskRead(l) PROVE AppsInv'
  <2> DEFINE again == [l EXCEPT !.waits = "device"]
  <2>1. again \in Apps!Load
    BY DEF Apps!Load
  <2> HIDE DEF again
  <2>2. loads' \subseteq loads \cup {again}
    BY <1>3 DEF Apps!DiskRead, again
  <2>3. \/ flags' = [flags EXCEPT !.disk = FALSE]
        \/ flags' = [disk |-> FALSE, device |-> TRUE]
    BY <1>3 DEF Apps!DiskRead
  <2>4. flags' \in [disk : BOOLEAN, device : BOOLEAN]
    <3>1. ASSUME flags' = [flags EXCEPT !.disk = FALSE]
          PROVE  flags' \in [disk : BOOLEAN, device : BOOLEAN]
      <4>1. flags \in [disk : BOOLEAN, device : BOOLEAN]
        BY DEF AppsInv, Apps!TypeOK
      <4> QED BY <3>1, <4>1
    <3>2. ASSUME flags' = [disk |-> FALSE, device |-> TRUE]
          PROVE  flags' \in [disk : BOOLEAN, device : BOOLEAN]
      BY <3>2
    <3> QED BY <2>3, <3>1, <3>2
  <2>5. /\ loads' \subseteq Apps!Load /\ flags' \in [disk : BOOLEAN, device : BOOLEAN]
        /\ UNCHANGED <<device, chosen>>
    BY <1>3, <2>1, <2>2, <2>4 DEF Apps!DiskRead, AppsInv, Apps!TypeOK
  <2>6. CASE Apps!Update(DiskCache)
    BY <2>5, <2>6, UpdateKeeps DEF AppsAssumption
  <2>7. CASE UNCHANGED <<catalog, diskRead, selected, saved>>
    BY <2>5, <2>7 DEF AppsInv, Apps!TypeOK, Apps!SavedWhereChosen
  <2> QED BY <1>3, <2>6, <2>7 DEF Apps!DiskRead
<1>4. ASSUME NEW l \in Apps!Load, Apps!DeviceRead(l) PROVE AppsInv'
  <2>1. /\ loads' \subseteq Apps!Load /\ flags' \in [disk : BOOLEAN, device : BOOLEAN]
        /\ UNCHANGED <<device, chosen>>
    BY <1>4 DEF Apps!DeviceRead, AppsInv, Apps!TypeOK
  <2>2. Installed[l.device] \in SUBSET Packages
    BY DEF AppsAssumption, Apps!Load
  <2>3. CASE Apps!Update(Installed[l.device])
    BY <2>1, <2>2, <2>3, UpdateKeeps
  <2>4. CASE UNCHANGED <<catalog, diskRead, selected, saved>>
    BY <2>1, <2>4 DEF AppsInv, Apps!TypeOK, Apps!SavedWhereChosen
  <2> QED BY <1>4, <2>3, <2>4 DEF Apps!DeviceRead
<1>5. ASSUME NEW p \in Packages, Apps!Choose(p) \/ Apps!Unchoose(p) PROVE AppsInv'
  BY <1>5 DEF Apps!Choose, Apps!Unchoose, AppsInv, Apps!TypeOK, Apps!SavedWhereChosen
<1>6. CASE UNCHANGED appsVars
  BY <1>6 DEF appsVars, AppsInv, Apps!TypeOK, Apps!SavedWhereChosen
<1> QED BY <1>1, <1>2, <1>3, <1>4, <1>5, <1>6 DEF Apps!Next

AppsHold == part = "apps" => AppsInv

LEMMA AppsHoldAlways == FrontSpec => []AppsHold
<1>0. AppsAssumption
  BY FrontendAssumption DEF AppsAssumption
<1>1. FrontInit => AppsHold
  BY <1>0, InitAppsInv DEF FrontInit, AppsHold
<1>2. AppsHold /\ [FrontNext]_frontVars => AppsHold'
  <2> SUFFICES ASSUME AppsHold, [FrontNext]_frontVars, part' = "apps"
               PROVE  AppsInv'
    BY DEF AppsHold
  <2>1. part = "apps" /\ AppsInv /\ [Apps!Next]_appsVars
    BY DEF AppsHold, FrontNext, frontVars
  <2> QED BY <1>0, <2>1, NextAppsInv
<1> QED BY <1>1, <1>2, PTL DEF FrontSpec

(* A choice of applications is only saved for a device for which it was      *)
(* made, whatever packages each device has (SystemLogsPage.tsx).             *)
THEOREM ChoicesStayApart == FrontSpec => []SavedWhereChosen
<1>1. AppsHold => SavedWhereChosen
  BY DEF AppsHold, AppsInv, SavedWhereChosen
<1> QED BY <1>1, AppsHoldAlways, PTL

-----------------------------------------------------------------------------
(* The selected device.                                                      *)

OpenWindow(w) ==
    window[w] = "open" => /\ selectedDevice[w] \in devices[w] \cup {None}
                          /\ selectedDevice[w] = None => devices[w] = {}

SelectionAssumption == None \notin Devices /\ Main \notin Panels

LEMMA SelectionTypesInit == Selection!Init => Selection!TypeOK
<1> SUFFICES ASSUME Selection!Init PROVE Selection!TypeOK
  OBVIOUS
<1>1. \A w \in Selection!Windows : <<>> \in Seq(Devices)
  OBVIOUS
<1>2. events \in [Selection!Windows -> Seq(Devices)]
  BY <1>1 DEF Selection!Init
<1>3. PICK last \in Devices \cup {None} :
          selectedDevice = [w \in Selection!Windows |-> IF w = Main THEN last ELSE None]
  BY DEF Selection!Init
<1>4. selectedDevice \in [Selection!Windows -> Devices \cup {None}]
  BY <1>3
<1>5. preferred \in [Selection!Windows -> Devices \cup {None}]
  BY <1>4 DEF Selection!Init
<1>6. listAsked \subseteq Selection!Windows
  BY DEF Selection!Init, Selection!Windows
<1>7. /\ attached \subseteq Devices /\ {key, settled} \subseteq Devices \cup {None}
      /\ selections \subseteq [key : Devices, by : {"user", "initialize"}]
  BY DEF Selection!Init
<1>8. /\ window \in [Selection!Windows -> {"closed", "new", "open", "bare"}]
      /\ url \in [Selection!Windows -> Devices \cup {None}]
      /\ devices \in [Selection!Windows -> SUBSET Devices]
  BY DEF Selection!Init
<1>9. answer \in [Selection!Windows -> (SUBSET Devices) \cup {None}]
  BY DEF Selection!Init
<1> QED BY <1>2, <1>4, <1>5, <1>6, <1>7, <1>8, <1>9 DEF Selection!TypeOK

(* What the helpers give.                                                    *)
LEMMA AskTypes ==
    ASSUME Selection!TypeOK, NEW k \in Devices \cup {None},
           NEW by \in {"user", "initialize"}, Selection!Ask(k, by)
    PROVE  selections' \subseteq [key : Devices, by : {"user", "initialize"}]
<1>1. CASE k = None
  BY <1>1 DEF Selection!Ask, Selection!TypeOK
<1>2. CASE k # None
  <2>1. [key |-> k, by |-> by] \in [key : Devices, by : {"user", "initialize"}]
    BY <1>2
  <2> QED BY <1>2, <2>1 DEF Selection!Ask, Selection!TypeOK
<1> QED BY <1>1, <1>2

LEMMA TellTypes ==
    ASSUME Selection!TypeOK, NEW k \in Devices, Selection!Tell(k)
    PROVE  /\ events' \in [Selection!Windows -> Seq(Devices)]
           /\ \A w \in Selection!Windows :
                 events'[w] = IF window[w] = "closed" THEN <<>> ELSE Append(events[w], k)
<1>1. events' = [w \in Selection!Windows |->
                    IF window[w] = "closed" THEN <<>> ELSE Append(events[w], k)]
  BY DEF Selection!Tell
<1>2. \A w \in Selection!Windows : Append(events[w], k) \in Seq(Devices) /\ <<>> \in Seq(Devices)
  BY AppendProperties DEF Selection!TypeOK
<1> QED BY <1>1, <1>2

(* The list comes: what a window works with then.                            *)
LEMMA SetDevicesDoes ==
    ASSUME SelectionAssumption, Selection!TypeOK, NEW w \in Selection!Windows,
           Selection!SetDevices(w)
    PROVE  \E found \in Devices \cup {None}, now \in Devices \cup {None},
              wish \in Devices \cup {None} :
        /\ answer[w] \in SUBSET Devices /\ devices' = [devices EXCEPT ![w] = answer[w]]
        /\ Selection!Resolve(answer[w], Selection!Or(preferred[w], selectedDevice[w]), found)
        /\ selectedDevice' = [selectedDevice EXCEPT ![w] = now]
        /\ preferred' = [preferred EXCEPT ![w] = wish]
        /\ IF window[w] = "new" /\ url[w] # None
           THEN wish = url[w] /\ now = (IF url[w] \in answer[w] THEN url[w] ELSE found)
           ELSE now = found /\ (answer[w] # {} => wish = found)
        /\ selections' \subseteq [key : Devices, by : {"user", "initialize"}]
        /\ IF window[w] = "new" THEN Selection!Ask(found, "initialize")
           ELSE UNCHANGED selections
<1>1. answer[w] \in SUBSET Devices /\ devices' = [devices EXCEPT ![w] = answer[w]]
  <2>1. answer[w] # None /\ devices' = [devices EXCEPT ![w] = answer[w]]
    BY DEF Selection!SetDevices, Selection!Set
  <2>2. answer[w] \in (SUBSET Devices) \cup {None}
    BY DEF Selection!TypeOK
  <2> QED BY <2>1, <2>2
<1>2. devices'[w] = answer[w]
  BY <1>1 DEF Selection!TypeOK
<1> DEFINE old == Selection!Or(preferred[w], selectedDevice[w])
           again == window[w] = "new" /\ url[w] # None
<1>3. PICK found \in Devices \cup {None} :
        /\ Selection!Resolve(answer[w], old, found)
        /\ selectedDevice' = [selectedDevice EXCEPT ![w] =
               IF again THEN Selection!Applied(w, url[w], found) ELSE found]
        /\ preferred' = [preferred EXCEPT ![w] =
               IF again THEN url[w]
               ELSE IF answer[w] = {} THEN Selection!Or(found, old) ELSE found]
        /\ IF window[w] = "new" THEN Selection!Ask(found, "initialize")
           ELSE UNCHANGED selections
  BY DEF Selection!SetDevices, Selection!Set
<1>4. Selection!Applied(w, url[w], found) = IF url[w] \in answer[w] THEN url[w] ELSE found
  BY <1>2 DEF Selection!Applied
<1>5. old \in Devices \cup {None} /\ Selection!Or(found, old) \in Devices \cup {None}
  BY DEF Selection!Or, Selection!TypeOK
<1>6. url[w] \in Devices \cup {None}
  BY DEF Selection!TypeOK
<1>7. selections' \subseteq [key : Devices, by : {"user", "initialize"}]
  BY <1>3, AskTypes DEF Selection!TypeOK
<1> HIDE DEF old
<1> DEFINE now == IF again THEN IF url[w] \in answer[w] THEN url[w] ELSE found ELSE found
           wish == IF again THEN url[w]
                   ELSE IF answer[w] = {} THEN Selection!Or(found, old) ELSE found
<1>8. now \in Devices \cup {None} /\ wish \in Devices \cup {None}
  BY <1>5, <1>6
<1>9. selectedDevice' = [selectedDevice EXCEPT ![w] = now]
  BY <1>3, <1>4
<1>10. preferred' = [preferred EXCEPT ![w] = wish]
  BY <1>3
<1>11. IF again THEN wish = url[w] /\ now = (IF url[w] \in answer[w] THEN url[w] ELSE found)
       ELSE now = found /\ (answer[w] # {} => wish = found)
  OBVIOUS
<1> HIDE DEF now, wish, again
<1>12. again = (window[w] = "new" /\ url[w] # None)
  BY DEF again
<1> QED BY <1>1, <1>3, <1>7, <1>8, <1>9, <1>10, <1>11, <1>12 DEF old

LEMMA EventTaken ==
    ASSUME Selection!TypeOK, NEW w \in Selection!Windows, events[w] # <<>>
    PROVE  /\ Head(events[w]) \in Devices /\ Tail(events[w]) \in Seq(Devices)
           /\ IF Tail(events[w]) = <<>> THEN Head(events[w]) = events[w][Len(events[w])]
              ELSE Tail(events[w])[Len(Tail(events[w]))] = events[w][Len(events[w])]
<1>1. events[w] \in Seq(Devices)
  BY DEF Selection!TypeOK
<1>2. /\ Head(events[w]) \in Devices /\ Tail(events[w]) \in Seq(Devices)
      /\ Head(events[w]) = events[w][1]
      /\ Len(Tail(events[w])) = Len(events[w]) - 1
      /\ \A i \in 1 .. Len(Tail(events[w])) : Tail(events[w])[i] = events[w][i+1]
  BY <1>1, HeadTailProperties
<1>3. Len(events[w]) \in Nat /\ Len(Tail(events[w])) \in Nat
  BY <1>1, <1>2, LenProperties
<1>4. CASE Tail(events[w]) = <<>>
  <2>1. Len(Tail(events[w])) = 0
    BY <1>2, <1>4, EmptySeq
  <2>2. Len(events[w]) = 1
    BY <1>2, <1>3, <2>1
  <2> QED BY <1>2, <1>4, <2>2
<1>5. CASE Tail(events[w]) # <<>>
  <2>1. Len(Tail(events[w])) # 0
    BY <1>2, <1>5, EmptySeq
  <2> DEFINE n == Len(Tail(events[w]))
  <2>2. n \in 1 .. n
    <3>1. n \in Nat /\ n # 0
      BY <1>3, <2>1
    <3> HIDE DEF n
    <3> QED BY <3>1
  <2>3. Len(Tail(events[w])) + 1 = Len(events[w])
    BY <1>2, <1>3
  <2> QED BY <1>2, <1>5, <2>2, <2>3
<1> QED BY <1>2, <1>4, <1>5

LEMMA SelectionTypesKept ==
    ASSUME SelectionAssumption, Selection!TypeOK, [Selection!Next]_selectionVars
    PROVE  Selection!TypeOK'
<1>0. /\ attached \subseteq Devices /\ key \in Devices \cup {None}
      /\ settled \in Devices \cup {None} /\ listAsked \subseteq Selection!Windows
      /\ window \in [Selection!Windows -> {"closed", "new", "open", "bare"}]
      /\ url \in [Selection!Windows -> Devices \cup {None}]
      /\ devices \in [Selection!Windows -> SUBSET Devices]
      /\ selectedDevice \in [Selection!Windows -> Devices \cup {None}]
      /\ preferred \in [Selection!Windows -> Devices \cup {None}]
      /\ answer \in [Selection!Windows -> (SUBSET Devices) \cup {None}]
      /\ events \in [Selection!Windows -> Seq(Devices)]
  BY DEF Selection!TypeOK
<1>1. ASSUME NEW w \in Selection!Windows, Selection!SetDevices(w) PROVE Selection!TypeOK'
  <2>1. PICK now \in Devices \cup {None}, wish \in Devices \cup {None} :
        /\ answer[w] \in SUBSET Devices /\ devices' = [devices EXCEPT ![w] = answer[w]]
        /\ selectedDevice' = [selectedDevice EXCEPT ![w] = now]
        /\ preferred' = [preferred EXCEPT ![w] = wish]
        /\ selections' \subseteq [key : Devices, by : {"user", "initialize"}]
    BY <1>1, SetDevicesDoes
  <2>2. /\ devices' \in [Selection!Windows -> SUBSET Devices]
        /\ selectedDevice' \in [Selection!Windows -> Devices \cup {None}]
        /\ preferred' \in [Selection!Windows -> Devices \cup {None}]
    BY <1>0, <2>1
  <2>3. /\ window' = [window EXCEPT ![w] = "open"] /\ url' = [url EXCEPT ![w] = None]
        /\ answer' = [answer EXCEPT ![w] = None] /\ settled' \in {settled, None}
        /\ UNCHANGED <<attached, key, listAsked, events>>
    BY <1>1 DEF Selection!SetDevices, Selection!Set
  <2>4. /\ window' \in [Selection!Windows -> {"closed", "new", "open", "bare"}]
        /\ url' \in [Selection!Windows -> Devices \cup {None}]
        /\ answer' \in [Selection!Windows -> (SUBSET Devices) \cup {None}]
    BY <1>0, <2>3
  <2> QED BY <1>0, <2>1, <2>2, <2>3, <2>4 DEF Selection!TypeOK
<1>2. ASSUME NEW w \in Selection!Windows, Selection!ServeList(w) PROVE Selection!TypeOK'
  BY <1>2 DEF Selection!ServeList, Selection!Set, Selection!TypeOK
<1>3. ASSUME NEW w \in Selection!Windows, Selection!ListFails(w) PROVE Selection!TypeOK'
  <2>1. CASE window[w] = "new"
    <3>1. PICK last \in Devices \cup {None} :
              /\ selectedDevice' = [selectedDevice EXCEPT ![w] = last]
              /\ Selection!Ask(last, "initialize")
      BY <1>3, <2>1 DEF Selection!ListFails, Selection!Set, Selection!TypeOK
    <3>2. selections' \subseteq [key : Devices, by : {"user", "initialize"}]
      BY <3>1, AskTypes
    <3>3. selectedDevice' \in [Selection!Windows -> Devices \cup {None}]
      BY <3>1 DEF Selection!TypeOK
    <3>4. /\ window' \in [Selection!Windows -> {"closed", "new", "open", "bare"}]
          /\ url' \in [Selection!Windows -> Devices \cup {None}]
          /\ preferred' \in [Selection!Windows -> Devices \cup {None}]
      BY <1>3, <2>1
         DEF Selection!ListFails, Selection!Set, Selection!Or, Selection!TypeOK
    <3> QED BY <1>3, <3>2, <3>3, <3>4 DEF Selection!ListFails, Selection!TypeOK
  <2>2. CASE window[w] # "new"
    BY <1>3, <2>2 DEF Selection!ListFails, Selection!TypeOK
  <2> QED BY <2>1, <2>2
<1>4. ASSUME NEW w \in Selection!Windows, Selection!HandleEvent(w) PROVE Selection!TypeOK'
  <2>1. Head(events[w]) \in Devices /\ Tail(events[w]) \in Seq(Devices)
    BY <1>4, EventTaken DEF Selection!HandleEvent
  <2>2. /\ events' \in [Selection!Windows -> Seq(Devices)]
        /\ preferred' \in [Selection!Windows -> Devices \cup {None}]
        /\ selectedDevice' \in [Selection!Windows -> Devices \cup {None}]
    BY <1>4, <2>1 DEF Selection!HandleEvent, Selection!Set, Selection!TypeOK
  <2> QED BY <1>4, <2>2 DEF Selection!HandleEvent, Selection!TypeOK
<1>5. ASSUME NEW w \in Panels, Selection!OpenPanel(w) PROVE Selection!TypeOK'
  <2>1. w \in Selection!Windows /\ Main \in Selection!Windows
    BY DEF Selection!Windows
  <2>2. key' \in Devices \cup {None} /\ settled' \in {settled, None}
    BY <1>5, <2>1 DEF Selection!OpenPanel, Selection!Or, Selection!TypeOK
  <2>3. CASE window[w] = "closed"
    <3>1. /\ window' \in [Selection!Windows -> {"closed", "new", "open", "bare"}]
          /\ url' \in [Selection!Windows -> Devices \cup {None}]
      <4>1. window' = [window EXCEPT ![w] = "new"] /\ url' = [url EXCEPT ![w] = key']
        BY <1>5, <2>1, <2>3 DEF Selection!OpenPanel, Selection!Set
      <4>2. key' \in Devices \cup {None}
        BY <1>0, <2>2
      <4> QED BY <1>0, <2>1, <4>1, <4>2
    <3>2. preferred' \in [Selection!Windows -> Devices \cup {None}]
      BY <1>5, <2>1, <2>3, <3>1
         DEF Selection!OpenPanel, Selection!Set, Selection!Or, Selection!TypeOK
    <3> QED BY <1>5, <2>1, <2>2, <2>3, <3>1, <3>2
            DEF Selection!OpenPanel, Selection!TypeOK
  <2>4. CASE window[w] # "closed"
    <3>1. selectedDevice[Main] \in Devices
      BY <1>5, <2>1, <2>4 DEF Selection!OpenPanel, Selection!TypeOK
    <3>2. events' \in [Selection!Windows -> Seq(Devices)]
      BY <1>5, <2>4, <3>1, TellTypes DEF Selection!OpenPanel
    <3> QED BY <1>5, <2>2, <2>4, <3>2 DEF Selection!OpenPanel, Selection!TypeOK
  <2> QED BY <2>3, <2>4
<1>6. ASSUME NEW w \in Panels, Selection!ClosePanel(w) PROVE Selection!TypeOK'
  <2>1. /\ window' \in [Selection!Windows -> {"closed", "new", "open", "bare"}]
        /\ devices' \in [Selection!Windows -> SUBSET Devices]
        /\ selectedDevice' \in [Selection!Windows -> Devices \cup {None}]
        /\ preferred' \in [Selection!Windows -> Devices \cup {None}]
        /\ url' \in [Selection!Windows -> Devices \cup {None}]
        /\ answer' \in [Selection!Windows -> (SUBSET Devices) \cup {None}]
    BY <1>0, <1>6 DEF Selection!ClosePanel, Selection!Set
  <2>2. <<>> \in Seq(Devices)
    OBVIOUS
  <2>3. events' \in [Selection!Windows -> Seq(Devices)]
    BY <1>6, <2>2 DEF Selection!ClosePanel, Selection!Set, Selection!TypeOK
  <2> QED BY <1>6, <2>1, <2>3 DEF Selection!ClosePanel, Selection!TypeOK
<1>7. ASSUME NEW k \in Devices, Selection!SelectDevice(k) PROVE Selection!TypeOK'
  <2>1. selections' \subseteq [key : Devices, by : {"user", "initialize"}]
    BY <1>7, AskTypes DEF Selection!SelectDevice
  <2>2. /\ selectedDevice' \in [Selection!Windows -> Devices \cup {None}]
        /\ preferred' \in [Selection!Windows -> Devices \cup {None}]
    BY <1>7 DEF Selection!SelectDevice, Selection!Set, Selection!TypeOK
  <2> QED BY <1>7, <2>1, <2>2 DEF Selection!SelectDevice, Selection!TypeOK
<1>8. ASSUME NEW k \in Devices, Selection!Plug(k) PROVE Selection!TypeOK'
  BY <1>8 DEF Selection!Plug, Selection!TypeOK
<1>9. ASSUME NEW r \in selections, Selection!ServeRequest(r) PROVE Selection!TypeOK'
  <2>1. r.key \in Devices
    BY DEF Selection!TypeOK
  <2>2. events' \in [Selection!Windows -> Seq(Devices)]
    BY <1>9, <2>1, TellTypes DEF Selection!ServeRequest
  <2> QED BY <1>9, <2>1, <2>2 DEF Selection!ServeRequest, Selection!TypeOK
<1>10. CASE Selection!Refresh
  BY <1>10 DEF Selection!Refresh, Selection!TypeOK, Selection!Windows
<1>11. CASE UNCHANGED selectionVars
  BY <1>11 DEF selectionVars, Selection!TypeOK
<1> QED BY <1>1, <1>2, <1>3, <1>4, <1>5, <1>6, <1>7, <1>8, <1>9, <1>10, <1>11
        DEF Selection!Next

(* A choice that is settled: the windows that opened since have it in their  *)
(* URL, and each window either works with it, if it lists it, or hears of it *)
(* last.  Whatever asks for another device unsettles it.                     *)
WorksWithSettled(w) ==
    /\ preferred[w] = settled
    /\ window[w] # "new" /\ settled \in devices[w] => selectedDevice[w] = settled

HearsOfSettled(w) ==
    /\ window[w] = "new" => url[w] = settled
    /\ window[w] # "closed" =>
           IF events[w] = <<>> THEN WorksWithSettled(w)
           ELSE events[w][Len(events[w])] = settled

Unlisted(w) ==
    /\ window[w] # "open" => devices[w] = {}
    /\ window[w] = "closed" => events[w] = <<>>

SelectionInv ==
    /\ Selection!TypeOK
    /\ IsFiniteSet(selections)
    /\ \A w \in Selection!Windows : OpenWindow(w) /\ Unlisted(w)
    /\ settled # None =>
           /\ \A r \in selections : r.by = "initialize"
           /\ \A w \in Selection!Windows : HearsOfSettled(w)

LEMMA InitSelectionInv == ASSUME SelectionAssumption, Selection!Init PROVE SelectionInv
  BY SelectionTypesInit, FS_EmptySet
     DEF Selection!Init, SelectionInv, OpenWindow, Unlisted

(* A window that the step leaves alone.                                      *)
SameWindow(w) ==
    /\ window'[w] = window[w] /\ url'[w] = url[w] /\ devices'[w] = devices[w]
    /\ selectedDevice'[w] = selectedDevice[w] /\ preferred'[w] = preferred[w]
    /\ events'[w] = events[w]

LEMMA SameWindowKeeps ==
    ASSUME SelectionInv, NEW w \in Selection!Windows, SameWindow(w)
    PROVE  /\ OpenWindow(w)' /\ Unlisted(w)'
           /\ settled' # None /\ settled' = settled => HearsOfSettled(w)'
  BY DEF SelectionInv, SameWindow, OpenWindow, Unlisted, HearsOfSettled,
         WorksWithSettled

LEMMA AskKeeps ==
    ASSUME SelectionInv, NEW k, NEW by, Selection!Ask(k, by)
    PROVE  /\ IsFiniteSet(selections')
           /\ \A r \in selections' : r \in selections \/ r.by = by
<1>1. CASE UNCHANGED selections
  BY <1>1 DEF SelectionInv
<1>2. CASE selections' = selections \cup {[key |-> k, by |-> by]}
  BY <1>2, FS_AddElement DEF SelectionInv
<1> QED BY <1>1, <1>2 DEF Selection!Ask

LEMMA SetDevicesKeeps ==
    ASSUME SelectionAssumption, SelectionInv, NEW w \in Selection!Windows,
           Selection!SetDevices(w), Selection!TypeOK'
    PROVE  SelectionInv'
<1>0. Selection!TypeOK
  BY DEF SelectionInv
<1>1. PICK found \in Devices \cup {None}, now \in Devices \cup {None},
           wish \in Devices \cup {None} :
        /\ answer[w] \in SUBSET Devices /\ devices' = [devices EXCEPT ![w] = answer[w]]
        /\ Selection!Resolve(answer[w], Selection!Or(preferred[w], selectedDevice[w]), found)
        /\ selectedDevice' = [selectedDevice EXCEPT ![w] = now]
        /\ preferred' = [preferred EXCEPT ![w] = wish]
        /\ IF window[w] = "new" /\ url[w] # None
           THEN wish = url[w] /\ now = (IF url[w] \in answer[w] THEN url[w] ELSE found)
           ELSE now = found /\ (answer[w] # {} => wish = found)
        /\ selections' \subseteq [key : Devices, by : {"user", "initialize"}]
        /\ IF window[w] = "new" THEN Selection!Ask(found, "initialize")
           ELSE UNCHANGED selections
  BY <1>0, SetDevicesDoes
<1>2. /\ window' = [window EXCEPT ![w] = "open"] /\ url' = [url EXCEPT ![w] = None]
      /\ settled' = (IF settled \in answer[w] THEN settled ELSE None)
      /\ UNCHANGED events /\ window[w] # "closed"
  BY DEF Selection!SetDevices, Selection!Set
<1>3. /\ IsFiniteSet(selections')
      /\ settled # None => \A r \in selections' : r.by = "initialize"
  BY <1>1, AskKeeps DEF SelectionInv
<1>4. \A v \in Selection!Windows \ {w} : SameWindow(v)
  BY <1>0, <1>1, <1>2 DEF SameWindow, Selection!TypeOK
<1>5. /\ window'[w] = "open" /\ devices'[w] = answer[w] /\ selectedDevice'[w] = now
      /\ preferred'[w] = wish /\ events'[w] = events[w]
  BY <1>0, <1>1, <1>2 DEF Selection!TypeOK
<1>6. /\ found \in answer[w] \cup {None} /\ (found = None => answer[w] = {})
      /\ Selection!Or(preferred[w], selectedDevice[w]) \in answer[w] =>
            found = Selection!Or(preferred[w], selectedDevice[w])
  BY <1>1 DEF Selection!Resolve, SelectionAssumption
<1>7. OpenWindow(w)' /\ Unlisted(w)'
  BY <1>1, <1>2, <1>5, <1>6 DEF OpenWindow, Unlisted
<1>8. ASSUME settled' # None PROVE HearsOfSettled(w)'
  <2>1. settled' = settled /\ settled # None /\ settled \in answer[w]
    BY <1>2, <1>8
  <2>2. HearsOfSettled(w)
    BY <2>1 DEF SelectionInv
  <2>3. CASE events[w] # <<>>
    BY <1>2, <1>5, <2>1, <2>2, <2>3 DEF HearsOfSettled
  <2>4. CASE events[w] = <<>>
    <3>1. preferred[w] = settled /\ (window[w] = "new" => url[w] = settled)
      BY <1>2, <2>2, <2>4 DEF HearsOfSettled, WorksWithSettled
    <3>2. Selection!Or(preferred[w], selectedDevice[w]) = settled
      BY <2>1, <3>1 DEF Selection!Or
    <3>3. found = settled
      BY <1>6, <2>1, <3>2
    <3>4. now = settled /\ wish = settled
      BY <1>1, <2>1, <3>1, <3>3
    <3> QED BY <1>5, <2>1, <2>4, <3>4 DEF HearsOfSettled, WorksWithSettled
  <2> QED BY <2>3, <2>4
<1>9. ASSUME settled' # None
      PROVE  /\ \A r \in selections' : r.by = "initialize"
             /\ \A v \in Selection!Windows : HearsOfSettled(v)'
  <2>1. settled' = settled /\ settled # None
    BY <1>2, <1>9
  <2> QED BY <1>3, <1>4, <1>8, <1>9, <2>1, SameWindowKeeps
<1>10. \A v \in Selection!Windows : OpenWindow(v)' /\ Unlisted(v)'
  BY <1>4, <1>7, SameWindowKeeps
<1> QED BY <1>3, <1>9, <1>10 DEF SelectionInv

LEMMA ListFailsKeeps ==
    ASSUME SelectionAssumption, SelectionInv, NEW w \in Selection!Windows,
           Selection!ListFails(w), Selection!TypeOK'
    PROVE  SelectionInv'
<1>0. Selection!TypeOK
  BY DEF SelectionInv
<1>1. CASE window[w] # "new"
  <2>1. /\ \A v \in Selection!Windows : SameWindow(v)
        /\ UNCHANGED <<selections, settled>>
    BY <1>1 DEF Selection!ListFails, SameWindow
  <2> QED BY <2>1, SameWindowKeeps DEF SelectionInv
<1>2. CASE window[w] = "new"
  <2>1. PICK last \in Devices \cup {None} :
            /\ selectedDevice' = [selectedDevice EXCEPT ![w] = last]
            /\ Selection!Ask(last, "initialize")
    BY <1>0, <1>2 DEF Selection!ListFails, Selection!Set, Selection!TypeOK
  <2>2. /\ window' = [window EXCEPT ![w] = "bare"] /\ url' = [url EXCEPT ![w] = None]
        /\ preferred' = [preferred EXCEPT ![w] = Selection!Or(url[w], preferred[w])]
        /\ UNCHANGED <<devices, events, settled>>
    BY <1>2 DEF Selection!ListFails, Selection!Set
  <2>3. \A v \in Selection!Windows \ {w} : SameWindow(v)
    BY <1>0, <2>1, <2>2 DEF SameWindow, Selection!TypeOK
  <2>4. /\ window'[w] = "bare" /\ devices'[w] = {} /\ events'[w] = events[w]
        /\ preferred'[w] = Selection!Or(url[w], preferred[w])
    BY <1>0, <1>2, <2>2 DEF SelectionInv, Unlisted, Selection!TypeOK
  <2>5. OpenWindow(w)' /\ Unlisted(w)'
    BY <2>4 DEF OpenWindow, Unlisted
  <2>6. ASSUME settled # None PROVE HearsOfSettled(w)'
    <3>1. HearsOfSettled(w)
      BY <2>6 DEF SelectionInv
    <3>2. preferred'[w] = settled
      BY <1>2, <2>4, <2>6, <3>1 DEF HearsOfSettled, Selection!Or
    <3> QED BY <1>2, <2>2, <2>4, <3>1, <3>2 DEF HearsOfSettled, WorksWithSettled
  <2>7. /\ IsFiniteSet(selections')
        /\ settled # None => \A r \in selections' : r.by = "initialize"
    BY <2>1, AskKeeps DEF SelectionInv
  <2>8. \A v \in Selection!Windows : OpenWindow(v)' /\ Unlisted(v)'
    BY <2>3, <2>5, SameWindowKeeps
  <2>9. ASSUME settled # None PROVE \A v \in Selection!Windows : HearsOfSettled(v)'
    BY <2>2, <2>3, <2>6, <2>9, SameWindowKeeps
  <2> QED BY <2>2, <2>7, <2>8, <2>9 DEF SelectionInv
<1> QED BY <1>1, <1>2

LEMMA HandleEventKeeps ==
    ASSUME SelectionAssumption, SelectionInv, NEW w \in Selection!Windows,
           Selection!HandleEvent(w), Selection!TypeOK'
    PROVE  SelectionInv'
<1>0. Selection!TypeOK
  BY DEF SelectionInv
<1> DEFINE k == Head(events[w])
           rest == Tail(events[w])
<1>1. /\ events[w] # <<>>
      /\ events' = [events EXCEPT ![w] = rest]
      /\ preferred' = [preferred EXCEPT ![w] = k]
      /\ selectedDevice' =
             [selectedDevice EXCEPT ![w] = IF k \in devices[w] THEN k ELSE selectedDevice[w]]
      /\ UNCHANGED <<window, url, devices, selections, settled>>
  BY DEF Selection!HandleEvent, Selection!Set
<1>2. /\ k \in Devices
      /\ IF rest = <<>> THEN k = events[w][Len(events[w])]
         ELSE rest[Len(rest)] = events[w][Len(events[w])]
  BY <1>0, <1>1, EventTaken
<1> HIDE DEF k, rest
<1>3. \A v \in Selection!Windows \ {w} : SameWindow(v)
  BY <1>0, <1>1 DEF SameWindow, Selection!TypeOK
<1>4. /\ events'[w] = rest /\ preferred'[w] = k
      /\ selectedDevice'[w] = (IF k \in devices[w] THEN k ELSE selectedDevice[w])
  BY <1>0, <1>1 DEF Selection!TypeOK
<1>5. OpenWindow(w) /\ Unlisted(w) /\ (settled # None => HearsOfSettled(w))
  BY DEF SelectionInv
<1>6. OpenWindow(w)' /\ Unlisted(w)'
  BY <1>1, <1>2, <1>4, <1>5 DEF OpenWindow, Unlisted, SelectionAssumption
<1>7. settled # None => HearsOfSettled(w)'
  BY <1>1, <1>2, <1>4, <1>5 DEF HearsOfSettled, WorksWithSettled
<1>8. \A v \in Selection!Windows : OpenWindow(v)' /\ Unlisted(v)'
  BY <1>3, <1>6, SameWindowKeeps
<1>9. settled # None => \A v \in Selection!Windows : HearsOfSettled(v)'
  BY <1>1, <1>3, <1>7, SameWindowKeeps
<1> QED BY <1>1, <1>8, <1>9 DEF SelectionInv

(* A key that is told to all windows is the last that each hears of.         *)
LEMMA TellKeeps ==
    ASSUME SelectionInv, NEW k \in Devices, Selection!Tell(k),
           UNCHANGED <<window, url, devices, selectedDevice, preferred>>,
           NEW w \in Selection!Windows
    PROVE  /\ OpenWindow(w)' /\ Unlisted(w)'
           /\ window[w] # "closed" => events'[w] # <<>> /\ events'[w][Len(events'[w])] = k
<1>1. events'[w] = IF window[w] = "closed" THEN <<>> ELSE Append(events[w], k)
  BY TellTypes DEF SelectionInv
<1>2. events[w] \in Seq(Devices)
  BY DEF SelectionInv, Selection!TypeOK
<1>3. /\ Append(events[w], k) # <<>>
      /\ Append(events[w], k)[Len(Append(events[w], k))] = k
  BY <1>2, AppendProperties
<1>4. OpenWindow(w) /\ Unlisted(w)
  BY DEF SelectionInv
<1>5. OpenWindow(w)' /\ Unlisted(w)'
  BY <1>1, <1>4 DEF OpenWindow, Unlisted
<1> QED BY <1>1, <1>3, <1>5

LEMMA OpenPanelKeeps ==
    ASSUME SelectionAssumption, SelectionInv, NEW w \in Panels,
           Selection!OpenPanel(w), Selection!TypeOK'
    PROVE  SelectionInv'
<1>0. Selection!TypeOK /\ w \in Selection!Windows /\ Main \in Selection!Windows
  BY DEF SelectionInv, Selection!Windows
<1>1. /\ settled' = (IF settled = selectedDevice[Main] THEN settled ELSE None)
      /\ UNCHANGED <<devices, selections, selectedDevice>>
  BY DEF Selection!OpenPanel
<1>2. CASE window[w] = "closed"
  <2>1. /\ url' = [url EXCEPT ![w] = Selection!Or(selectedDevice[Main], key)]
        /\ window' = [window EXCEPT ![w] = "new"]
        /\ \E last : preferred' = [preferred EXCEPT ![w] = Selection!Or(url'[w], last)]
        /\ UNCHANGED events
    BY <1>2 DEF Selection!OpenPanel, Selection!Set
  <2>2. \A v \in Selection!Windows \ {w} : SameWindow(v)
    BY <1>0, <1>1, <2>1 DEF SameWindow, Selection!TypeOK
  <2>3. /\ window'[w] = "new" /\ events'[w] = <<>> /\ devices'[w] = {}
        /\ url'[w] = Selection!Or(selectedDevice[Main], key)
        /\ url'[w] # None => preferred'[w] = url'[w]
    BY <1>0, <1>1, <1>2, <2>1
       DEF SelectionInv, Unlisted, Selection!TypeOK, Selection!Or
  <2>4. OpenWindow(w)' /\ Unlisted(w)'
    BY <2>3 DEF OpenWindow, Unlisted
  <2>5. settled' # None => HearsOfSettled(w)'
    BY <1>1, <2>3 DEF HearsOfSettled, WorksWithSettled, Selection!Or
  <2>6. \A v \in Selection!Windows : OpenWindow(v)' /\ Unlisted(v)'
    BY <2>2, <2>4, SameWindowKeeps
  <2>7. settled' # None => \A v \in Selection!Windows : HearsOfSettled(v)'
    BY <1>1, <2>2, <2>5, SameWindowKeeps
  <2> QED BY <1>1, <2>6, <2>7 DEF SelectionInv
<1>3. CASE window[w] # "closed"
  <2>1. /\ selectedDevice[Main] # None /\ Selection!Tell(selectedDevice[Main])
        /\ UNCHANGED <<url, window, preferred>>
    BY <1>3 DEF Selection!OpenPanel
  <2>2. selectedDevice[Main] \in Devices
    BY <1>0, <2>1 DEF Selection!TypeOK
  <2>3. \A v \in Selection!Windows :
            /\ OpenWindow(v)' /\ Unlisted(v)'
            /\ window[v] # "closed" =>
                   events'[v] # <<>> /\ events'[v][Len(events'[v])] = selectedDevice[Main]
    BY <1>1, <2>1, <2>2, TellKeeps
  <2>4. ASSUME settled' # None PROVE \A v \in Selection!Windows : HearsOfSettled(v)'
    <3>1. settled' = settled /\ settled = selectedDevice[Main]
      BY <1>1, <2>4
    <3>2. \A v \in Selection!Windows : HearsOfSettled(v)
      BY <2>4, <3>1 DEF SelectionInv
    <3> QED BY <2>1, <2>3, <3>1, <3>2 DEF HearsOfSettled
  <2> QED BY <1>1, <2>3, <2>4 DEF SelectionInv
<1> QED BY <1>2, <1>3

LEMMA ClosePanelKeeps ==
    ASSUME SelectionInv, NEW w \in Panels, Selection!ClosePanel(w), Selection!TypeOK'
    PROVE  SelectionInv'
<1>0. Selection!TypeOK /\ w \in Selection!Windows
  BY DEF SelectionInv, Selection!Windows
<1>1. \A v \in Selection!Windows \ {w} : SameWindow(v)
  BY <1>0 DEF SameWindow, Selection!TypeOK, Selection!ClosePanel, Selection!Set
<1>2. window'[w] = "closed" /\ devices'[w] = {} /\ events'[w] = <<>>
  BY <1>0 DEF Selection!TypeOK, Selection!ClosePanel, Selection!Set
<1>3. OpenWindow(w)' /\ Unlisted(w)' /\ HearsOfSettled(w)'
  BY <1>2 DEF OpenWindow, Unlisted, HearsOfSettled
<1>4. UNCHANGED <<selections, settled>>
  BY DEF Selection!ClosePanel
<1>5. \A v \in Selection!Windows : OpenWindow(v)' /\ Unlisted(v)'
  BY <1>1, <1>3, SameWindowKeeps
<1>6. settled # None => \A v \in Selection!Windows : HearsOfSettled(v)'
  BY <1>1, <1>3, <1>4, SameWindowKeeps
<1> QED BY <1>4, <1>5, <1>6 DEF SelectionInv

LEMMA SelectDeviceKeeps ==
    ASSUME SelectionAssumption, SelectionInv, NEW k \in Devices,
           Selection!SelectDevice(k), Selection!TypeOK'
    PROVE  SelectionInv'
<1>0. Selection!TypeOK /\ Main \in Selection!Windows
  BY DEF SelectionInv, Selection!Windows
<1>1. \A v \in Selection!Windows \ {Main} : SameWindow(v)
  BY <1>0 DEF SameWindow, Selection!TypeOK, Selection!SelectDevice, Selection!Set
<1>2. /\ selectedDevice'[Main] = k /\ k \in devices[Main]
      /\ UNCHANGED <<window, devices, events>>
  BY <1>0 DEF Selection!TypeOK, Selection!SelectDevice, Selection!Set
<1>3. OpenWindow(Main)' /\ Unlisted(Main)'
  BY <1>0, <1>2 DEF SelectionInv, OpenWindow, Unlisted, SelectionAssumption
<1>4. settled' = None /\ IsFiniteSet(selections')
  BY AskKeeps DEF Selection!SelectDevice
<1>5. \A v \in Selection!Windows : OpenWindow(v)' /\ Unlisted(v)'
  BY <1>1, <1>3, SameWindowKeeps
<1> QED BY <1>4, <1>5 DEF SelectionInv

(* The backend keeps a key and tells all windows: a choice of the user that  *)
(* meets neither another request nor a window that opens settles it.         *)
LEMMA SelectionCardinality == \A S : Selection!Cardinality(S) = Cardinality(S)
  BY DEF Selection!Cardinality, Cardinality

LEMMA ServeRequestKeeps ==
    ASSUME SelectionAssumption, SelectionInv, NEW r \in selections,
           Selection!ServeRequest(r), Selection!TypeOK'
    PROVE  SelectionInv'
<1>1. r.key \in Devices
  BY DEF SelectionInv, Selection!TypeOK
<1>2. /\ selections' = selections \ {r} /\ Selection!Tell(r.key)
      /\ UNCHANGED <<window, url, devices, selectedDevice, preferred>>
      /\ settled' = IF r.by = "user" /\ ~Selection!Unsettled /\ r.key = selectedDevice[Main]
                    THEN r.key ELSE None
  BY DEF Selection!ServeRequest
<1>3. IsFiniteSet(selections')
  BY <1>2, FS_RemoveElement DEF SelectionInv
<1>4. \A v \in Selection!Windows :
          /\ OpenWindow(v)' /\ Unlisted(v)'
          /\ window[v] # "closed" =>
                 events'[v] # <<>> /\ events'[v][Len(events'[v])] = r.key
  BY <1>1, <1>2, TellKeeps
<1>5. ASSUME settled' # None
      PROVE  /\ \A q \in selections' : q.by = "initialize"
             /\ \A v \in Selection!Windows : HearsOfSettled(v)'
  <2>1. settled' = r.key /\ ~Selection!Unsettled
    BY <1>2, <1>5
  <2>2. \A v \in Selection!Windows : window[v] # "new"
    BY <2>1 DEF Selection!Unsettled, Selection!Windows
  <2>3. ~(Cardinality(selections) > 1)
    BY <2>1, SelectionCardinality DEF Selection!Unsettled
  <2>4. /\ Cardinality(selections) \in Nat
        /\ Cardinality(selections') = Cardinality(selections) - 1
        /\ Cardinality(selections') \in Nat
    BY <1>2, <1>3, FS_RemoveElement, FS_CardinalityType DEF SelectionInv
  <2>5. Cardinality(selections') = 0
    BY <2>3, <2>4
  <2>6. selections' = {}
    BY <1>3, <2>5, FS_EmptySet
  <2> QED BY <1>2, <1>4, <2>1, <2>2, <2>6 DEF HearsOfSettled
<1> QED BY <1>3, <1>4, <1>5 DEF SelectionInv

LEMMA NextSelectionInv ==
    ASSUME SelectionAssumption, SelectionInv, [Selection!Next]_selectionVars
    PROVE  SelectionInv'
<1>0. Selection!TypeOK'
  BY SelectionTypesKept DEF SelectionInv
<1>1. ASSUME UNCHANGED <<window, url, devices, selectedDevice, preferred, events,
                         selections>>,
             settled' \in {settled, None}
      PROVE  SelectionInv'
  <2>1. \A v \in Selection!Windows : SameWindow(v)
    BY <1>1 DEF SameWindow
  <2> QED BY <1>0, <1>1, <2>1, SameWindowKeeps DEF SelectionInv
<1>2. ASSUME NEW w \in Selection!Windows,
             \/ Selection!SetDevices(w) \/ Selection!ServeList(w)
             \/ Selection!ListFails(w) \/ Selection!HandleEvent(w)
      PROVE  SelectionInv'
  BY <1>0, <1>1, <1>2, SetDevicesKeeps, ListFailsKeeps, HandleEventKeeps
     DEF Selection!ServeList
<1>3. ASSUME NEW w \in Panels, Selection!OpenPanel(w) \/ Selection!ClosePanel(w)
      PROVE  SelectionInv'
  BY <1>0, <1>3, OpenPanelKeeps, ClosePanelKeeps
<1>4. ASSUME NEW k \in Devices, Selection!SelectDevice(k) \/ Selection!Plug(k)
      PROVE  SelectionInv'
  BY <1>0, <1>1, <1>4, SelectDeviceKeeps DEF Selection!Plug
<1>5. ASSUME NEW r \in selections, Selection!ServeRequest(r) PROVE SelectionInv'
  BY <1>0, <1>5, ServeRequestKeeps
<1>6. CASE Selection!Refresh \/ UNCHANGED selectionVars
  BY <1>1, <1>6 DEF Selection!Refresh, selectionVars
<1> QED BY <1>2, <1>3, <1>4, <1>5, <1>6 DEF Selection!Next

SelectionHolds == part = "selection" => SelectionInv

LEMMA SelectionHoldsAlways == FrontSpec => []SelectionHolds
<1>0. SelectionAssumption
  BY FrontendAssumption DEF SelectionAssumption
<1>1. FrontInit => SelectionHolds
  BY <1>0, InitSelectionInv DEF FrontInit, SelectionHolds
<1>2. SelectionHolds /\ [FrontNext]_frontVars => SelectionHolds'
  <2> SUFFICES ASSUME SelectionHolds, [FrontNext]_frontVars, part' = "selection"
               PROVE  SelectionInv'
    BY DEF SelectionHolds
  <2>1. part = "selection" /\ SelectionInv /\ [Selection!Next]_selectionVars
    BY DEF SelectionHolds, FrontNext, frontVars
  <2> QED BY <1>0, <2>1, NextSelectionInv
<1> QED BY <1>1, <1>2, PTL DEF FrontSpec

(* An open window works with a device of its list, and with some device if   *)
(* there is one, for any devices and windows (deviceStore.ts).               *)
THEOREM WindowsWorkWithListedDevices == FrontSpec => []SelectionIsListed
<1>1. SelectionHolds => SelectionIsListed
  BY DEF SelectionHolds, SelectionInv, SelectionIsListed, OpenWindow,
         Selection!SelectionIsListed
<1> QED BY <1>1, SelectionHoldsAlways, PTL

(* A settled choice reaches every open window that lists the device, and     *)
(* stays: lists, windows that open and events do not bring an older one back *)
(* (deviceStore.ts, panel_window.go).                                        *)
THEOREM ChoicesReach == FrontSpec => []ChoicesReachAllWindows
<1>1. SelectionHolds => ChoicesReachAllWindows
  BY DEF SelectionHolds, SelectionInv, ChoicesReachAllWindows, HearsOfSettled,
         WorksWithSettled, Selection!ChoicesReachAllWindows
<1> QED BY <1>1, SelectionHoldsAlways, PTL

-----------------------------------------------------------------------------
(* The page of the Android capture.                                          *)

PageAssumption ==
    /\ AndroidCalls \cap {"page", "check", "nobody"} = {}
    /\ None \notin Android!Steps \cup Android!Events \cup {"asked", "answered"}

Places == 1 .. Len(channel)

(* What the messages are about.                                              *)
IsEvent(i) == channel[i].to = "page"
Started(i) ==
    /\ channel[i].to \in AndroidCalls /\ channel[i].what = "done"
    /\ calls[channel[i].to] \in {"start", "again"}

(* The calls that stop the session, and those that end with a status.        *)
Stops == {"stop", "stopAll", "clean", "cleanAll"}
Ends == Stops \cup {"storeStop", "overtaken"}
Stopped(i) == channel[i].to \in AndroidCalls /\ calls[channel[i].to] \in Stops

(* A message that was sent while there was a session.                        *)
Presumes(i) ==
    \/ Started(i)
    \/ channel[i].to \in AndroidCalls /\ channel[i].what = "running"
    \/ channel[i].to = "check" /\ channel[i].what # "idle"

NewsAfter(i)  == \E j \in Places : j > i /\ (IsEvent(j) \/ Started(j))
StartAfter(i) == \E j \in Places : j > i /\ Started(j)
StopAfter(i)  == \E j \in Places : j > i /\ Stopped(j)
AnswerAfter(i, c) == \E j \in Places : j > i /\ channel[j].to = c

Says(event) == IF event = "restarted" THEN "capturing" ELSE "waiting"
SaidAt(i) == IF IsEvent(i) THEN Says(channel[i].what) ELSE "capturing"

Runs == session \in {"capturing", "waiting"}
Half == status = [shows |-> "waiting", named |-> FALSE]
Overtaken == \E c \in AndroidCalls : calls[c] = "overtaken"

(* Each call waits either for the backend or for the page.                   *)
CallsWaitOnce ==
    \A c \in AndroidCalls :
        /\ calls[c] = None \/ c \in asked => \A i \in Places : channel[i].to # c
        /\ calls[c] = None => c \notin asked
        /\ \A i, j \in Places : channel[i].to = c /\ channel[j].to = c => i = j

Fits(c, what) ==
    /\ calls[c] = "pid" => what \in {"found", "gone"}
    /\ calls[c] \in {"start", "again"} => what \in {"done", "running", "error"}
    /\ calls[c] \in Ends => what = "done"

AnswersFit ==
    \A i \in Places :
        channel[i].to \in AndroidCalls => Fits(channel[i].to, channel[i].what)

ChecksAreNamed ==
    /\ \A i \in Places : channel[i].to = "check" => check = "answered"
    /\ check # None => status.named /\ mounted
    /\ status.named \/ status.shows \in {"idle", "waiting"}

(* A stop has stopped the session, unless another start is to be heard of.   *)
StopsAreDone ==
    /\ \A c \in AndroidCalls : calls[c] = "storeStop" =>
           session = "idle" \/ \E j \in Places : Started(j)
    /\ \A i \in Places : channel[i].to \in AndroidCalls /\ calls[channel[i].to] = "stopAll" =>
           session = "idle" \/ StartAfter(i)

(* What presumed a session that is gone is followed by what ended it.        *)
EndsAreHeard == session = "idle" => \A i \in Places : Presumes(i) => StopAfter(i)

(* The last news is what the session does.                                   *)
NewsIsTrue ==
    Runs => /\ toSend # None => Says(toSend) = session
            /\ toSend = None => \A i \in Places : IsEvent(i) \/ Started(i) =>
                   SaidAt(i) = session \/ NewsAfter(i)
            /\ \A i \in Places : channel[i].to = "check" =>
                   channel[i].what = session \/ toSend # None \/ NewsAfter(i)

(* The status of a session that is there.                                    *)
SessionIsNamed ==
    session # "idle" /\ (\A i \in Places : ~Started(i)) =>
        status.named \/ lost \/ Overtaken \/ Half

SessionIsShown ==
    Runs /\ mounted /\ toSend = None /\ (\A i \in Places : ~Started(i) /\ ~IsEvent(i)) =>
        status.shows = session \/ check # None \/ lost \/ Overtaken \/ Half

(* The status where there is none.                                           *)
IdleIsShown ==
    session = "idle" /\ mounted =>
        \/ status.shows = "idle" \/ Half \/ lost \/ check # None
        \/ \E c \in AndroidCalls : calls[c] \in Ends \cup {"again"}

(* An event that comes after all stops is the only one, and meets no name,   *)
(* or a call that takes the name away.                                       *)
EndsAfter(i) ==
    \E c \in AndroidCalls :
        calls[c] \in Ends \/ (calls[c] = "again" /\ (c \in asked \/ AnswerAfter(i, c)))

Late(i) == IsEvent(i) /\ ~StopAfter(i)

LateEvents ==
    session = "idle" =>
        /\ \A i \in Places : Late(i) =>
               /\ toSend = None /\ \A j \in Places : Late(j) => i = j
               /\ status.named => EndsAfter(i)
        /\ toSend # None /\ status.named => EndsAfter(Len(channel))

PageInv ==
    /\ Android!TypeOK /\ CallsWaitOnce /\ AnswersFit /\ ChecksAreNamed
    /\ StopsAreDone /\ EndsAreHeard /\ NewsIsTrue
    /\ SessionIsNamed /\ SessionIsShown /\ IdleIsShown /\ LateEvents

-----------------------------------------------------------------------------
(* The channel.                                                              *)

LEMMA PlacesOfChannel ==
    ASSUME Android!TypeOK
    PROVE  /\ Len(channel) \in Nat /\ DOMAIN channel = Places
           /\ \A i \in Places : channel[i] \in Android!Sent
<1>1. channel \in Seq(Android!Sent)
  BY DEF Android!TypeOK
<1>2. Len(channel) \in Nat /\ DOMAIN channel = Places /\ channel \in [Places -> Android!Sent]
  BY <1>1, LenProperties DEF Places
<1> QED BY <1>2

LEMMA SentParts ==
    ASSUME PageAssumption, NEW m \in Android!Sent
    PROVE  /\ m.to \in AndroidCalls \cup {"page", "check", "nobody"}
           /\ m.to \in AndroidCalls => m.what \in Android!Answers
           /\ m.to \in {"check", "nobody"} => m.what \in {"idle", "capturing", "waiting"}
           /\ m.to = "page" => m.what \in Android!Events
<1>1. CASE m \in [to : AndroidCalls, what : Android!Answers]
  BY <1>1 DEF PageAssumption
<1>2. CASE m \in [to : {"check", "nobody"}, what : {"idle", "capturing", "waiting"}]
  BY <1>2 DEF PageAssumption
<1>3. CASE m \in [to : {"page"}, what : Android!Events]
  BY <1>3 DEF PageAssumption
<1> QED BY <1>1, <1>2, <1>3 DEF Android!Sent

(* What is for nobody keeps its place.                                       *)
LEMMA ForgetKeeps ==
    ASSUME PageAssumption, NEW s \in Seq(Android!Sent)
    PROVE  /\ Android!Forget(s) \in Seq(Android!Sent) /\ Len(Android!Forget(s)) = Len(s)
           /\ \A i \in 1 .. Len(s) :
                  /\ Android!Forget(s)[i].what = s[i].what
                  /\ Android!Forget(s)[i].to = IF s[i].to = "check" THEN "nobody" ELSE s[i].to
<1>1. Len(s) \in Nat /\ DOMAIN s = 1 .. Len(s) /\ s \in [1 .. Len(s) -> Android!Sent]
  BY LenProperties
<1> DEFINE e(i) == IF s[i].to = "check" THEN [s[i] EXCEPT !.to = "nobody"] ELSE s[i]
<1>2. ASSUME NEW i \in 1 .. Len(s)
      PROVE  /\ e(i) \in Android!Sent /\ e(i).what = s[i].what
             /\ e(i).to = IF s[i].to = "check" THEN "nobody" ELSE s[i].to
  <2>1. s[i] \in Android!Sent
    BY <1>1
  <2>2. CASE s[i].to # "check"
    BY <2>1, <2>2
  <2>3. CASE s[i].to = "check"
    <3>1. s[i] \in [to : {"check", "nobody"}, what : {"idle", "capturing", "waiting"}]
      BY <2>1, <2>3 DEF Android!Sent, PageAssumption
    <3>2. [s[i] EXCEPT !.to = "nobody"] = [to |-> "nobody", what |-> s[i].what]
      BY <3>1
    <3>3. [to |-> "nobody", what |-> s[i].what] \in Android!Sent
      BY <3>1 DEF Android!Sent
    <3> QED BY <2>3, <3>2, <3>3
  <2> QED BY <2>2, <2>3
<1>3. Android!Forget(s) = [i \in 1 .. Len(s) |-> e(i)]
  BY <1>1 DEF Android!Forget
<1> HIDE DEF e
<1>4. Android!Forget(s) \in Seq(Android!Sent) /\ Len(Android!Forget(s)) = Len(s)
  BY <1>1, <1>2, <1>3, IsASeq
<1>5. \A i \in 1 .. Len(s) : Android!Forget(s)[i] = e(i)
  BY <1>3
<1> QED BY <1>2, <1>4, <1>5

(* A step that takes `s' messages off the channel, and leaves the others to  *)
(* whom they were sent, or to nobody.                                        *)
Carried(s) ==
    /\ s \in {0, 1} /\ Len(channel') + s = Len(channel)
    /\ \A j \in Places' :
           /\ channel'[j].what = channel[j + s].what
           /\ \/ channel'[j].to = channel[j + s].to
              \/ channel[j + s].to = "check" /\ channel'[j].to = "nobody"
           /\ channel'[j].to = "check" => check' = "answered"

(* A call that changes has no message left; one that is overtaken counts     *)
(* neither as a start nor as a stop.                                         *)
CallsCarried ==
    \A c \in AndroidCalls :
        \/ calls'[c] = calls[c]
        \/ calls[c] = "storeStop" /\ calls'[c] = "overtaken"
        \/ \A j \in Places' : channel'[j].to # c

LEMMA PlaceCarried ==
    ASSUME Android!TypeOK, Android!TypeOK', NEW s, Carried(s)
    PROVE  /\ \A j \in Places' : j + s \in Places
           /\ \A i \in Places : i > s => i - s \in Places' /\ (i - s) + s = i
           /\ s = 0 \/ 1 \in Places
           /\ \A i \in Places : i > s \/ i = 1
<1>1. Len(channel) \in Nat /\ Len(channel') \in Nat
  BY PlacesOfChannel
<1> QED BY <1>1 DEF Carried, Places

LEMMA MessageCarried ==
    ASSUME PageAssumption, Android!TypeOK, Android!TypeOK', NEW s, Carried(s), CallsCarried,
           NEW j \in Places'
    PROVE  /\ j + s \in Places
           /\ IsEvent(j)' <=> IsEvent(j + s)
           /\ Started(j)' <=> Started(j + s)
           /\ Stopped(j)' <=> Stopped(j + s)
           /\ Presumes(j)' => Presumes(j + s)
           /\ SaidAt(j)' = SaidAt(j + s)
           /\ channel'[j].to = "check" => channel[j + s].to = "check"
           /\ channel'[j].what = channel[j + s].what
           /\ \A c \in AndroidCalls : channel'[j].to = c <=> channel[j + s].to = c
<1>1. j + s \in Places
  BY PlaceCarried
<1>2. /\ channel'[j].what = channel[j + s].what
      /\ \/ channel'[j].to = channel[j + s].to
         \/ channel[j + s].to = "check" /\ channel'[j].to = "nobody"
  BY DEF Carried
<1>3. "check" \notin AndroidCalls /\ "nobody" \notin AndroidCalls /\ "page" \notin AndroidCalls
  BY DEF PageAssumption
<1> DEFINE m == channel'[j]
           n == channel[j + s]
<1>4. /\ IsEvent(j)' <=> m.to = "page"
      /\ IsEvent(j + s) <=> n.to = "page"
  BY DEF IsEvent
<1>5. /\ m.what = n.what
      /\ m.to = n.to \/ (n.to = "check" /\ m.to = "nobody")
  BY <1>2
<1>6. m.to \in AndroidCalls <=> n.to \in AndroidCalls
  BY <1>3, <1>5
<1>7. m.to \in AndroidCalls =>
          /\ m.to = n.to
          /\ \/ calls'[m.to] = calls[m.to]
             \/ calls[m.to] = "storeStop" /\ calls'[m.to] = "overtaken"
  BY <1>3, <1>5 DEF CallsCarried
<1>8. /\ Started(j)' <=> /\ m.to \in AndroidCalls /\ m.what = "done"
                         /\ calls'[m.to] \in {"start", "again"}
      /\ Started(j + s) <=> /\ n.to \in AndroidCalls /\ n.what = "done"
                            /\ calls[n.to] \in {"start", "again"}
      /\ Stopped(j)' <=> m.to \in AndroidCalls /\ calls'[m.to] \in Stops
      /\ Stopped(j + s) <=> n.to \in AndroidCalls /\ calls[n.to] \in Stops
      /\ Stops' = Stops
  BY DEF Started, Stopped, Stops
<1>9. /\ Presumes(j)' <=> \/ Started(j)'
                          \/ m.to \in AndroidCalls /\ m.what = "running"
                          \/ m.to = "check" /\ m.what # "idle"
      /\ Presumes(j + s) <=> \/ Started(j + s)
                             \/ n.to \in AndroidCalls /\ n.what = "running"
                             \/ n.to = "check" /\ n.what # "idle"
      /\ SaidAt(j)' = IF m.to = "page" THEN Says(m.what) ELSE "capturing"
      /\ SaidAt(j + s) = IF n.to = "page" THEN Says(n.what) ELSE "capturing"
  BY DEF Presumes, SaidAt, IsEvent, Says
<1> HIDE DEF m, n
<1>10. Started(j)' <=> Started(j + s)
  BY <1>5, <1>6, <1>7, <1>8
<1>11. Stopped(j)' <=> Stopped(j + s)
  BY <1>6, <1>7, <1>8 DEF Stops
<1>12. m.to = "page" <=> n.to = "page"
  BY <1>3, <1>5
<1>13. \A c \in AndroidCalls : m.to = c <=> n.to = c
  BY <1>3, <1>5
<1>14. m.to = "check" => n.to = "check"
  BY <1>5
<1> QED BY <1>1, <1>4, <1>5, <1>6, <1>9, <1>10, <1>11, <1>12, <1>13, <1>14 DEF m, n

(* What comes after a place comes after it still.                            *)
LEMMA LaterCarried ==
    ASSUME PageAssumption, Android!TypeOK, Android!TypeOK', NEW s, Carried(s), CallsCarried,
           NEW j \in Nat
    PROVE  /\ NewsAfter(j)' <=> NewsAfter(j + s)
           /\ StartAfter(j)' <=> StartAfter(j + s)
           /\ StopAfter(j)' <=> StopAfter(j + s)
           /\ \A c \in AndroidCalls : AnswerAfter(j, c)' <=> AnswerAfter(j + s, c)
<1>1. /\ \A k \in Places' : k + s \in Places
      /\ \A i \in Places : i > s => i - s \in Places' /\ (i - s) + s = i
  BY PlaceCarried
<1>2. s \in {0, 1} /\ Places' \subseteq Nat /\ Places \subseteq Nat
  BY DEF Carried, Places
<1>3. ASSUME NEW k \in Places'
      PROVE  /\ k + s \in Places /\ (k > j <=> k + s > j + s)
             /\ IsEvent(k)' <=> IsEvent(k + s)
             /\ Started(k)' <=> Started(k + s)
             /\ Stopped(k)' <=> Stopped(k + s)
             /\ \A c \in AndroidCalls : channel'[k].to = c <=> channel[k + s].to = c
  BY <1>2, MessageCarried
<1>4. ASSUME NEW i \in Places, i > j + s
      PROVE  i - s \in Places' /\ i - s > j /\ (i - s) + s = i
  BY <1>1, <1>2, <1>4
<1>5. NewsAfter(j)' <=> NewsAfter(j + s)
  <2>1. ASSUME NewsAfter(j)' PROVE NewsAfter(j + s)
    <3>1. PICK k \in Places' : k > j /\ (IsEvent(k)' \/ Started(k)')
      BY <2>1 DEF NewsAfter
    <3> QED BY <1>3, <3>1 DEF NewsAfter
  <2>2. ASSUME NewsAfter(j + s) PROVE NewsAfter(j)'
    <3>1. PICK i \in Places : i > j + s /\ (IsEvent(i) \/ Started(i))
      BY <2>2 DEF NewsAfter
    <3>2. i - s \in Places' /\ i - s > j /\ (i - s) + s = i
      BY <1>4, <3>1
    <3>3. IsEvent(i - s)' \/ Started(i - s)'
      BY <1>3, <3>1, <3>2
    <3> QED BY <3>2, <3>3 DEF NewsAfter
  <2> QED BY <2>1, <2>2
<1>6. StartAfter(j)' <=> StartAfter(j + s)
  <2>1. ASSUME StartAfter(j)' PROVE StartAfter(j + s)
    <3>1. PICK k \in Places' : k > j /\ Started(k)'
      BY <2>1 DEF StartAfter
    <3> QED BY <1>3, <3>1 DEF StartAfter
  <2>2. ASSUME StartAfter(j + s) PROVE StartAfter(j)'
    <3>1. PICK i \in Places : i > j + s /\ Started(i)
      BY <2>2 DEF StartAfter
    <3>2. i - s \in Places' /\ i - s > j /\ (i - s) + s = i
      BY <1>4, <3>1
    <3>3. Started(i - s)'
      BY <1>3, <3>1, <3>2
    <3> QED BY <3>2, <3>3 DEF StartAfter
  <2> QED BY <2>1, <2>2
<1>7. StopAfter(j)' <=> StopAfter(j + s)
  <2>1. ASSUME StopAfter(j)' PROVE StopAfter(j + s)
    <3>1. PICK k \in Places' : k > j /\ Stopped(k)'
      BY <2>1 DEF StopAfter
    <3> QED BY <1>3, <3>1 DEF StopAfter
  <2>2. ASSUME StopAfter(j + s) PROVE StopAfter(j)'
    <3>1. PICK i \in Places : i > j + s /\ Stopped(i)
      BY <2>2 DEF StopAfter
    <3>2. i - s \in Places' /\ i - s > j /\ (i - s) + s = i
      BY <1>4, <3>1
    <3>3. Stopped(i - s)'
      BY <1>3, <3>1, <3>2
    <3> QED BY <3>2, <3>3 DEF StopAfter
  <2> QED BY <2>1, <2>2
<1>8. ASSUME NEW c \in AndroidCalls PROVE AnswerAfter(j, c)' <=> AnswerAfter(j + s, c)
  <2>1. ASSUME AnswerAfter(j, c)' PROVE AnswerAfter(j + s, c)
    <3>1. PICK k \in Places' : k > j /\ channel'[k].to = c
      BY <2>1 DEF AnswerAfter
    <3> QED BY <1>3, <3>1 DEF AnswerAfter
  <2>2. ASSUME AnswerAfter(j + s, c) PROVE AnswerAfter(j, c)'
    <3>1. PICK i \in Places : i > j + s /\ channel[i].to = c
      BY <2>2 DEF AnswerAfter
    <3>2. i - s \in Places' /\ i - s > j /\ (i - s) + s = i
      BY <1>4, <3>1
    <3>3. channel'[i - s].to = c
      BY <1>3, <3>1, <3>2
    <3> QED BY <3>2, <3>3 DEF AnswerAfter
  <2> QED BY <2>1, <2>2
<1> QED BY <1>5, <1>6, <1>7, <1>8

-----------------------------------------------------------------------------
(* Steps of the page: what the messages left say of the session stays true.  *)

NoNewStop(s) ==
    \A c \in AndroidCalls : calls'[c] = "storeStop" =>
        \/ calls[c] = "storeStop" /\ (s = 1 => ~Started(1))
        \/ s = 1 /\ calls[c] = "stopAll" /\ channel[1].to = c

LEMMA SessionCarried ==
    ASSUME PageAssumption, PageInv, Android!TypeOK', NEW s, Carried(s), CallsCarried,
           UNCHANGED <<session, toSend>>, NoNewStop(s)
    PROVE  StopsAreDone' /\ EndsAreHeard' /\ NewsIsTrue'
<1>0. Android!TypeOK /\ s \in {0, 1} /\ Places' \subseteq Nat /\ Places \subseteq Nat
  BY DEF PageInv, Carried, Places
<1>1. \A j \in Places' :
        /\ j + s \in Places
        /\ IsEvent(j)' <=> IsEvent(j + s)
        /\ Started(j)' <=> Started(j + s)
        /\ Presumes(j)' => Presumes(j + s)
        /\ SaidAt(j)' = SaidAt(j + s)
        /\ channel'[j].to = "check" => channel[j + s].to = "check"
        /\ channel'[j].what = channel[j + s].what
        /\ \A c \in AndroidCalls : channel'[j].to = c <=> channel[j + s].to = c
  BY <1>0, MessageCarried
<1>2. \A j \in Places' :
        /\ NewsAfter(j)' <=> NewsAfter(j + s)
        /\ StartAfter(j)' <=> StartAfter(j + s)
        /\ StopAfter(j)' <=> StopAfter(j + s)
  BY <1>0, LaterCarried
<1>3. \A i \in Places : i > s => i - s \in Places' /\ (i - s) + s = i
  BY <1>0, PlaceCarried
<1>4. ASSUME NEW c \in AndroidCalls, calls'[c] = "storeStop", session # "idle"
      PROVE  \E j \in Places' : Started(j)'
  <2>1. CASE calls[c] = "storeStop" /\ (s = 1 => ~Started(1))
    <3>1. PICK i \in Places : Started(i)
      BY <1>4, <2>1 DEF PageInv, StopsAreDone
    <3>2. i > s
      BY <1>0, <2>1, <3>1 DEF Places
    <3> QED BY <1>1, <1>3, <3>1, <3>2
  <2>2. CASE s = 1 /\ calls[c] = "stopAll" /\ channel[1].to = c
    <3>1. 1 \in Places
      BY <1>0, <2>2, PlaceCarried
    <3>2. StartAfter(1)
      BY <1>4, <2>2, <3>1 DEF PageInv, StopsAreDone
    <3>3. PICK i \in Places : i > 1 /\ Started(i)
      BY <3>2 DEF StartAfter
    <3> QED BY <1>1, <1>3, <2>2, <3>3
  <2> QED BY <1>4, <2>1, <2>2 DEF NoNewStop
<1>5. ASSUME NEW j \in Places', channel'[j].to \in AndroidCalls,
             calls'[channel'[j].to] = "stopAll", session # "idle"
      PROVE  StartAfter(j)'
  <2>1. channel[j + s].to = channel'[j].to /\ calls[channel[j + s].to] = "stopAll"
    BY <1>1, <1>5 DEF CallsCarried
  <2>2. StartAfter(j + s)
    BY <1>1, <1>5, <2>1 DEF PageInv, StopsAreDone
  <2> QED BY <1>2, <2>2
<1>6. StopsAreDone'
  BY <1>4, <1>5 DEF StopsAreDone
<1>7. EndsAreHeard'
  BY <1>1, <1>2 DEF PageInv, EndsAreHeard
<1>8. ASSUME Runs
      PROVE  /\ toSend # None => Says(toSend) = session
             /\ toSend = None => \A j \in Places' : (IsEvent(j) \/ Started(j))' =>
                   SaidAt(j)' = session \/ NewsAfter(j)'
             /\ \A j \in Places' : channel'[j].to = "check" =>
                   channel'[j].what = session \/ toSend # None \/ NewsAfter(j)'
  <2>1. NewsIsTrue
    BY DEF PageInv
  <2>2. toSend # None => Says(toSend) = session
    BY <1>8, <2>1 DEF NewsIsTrue
  <2>3. toSend = None => \A i \in Places : IsEvent(i) \/ Started(i) =>
                   SaidAt(i) = session \/ NewsAfter(i)
    BY <1>8, <2>1 DEF NewsIsTrue
  <2>4. \A i \in Places : channel[i].to = "check" =>
                   channel[i].what = session \/ toSend # None \/ NewsAfter(i)
    BY <1>8, <2>1 DEF NewsIsTrue
  <2>5. ASSUME toSend = None, NEW j \in Places', IsEvent(j)' \/ Started(j)'
        PROVE  SaidAt(j)' = session \/ NewsAfter(j)'
    BY <1>1, <1>2, <2>3, <2>5
  <2>6. ASSUME NEW j \in Places', channel'[j].to = "check"
        PROVE  channel'[j].what = session \/ toSend # None \/ NewsAfter(j)'
    BY <1>1, <1>2, <2>4, <2>6
  <2> QED BY <2>2, <2>5, <2>6
<1>9. NewsIsTrue'
  BY <1>8 DEF NewsIsTrue, Runs, Says
<1> QED BY <1>6, <1>7, <1>9

LEMMA AnswersCarried ==
    ASSUME PageAssumption, PageInv, Android!TypeOK', NEW s, Carried(s), CallsCarried
    PROVE  AnswersFit'
<1> SUFFICES ASSUME NEW j \in Places', NEW c \in AndroidCalls, channel'[j].to = c,
                    NEW what, channel'[j].what = what
             PROVE  Fits(c, what)'
  BY DEF AnswersFit
<1>1. /\ j + s \in Places /\ channel[j + s].what = what
      /\ channel[j + s].to = c
  BY MessageCarried DEF PageInv
<1>2. Fits(c, what)
  BY <1>1 DEF PageInv, AnswersFit
<1>3. calls'[c] = calls[c] \/ (calls[c] = "storeStop" /\ calls'[c] = "overtaken")
  BY DEF CallsCarried
<1> QED BY <1>2, <1>3 DEF Fits, Ends, Stops

-----------------------------------------------------------------------------
(* Types.                                                                    *)

Statuses == [shows : {"idle", "capturing", "waiting"}, named : BOOLEAN]

LEMMA ShowTypes ==
    ASSUME Android!TypeOK, NEW new \in Statuses, Android!Show(new)
    PROVE  /\ status' = new /\ status' \in Statuses /\ lost' = FALSE
           /\ check' \in {None, "asked", "answered"}
           /\ IF new.named = status.named THEN check' = check
              ELSE check' = IF new.named /\ mounted THEN "asked" ELSE None
  BY DEF Android!Show, Android!Calibrate, Android!TypeOK

LEMMA HearDoes ==
    ASSUME Android!TypeOK, NEW event \in Android!Events, mounted, Android!Hear(event)
    PROVE  /\ \/ event = "exited" /\ status' = [shows |-> "waiting", named |-> TRUE]
              \/ event = "restarted" /\ status' = [shows |-> "capturing", named |-> TRUE]
              \/ event = "failed" /\ status' = [shows |-> "waiting", named |-> status.named]
           /\ status' \in Statuses /\ lost' = FALSE
           /\ check' \in {None, "asked", "answered"}
           /\ IF status'.named = status.named THEN check' = check ELSE check' = "asked"
<1>1. status \in Statuses
  BY DEF Android!TypeOK, Statuses
<1>2. CASE event = "exited"
  <2>1. Android!Show([shows |-> "waiting", named |-> TRUE])
    BY <1>2 DEF Android!Hear
  <2>2. [shows |-> "waiting", named |-> TRUE] \in Statuses
    BY DEF Statuses
  <2> QED BY <1>2, <2>1, <2>2, ShowTypes
<1>3. CASE event = "restarted"
  <2>1. Android!Show([shows |-> "capturing", named |-> TRUE])
    BY <1>3 DEF Android!Hear
  <2>2. [shows |-> "capturing", named |-> TRUE] \in Statuses
    BY DEF Statuses
  <2> QED BY <1>3, <2>1, <2>2, ShowTypes
<1>4. CASE event = "failed"
  <2>1. Android!Show([status EXCEPT !.shows = "waiting"])
    BY <1>4 DEF Android!Hear
  <2>2. [status EXCEPT !.shows = "waiting"] = [shows |-> "waiting", named |-> status.named]
    BY <1>1 DEF Statuses
  <2>3. [shows |-> "waiting", named |-> status.named] \in Statuses
    BY <1>1 DEF Statuses
  <2>4. Android!Show([shows |-> "waiting", named |-> status.named])
    BY <2>1, <2>2
  <2> QED BY <1>4, <2>3, <2>4, ShowTypes
<1> QED BY <1>2, <1>3, <1>4 DEF Android!Events

(* What an answer does, by the step of its call.                             *)
Answered(c, what) ==
    \/ /\ calls[c] = "pid" /\ what = "gone"
       /\ Android!Done(c) /\ Android!Stay
    \/ /\ calls[c] = "pid" /\ what = "found"
       /\ Android!Go(c, "start") /\ Android!Stay
    \/ /\ calls[c] \in {"start", "again"} /\ what = "done"
       /\ calls' = [o \in AndroidCalls |-> IF o = c THEN None
                                    ELSE IF calls[o] = "storeStop" THEN "overtaken"
                                    ELSE calls[o]]
       /\ UNCHANGED asked
       /\ Android!Show([shows |-> "capturing", named |-> TRUE])
    \/ calls[c] = "start" /\ what = "running" /\ Android!Go(c, "clean") /\ Android!Stay
    \/ calls[c] = "start" /\ what = "error" /\ Android!Done(c) /\ Android!Stay
    \/ /\ calls[c] = "again" /\ what \in {"running", "error"}
       /\ Android!Done(c)
       /\ lost' = (lost \/ (what = "error" /\ status.named))
       /\ UNCHANGED <<status, check>>
    \/ calls[c] = "clean" /\ Android!Go(c, "cleanAll") /\ Android!Stay
    \/ calls[c] = "cleanAll" /\ Android!Go(c, "again") /\ Android!Stay
    \/ calls[c] = "stop" /\ Android!Go(c, "stopAll") /\ Android!Stay
    \/ calls[c] = "stopAll" /\ Android!Go(c, "storeStop") /\ Android!Stay
    \/ /\ calls[c] \in {"storeStop", "overtaken"}
       /\ Android!Done(c)
       /\ status' = Android!Idle /\ Android!Calibrate(Android!Idle)
       /\ lost' = (calls[c] = "overtaken")

LEMMA ContinueAnswers ==
    ASSUME PageAssumption, NEW c \in AndroidCalls, calls[c] \in Android!Steps, NEW what,
           Fits(c, what), Android!Continue(c, what)
    PROVE  Answered(c, what)
<1>1. CASE calls[c] = "pid"
  <2>1. what \in {"found", "gone"}
    BY <1>1 DEF Fits
  <2> QED BY <1>1, <2>1 DEF Android!Continue, Answered
<1>2. CASE calls[c] = "start"
  <2>1. what \in {"done", "running", "error"}
    BY <1>2 DEF Fits
  <2> QED BY <1>2, <2>1 DEF Android!Continue, Answered
<1>3. CASE calls[c] = "again"
  <2>1. what \in {"done", "running", "error"}
    BY <1>3 DEF Fits
  <2> QED BY <1>3, <2>1 DEF Android!Continue, Answered
<1>4. CASE calls[c] = "clean"
  BY <1>4 DEF Android!Continue, Answered
<1>5. CASE calls[c] = "cleanAll"
  BY <1>5 DEF Android!Continue, Answered
<1>6. CASE calls[c] = "stop"
  BY <1>6 DEF Android!Continue, Answered
<1>7. CASE calls[c] = "stopAll"
  BY <1>7 DEF Android!Continue, Answered
<1>8. CASE calls[c] \in {"storeStop", "overtaken"}
  BY <1>8 DEF Android!Continue, Answered
<1> QED BY <1>1, <1>2, <1>3, <1>4, <1>5, <1>6, <1>7, <1>8 DEF Android!Steps

LEMMA AnsweredTypes ==
    ASSUME PageAssumption, Android!TypeOK, NEW c \in AndroidCalls, NEW what, Answered(c, what)
    PROVE  /\ calls' \in [AndroidCalls -> Android!Steps \cup {None}] /\ asked' \in SUBSET AndroidCalls
           /\ status' \in Statuses /\ lost' \in BOOLEAN
           /\ check' \in {None, "asked", "answered"}
<1>1. /\ calls \in [AndroidCalls -> Android!Steps \cup {None}] /\ asked \in SUBSET AndroidCalls
      /\ status \in Statuses /\ lost \in BOOLEAN /\ check \in {None, "asked", "answered"}
  BY DEF Android!TypeOK, Statuses
<1>2. ASSUME NEW step \in Android!Steps, Android!Go(c, step)
      PROVE  calls' \in [AndroidCalls -> Android!Steps \cup {None}] /\ asked' \in SUBSET AndroidCalls
  BY <1>1, <1>2 DEF Android!Go
<1>3. ASSUME Android!Done(c)
      PROVE  calls' \in [AndroidCalls -> Android!Steps \cup {None}] /\ asked' \in SUBSET AndroidCalls
  BY <1>1, <1>3 DEF Android!Done
<1>4. ASSUME Android!Stay
      PROVE  /\ status' \in Statuses /\ lost' \in BOOLEAN
             /\ check' \in {None, "asked", "answered"}
  BY <1>1, <1>4 DEF Android!Stay
<1>5. {"start", "clean", "cleanAll", "again", "stopAll", "storeStop", "overtaken"} \subseteq Android!Steps
  BY DEF Android!Steps
<1>6. CASE /\ calls[c] \in {"start", "again"} /\ what = "done"
           /\ calls' = [o \in AndroidCalls |-> IF o = c THEN None
                                    ELSE IF calls[o] = "storeStop" THEN "overtaken"
                                    ELSE calls[o]]
           /\ UNCHANGED asked
           /\ Android!Show([shows |-> "capturing", named |-> TRUE])
  <2>1. [shows |-> "capturing", named |-> TRUE] \in Statuses
    BY DEF Statuses
  <2>2. /\ status' \in Statuses /\ lost' \in BOOLEAN
        /\ check' \in {None, "asked", "answered"}
    BY <1>6, <2>1, ShowTypes
  <2>3. \A o \in AndroidCalls : calls'[o] \in Android!Steps \cup {None}
    BY <1>1, <1>5, <1>6
  <2> QED BY <1>1, <1>6, <2>2, <2>3
<1>7. CASE /\ calls[c] = "again" /\ what \in {"running", "error"}
           /\ Android!Done(c)
           /\ lost' = (lost \/ (what = "error" /\ status.named))
           /\ UNCHANGED <<status, check>>
  BY <1>1, <1>3, <1>7
<1>8. CASE /\ Android!Done(c)
           /\ status' = Android!Idle /\ Android!Calibrate(Android!Idle)
           /\ lost' = (calls[c] = "overtaken")
  <2>1. Android!Idle \in Statuses
    BY DEF Android!Idle, Statuses
  <2>2. check' \in {None, "asked", "answered"}
    BY <1>1, <1>8 DEF Android!Calibrate
  <2> QED BY <1>3, <1>8, <2>1, <2>2
<1> QED BY <1>2, <1>3, <1>4, <1>5, <1>6, <1>7, <1>8 DEF Answered

-----------------------------------------------------------------------------
(* A message is delivered.                                                   *)

Delivered ==
    \/ /\ IsEvent(1) /\ mounted /\ Android!Hear(channel[1].what)
       /\ UNCHANGED <<calls, asked>>
    \/ /\ channel[1].to \in {"page", "nobody"} /\ (IsEvent(1) => ~mounted)
       /\ Android!Stay /\ UNCHANGED <<calls, asked>>
    \/ /\ channel[1].to = "check"
       /\ status' = [shows |-> channel[1].what, named |-> TRUE]
       /\ check' = None /\ lost' = FALSE
       /\ UNCHANGED <<calls, asked>>
    \/ /\ channel[1].to \in AndroidCalls /\ Fits(channel[1].to, channel[1].what)
       /\ Answered(channel[1].to, channel[1].what)

LEMMA DeliverDoes ==
    ASSUME PageAssumption, PageInv, Android!Deliver
    PROVE  /\ Android!TypeOK' /\ Carried(1) /\ Delivered /\ 1 \in Places
           /\ UNCHANGED <<session, toSend, mounted>>
<1>0. Android!TypeOK
  BY DEF PageInv
<1>1. channel \in Seq(Android!Sent) /\ channel # <<>>
  BY <1>0 DEF Android!Deliver, Android!TypeOK
<1>2. /\ Len(channel) \in Nat /\ Head(channel) = channel[1]
      /\ Tail(channel) \in Seq(Android!Sent) /\ Len(Tail(channel)) = Len(channel) - 1
      /\ \A i \in 1 .. Len(Tail(channel)) : Tail(channel)[i] = channel[i + 1]
  BY <1>1, HeadTailProperties, LenProperties
<1>3. Len(channel) # 0 /\ 1 \in Places
  BY <1>1, <1>2, EmptySeq DEF Places
<1> DEFINE m == channel[1]
<1>4. m \in Android!Sent
  BY <1>0, <1>3, PlacesOfChannel
<1>5. /\ m.to \in AndroidCalls \cup {"page", "check", "nobody"}
      /\ m.to \in {"check", "nobody"} => m.what \in {"idle", "capturing", "waiting"}
      /\ m.to = "page" => m.what \in Android!Events
  BY <1>4, SentParts
<1>6. m.to \in AndroidCalls =>
          /\ m.to \notin {"page", "check", "nobody"}
          /\ Fits(m.to, m.what) /\ calls[m.to] \in Android!Steps
  BY <1>0, <1>3 DEF PageInv, AnswersFit, CallsWaitOnce, PageAssumption, Android!TypeOK
<1>7. /\ m.to = "page" => Android!Hear(m.what) /\ UNCHANGED <<calls, asked>>
      /\ m.to = "check" => /\ status' = [shows |-> m.what, named |-> TRUE]
                           /\ check' = None /\ lost' = FALSE
                           /\ UNCHANGED <<calls, asked>>
      /\ m.to = "nobody" => Android!Stay /\ UNCHANGED <<calls, asked>>
      /\ m.to \in AndroidCalls => Android!Continue(m.to, m.what)
      /\ Android!Received /\ UNCHANGED <<session, toSend, mounted>>
  BY <1>2, <1>6 DEF Android!Deliver
<1>8. m.to \in AndroidCalls => Answered(m.to, m.what)
  BY <1>6, <1>7, ContinueAnswers
<1>9. Delivered
  <2>1. CASE m.to = "page" /\ mounted
    BY <1>7, <2>1 DEF Delivered, IsEvent
  <2>2. CASE m.to = "page" /\ ~mounted
    BY <1>7, <2>2 DEF Delivered, IsEvent, Android!Hear
  <2>3. CASE m.to = "nobody"
    BY <1>7, <2>3 DEF Delivered, IsEvent
  <2>4. CASE m.to = "check"
    BY <1>7, <2>4 DEF Delivered
  <2>5. CASE m.to \in AndroidCalls
    BY <1>6, <1>8, <2>5 DEF Delivered
  <2> QED BY <1>5, <2>1, <2>2, <2>3, <2>4, <2>5
<1>10. /\ calls' \in [AndroidCalls -> Android!Steps \cup {None}] /\ asked' \in SUBSET AndroidCalls
       /\ status' \in Statuses /\ lost' \in BOOLEAN
       /\ check' \in {None, "asked", "answered"}
  <2>0. /\ calls \in [AndroidCalls -> Android!Steps \cup {None}] /\ asked \in SUBSET AndroidCalls
        /\ status \in Statuses /\ lost \in BOOLEAN /\ check \in {None, "asked", "answered"}
    BY <1>0 DEF Android!TypeOK, Statuses
  <2>1. CASE m.to = "page" /\ mounted
    BY <1>0, <1>5, <1>7, <2>0, <2>1, HearDoes
  <2>2. CASE (m.to = "page" /\ ~mounted) \/ m.to = "nobody"
    BY <1>7, <2>0, <2>2 DEF Android!Hear, Android!Stay
  <2>3. CASE m.to = "check"
    <3>1. m.what \in {"idle", "capturing", "waiting"}
      BY <1>5, <2>3
    <3>2. [shows |-> m.what, named |-> TRUE] \in Statuses
      BY <3>1 DEF Statuses
    <3> QED BY <1>7, <2>0, <2>3, <3>2
  <2>4. CASE m.to \in AndroidCalls
    BY <1>0, <1>8, <2>4, AnsweredTypes
  <2> QED BY <1>5, <2>1, <2>2, <2>3, <2>4
<1> HIDE DEF m
<1>11. channel' = IF check' = "answered" THEN Tail(channel) ELSE Android!Forget(Tail(channel))
  BY <1>7 DEF Android!Received
<1>12. /\ Android!Forget(Tail(channel)) \in Seq(Android!Sent)
       /\ Len(Android!Forget(Tail(channel))) = Len(Tail(channel))
       /\ \A i \in 1 .. Len(Tail(channel)) :
              /\ Android!Forget(Tail(channel))[i].what = Tail(channel)[i].what
              /\ Android!Forget(Tail(channel))[i].to =
                     IF Tail(channel)[i].to = "check" THEN "nobody" ELSE Tail(channel)[i].to
  BY <1>2, ForgetKeeps
<1>13. channel' \in Seq(Android!Sent) /\ Len(channel') = Len(channel) - 1
  BY <1>2, <1>11, <1>12
<1>14. Carried(1)
  <2>1. Len(channel') + 1 = Len(channel) /\ Places' = 1 .. Len(Tail(channel))
    BY <1>2, <1>13 DEF Places
  <2>2. ASSUME NEW j \in Places'
        PROVE  /\ channel'[j].what = channel[j + 1].what
               /\ \/ channel'[j].to = channel[j + 1].to
                  \/ channel[j + 1].to = "check" /\ channel'[j].to = "nobody"
               /\ channel'[j].to = "check" => check' = "answered"
    <3>1. Tail(channel)[j] = channel[j + 1] /\ j \in 1 .. Len(Tail(channel))
      BY <1>2, <2>1
    <3>2. CASE check' = "answered"
      BY <1>11, <3>1, <3>2
    <3>3. CASE check' # "answered"
      BY <1>11, <1>12, <3>1, <3>3
    <3> QED BY <3>2, <3>3
  <2> QED BY <2>1, <2>2 DEF Carried
<1>15. Android!TypeOK'
  BY <1>0, <1>7, <1>10, <1>13 DEF Android!TypeOK, Statuses
<1> QED BY <1>3, <1>7, <1>9, <1>14, <1>15

(* The call that gets its answer has no other under way.                     *)
LEMMA HeadIsLast ==
    ASSUME PageAssumption, PageInv, Android!TypeOK', Carried(1), 1 \in Places,
           NEW c \in AndroidCalls, channel[1].to = c
    PROVE  /\ \A j \in Places' : channel'[j].to # c
           /\ \A i \in Places : i > 1 => channel[i].to # c
           /\ c \notin asked /\ calls[c] # None
<1>1. /\ \A i, j \in Places : channel[i].to = c /\ channel[j].to = c => i = j
      /\ c \notin asked /\ calls[c] # None
  BY DEF PageInv, CallsWaitOnce
<1>2. \A i \in Places : i > 1 => channel[i].to # c
  BY <1>1
<1>3. ASSUME NEW j \in Places' PROVE channel'[j].to # c
  <2>1. j + 1 \in Places /\ j + 1 > 1
    BY PlaceCarried DEF PageInv, Places
  <2>2. channel[j + 1].to # c
    BY <1>2, <2>1
  <2>3. channel'[j].to = channel[j + 1].to \/ channel'[j].to = "nobody"
    BY DEF Carried
  <2> QED BY <2>2, <2>3 DEF PageAssumption
<1> QED BY <1>1, <1>2, <1>3

(* How an answer changes the calls.                                          *)
Stages == {<<"pid", "start">>, <<"start", "clean">>, <<"clean", "cleanAll">>,
           <<"cleanAll", "again">>, <<"stop", "stopAll">>, <<"stopAll", "storeStop">>}

LEMMA AnsweredCalls ==
    ASSUME PageAssumption, Android!TypeOK, NEW c \in AndroidCalls, NEW what, Answered(c, what)
    PROVE  /\ \/ <<calls[c], calls'[c]>> \in Stages /\ asked' = asked \cup {c}
              \/ calls'[c] = None /\ asked' = asked
           /\ \A o \in AndroidCalls \ {c} :
                  \/ calls'[o] = calls[o]
                  \/ calls[o] = "storeStop" /\ calls'[o] = "overtaken"
<1>0. calls \in [AndroidCalls -> Android!Steps \cup {None}]
  BY DEF Android!TypeOK
<1>1. ASSUME NEW step, Android!Go(c, step)
      PROVE  /\ calls'[c] = step /\ asked' = asked \cup {c}
             /\ \A o \in AndroidCalls \ {c} : calls'[o] = calls[o]
  BY <1>0, <1>1 DEF Android!Go
<1>2. ASSUME Android!Done(c)
      PROVE  /\ calls'[c] = None /\ asked' = asked
             /\ \A o \in AndroidCalls \ {c} : calls'[o] = calls[o]
  BY <1>0, <1>2 DEF Android!Done
<1>3. CASE /\ calls[c] \in {"start", "again"} /\ what = "done"
           /\ calls' = [o \in AndroidCalls |-> IF o = c THEN None
                                    ELSE IF calls[o] = "storeStop" THEN "overtaken"
                                    ELSE calls[o]]
           /\ UNCHANGED asked
  BY <1>3
<1> QED BY <1>1, <1>2, <1>3 DEF Answered, Stages

LEMMA DeliveredCalls ==
    ASSUME PageAssumption, PageInv, Carried(1), Delivered, 1 \in Places, Android!TypeOK',
           UNCHANGED <<session, toSend, mounted>>
    PROVE  CallsCarried /\ CallsWaitOnce' /\ NoNewStop(1)
<1>0. /\ Android!TypeOK /\ CallsWaitOnce
      /\ {"page", "check", "nobody"} \cap AndroidCalls = {}
      /\ \A j \in Places' : j + 1 \in Places
  BY PlaceCarried DEF PageInv, PageAssumption
<1>1. ASSUME channel[1].to \notin AndroidCalls
      PROVE  UNCHANGED <<calls, asked>>
  BY <1>0, <1>1 DEF Delivered, IsEvent
<1>2. ASSUME NEW c \in AndroidCalls, channel[1].to = c
      PROVE  /\ \A j \in Places' : channel'[j].to # c
             /\ c \notin asked /\ calls[c] # None
             /\ \/ <<calls[c], calls'[c]>> \in Stages /\ asked' = asked \cup {c}
                \/ calls'[c] = None /\ asked' = asked
             /\ \A o \in AndroidCalls \ {c} :
                    \/ calls'[o] = calls[o]
                    \/ calls[o] = "storeStop" /\ calls'[o] = "overtaken"
  <2>1. Answered(c, channel[1].what)
    BY <1>0, <1>2 DEF Delivered, IsEvent
  <2> QED BY <1>0, <1>2, <2>1, HeadIsLast, AnsweredCalls
<1>3. CallsCarried
  BY <1>1, <1>2 DEF CallsCarried
<1>4. ASSUME NEW c \in AndroidCalls, NEW j \in Places'
      PROVE  channel'[j].to = c <=> channel[j + 1].to = c
  BY <1>0, <1>3, MessageCarried
<1>5. ASSUME NEW c \in AndroidCalls
      PROVE  /\ calls'[c] = None \/ c \in asked' => \A j \in Places' : channel'[j].to # c
             /\ calls'[c] = None => c \notin asked'
             /\ \A i, j \in Places' : channel'[i].to = c /\ channel'[j].to = c => i = j
  <2>1. /\ calls[c] = None \/ c \in asked => \A j \in Places' : channel'[j].to # c
        /\ calls[c] = None => c \notin asked
    BY <1>0, <1>4 DEF CallsWaitOnce
  <2>2. ASSUME NEW i \in Places', NEW j \in Places', channel'[i].to = c, channel'[j].to = c
        PROVE  i = j
    <3>1. i + 1 = j + 1
      BY <1>0, <1>4, <2>2 DEF CallsWaitOnce
    <3> QED BY <3>1 DEF Places
  <2>3. CASE channel[1].to = c
    BY <1>0, <1>2, <2>2, <2>3 DEF Stages, PageAssumption, Android!Steps
  <2>4. CASE channel[1].to # c
    <3>1. calls'[c] = None <=> calls[c] = None
      BY <1>1, <1>2, <2>4 DEF PageAssumption, Android!Steps
    <3>2. c \in asked' <=> c \in asked
      BY <1>1, <1>2, <2>4
    <3> QED BY <2>1, <2>2, <3>1, <3>2
  <2> QED BY <2>3, <2>4
<1>6. CallsWaitOnce'
  BY <1>5 DEF CallsWaitOnce
<1>7. ASSUME NEW c \in AndroidCalls, calls'[c] = "storeStop"
      PROVE  \/ calls[c] = "storeStop" /\ ~Started(1)
             \/ calls[c] = "stopAll" /\ channel[1].to = c
  <2>1. CASE channel[1].to = c
    BY <1>2, <1>7, <2>1 DEF Stages, PageAssumption, Android!Steps
  <2>2. CASE channel[1].to # c
    <3>1. calls[c] = "storeStop"
      BY <1>1, <1>2, <1>7, <2>2
    <3>2. ASSUME Started(1) PROVE FALSE
      <4>1. /\ channel[1].to \in AndroidCalls /\ channel[1].what = "done"
            /\ calls[channel[1].to] \in {"start", "again"}
        BY <3>2 DEF Started
      <4>2. Answered(channel[1].to, "done")
        BY <1>0, <4>1 DEF Delivered, IsEvent
      <4>3. calls'[c] = "overtaken" \/ c = channel[1].to
        BY <3>1, <4>1, <4>2 DEF Answered
      <4> QED BY <1>7, <2>2, <4>3
    <3> QED BY <3>1, <3>2
  <2> QED BY <2>1, <2>2
<1>8. NoNewStop(1)
  BY <1>7 DEF NoNewStop
<1> QED BY <1>3, <1>6, <1>8

-----------------------------------------------------------------------------
(* What the status says after a message.                                     *)

LEMMA NoNewsCarried ==
    ASSUME PageAssumption, PageInv, Android!TypeOK', NEW s, Carried(s), CallsCarried
    PROVE  /\ (\A j \in Places' : ~Started(j)') /\ (s = 1 => ~Started(1)) =>
                  \A i \in Places : ~Started(i)
           /\ (\A j \in Places' : ~Started(j)' /\ ~IsEvent(j)') =>
                  /\ (s = 1 => ~Started(1) /\ ~IsEvent(1)) =>
                         \A i \in Places : ~Started(i) /\ ~IsEvent(i)
                  /\ s = 1 => ~NewsAfter(1)
<1>0. Android!TypeOK /\ s \in {0, 1}
  BY DEF PageInv, Carried
<1>1. \A i \in Places : i > s \/ i = 1
  BY <1>0, PlaceCarried
<1>2. ASSUME NEW i \in Places, i > s
      PROVE  \E j \in Places' : /\ Started(i) <=> Started(j)'
                                /\ IsEvent(i) <=> IsEvent(j)'
  <2>1. i - s \in Places' /\ (i - s) + s = i
    BY <1>0, <1>2, PlaceCarried
  <2> DEFINE j == i - s
  <2>2. j \in Places' /\ j + s = i
    BY <2>1
  <2> HIDE DEF j
  <2>3. (Started(j + s) <=> Started(j)') /\ (IsEvent(j + s) <=> IsEvent(j)')
    BY <1>0, <2>2, MessageCarried
  <2> QED BY <2>2, <2>3
<1>3. ASSUME s = 1, NewsAfter(1)
      PROVE  \E j \in Places' : Started(j)' \/ IsEvent(j)'
  <2>1. PICK i \in Places : i > 1 /\ (IsEvent(i) \/ Started(i))
    BY <1>3 DEF NewsAfter
  <2> QED BY <1>2, <1>3, <2>1
<1>4. ASSUME NEW i \in Places, s = 1 => i # 1 PROVE i > s
  BY <1>0, <1>1, <1>4 DEF Places
<1> QED BY <1>2, <1>3, <1>4

(* Late events stay late, and what ends the status stays to come.            *)
LEMMA LateCarried ==
    ASSUME PageAssumption, PageInv, Android!TypeOK', NEW s, Carried(s), CallsCarried,
           UNCHANGED <<session, toSend>>,
           status'.named => \A c \in AndroidCalls : calls[c] \in Ends =>
               calls'[c] \in Ends \/ (calls'[c] = "again" /\ c \in asked'),
           \A c \in AndroidCalls : calls[c] = "again" /\ ~(s = 1 /\ channel[1].to = c) =>
               calls'[c] = "again" /\ (c \in asked => c \in asked'),
           session = "idle" /\ status'.named /\ ~status.named =>
               \/ \E c \in AndroidCalls : calls[c] \in Stops
               \/ toSend = None /\ \A i \in Places : i > s => ~Late(i)
    PROVE  LateEvents'
<1>0. Android!TypeOK /\ s \in {0, 1} /\ Places \subseteq Nat /\ Places' \subseteq Nat
  BY DEF PageInv, Carried, Places
<1>a. Len(channel) \in Nat /\ Len(channel') \in Nat
      /\ Len(channel') + s = Len(channel) /\ (s = 0 \/ 1 \in Places)
  BY <1>0, PlacesOfChannel, PlaceCarried DEF Carried
<1> SUFFICES ASSUME session = "idle"
             PROVE  /\ \A j \in Places' : Late(j)' =>
                           /\ toSend = None /\ \A k \in Places' : Late(k)' => j = k
                           /\ status'.named => EndsAfter(j)'
                    /\ toSend # None /\ status'.named => EndsAfter(Len(channel))'
  BY DEF LateEvents
<1>1. /\ \A i \in Places : Late(i) =>
             /\ toSend = None /\ \A j \in Places : Late(j) => i = j
             /\ status.named => EndsAfter(i)
      /\ toSend # None /\ status.named => EndsAfter(Len(channel))
  BY DEF PageInv, LateEvents
<1>2. ASSUME NEW j \in Places', Late(j)'
      PROVE  j + s \in Places /\ j + s > s /\ Late(j + s)
  BY <1>0, <1>2, MessageCarried, LaterCarried DEF Late, Places
<1>3. ASSUME NEW j \in Nat, EndsAfter(j + s), status'.named PROVE EndsAfter(j)'
  <2>1. PICK c \in AndroidCalls :
            calls[c] \in Ends \/ (calls[c] = "again" /\ (c \in asked \/ AnswerAfter(j + s, c)))
    BY <1>3 DEF EndsAfter
  <2>2. CASE calls[c] \in Ends
    <3>1. calls'[c] \in Ends \/ (calls'[c] = "again" /\ c \in asked')
      BY <1>3, <2>2
    <3> QED BY <3>1 DEF EndsAfter, Ends, Stops
  <2>3. CASE calls[c] = "again" /\ (c \in asked \/ AnswerAfter(j + s, c))
    <3>1. ~(s = 1 /\ channel[1].to = c)
      <4>1. ASSUME s = 1, channel[1].to = c PROVE FALSE
        <5>1. c \notin asked
          BY <1>a, <4>1 DEF PageInv, CallsWaitOnce
        <5>2. PICK i \in Places : i > j + s /\ channel[i].to = c
          BY <2>3, <5>1 DEF AnswerAfter
        <5>3. i = 1
          BY <1>a, <4>1, <5>2 DEF PageInv, CallsWaitOnce
        <5> QED BY <4>1, <5>2, <5>3
      <4> QED BY <4>1
    <3>2. calls'[c] = "again" /\ (c \in asked => c \in asked')
      BY <2>3, <3>1
    <3>3. AnswerAfter(j + s, c) => AnswerAfter(j, c)'
      BY <1>0, LaterCarried
    <3> QED BY <2>3, <3>2, <3>3 DEF EndsAfter
  <2> QED BY <2>1, <2>2, <2>3
<1>4. ASSUME NEW c \in AndroidCalls, calls[c] \in Stops, status'.named, NEW j PROVE EndsAfter(j)'
  <2>1. calls'[c] \in Ends \/ (calls'[c] = "again" /\ c \in asked')
    BY <1>4 DEF Ends
  <2> QED BY <2>1 DEF EndsAfter, Ends, Stops
<1>5. ASSUME NEW j \in Places', Late(j)', status'.named PROVE EndsAfter(j)'
  <2>1. j + s \in Places /\ j + s > s /\ Late(j + s) /\ j \in Nat
    BY <1>0, <1>2, <1>5
  <2>2. CASE status.named
    BY <1>1, <1>3, <1>5, <2>1, <2>2
  <2>3. CASE ~status.named
    BY <1>4, <1>5, <2>1, <2>3
  <2> QED BY <2>2, <2>3
<1>6. ASSUME toSend # None, status'.named PROVE EndsAfter(Len(channel))'
  <2>1. CASE status.named
    BY <1>1, <1>3, <1>6, <1>a, <2>1
  <2>2. CASE ~status.named
    BY <1>4, <1>6, <2>2
  <2> QED BY <2>1, <2>2
<1>7. ASSUME NEW j \in Places', Late(j)'
      PROVE  toSend = None /\ \A k \in Places' : Late(k)' => j = k
  <2>1. toSend = None
    BY <1>1, <1>2, <1>7
  <2>2. ASSUME NEW k \in Places', Late(k)' PROVE j = k
    <3>1. j + s = k + s
      BY <1>1, <1>2, <1>7, <2>2
    <3> QED BY <1>0, <3>1
  <2> QED BY <2>1, <2>2
<1> QED BY <1>5, <1>6, <1>7

(* A step after which the status is the same.                                *)
LEMMA StatusKept ==
    ASSUME PageAssumption, PageInv, Android!TypeOK', NEW s, Carried(s), CallsCarried,
           UNCHANGED <<session, toSend, mounted, status, check>>, lost => lost',
           s = 1 => ~Started(1) /\ (IsEvent(1) => ~mounted),
           Overtaken => Overtaken'
    PROVE  ChecksAreNamed' /\ SessionIsNamed' /\ SessionIsShown'
<1>1. ChecksAreNamed'
  BY DEF PageInv, ChecksAreNamed, Carried
<1>2. SessionIsNamed'
  <2>1. (\A j \in Places' : ~Started(j)') => \A i \in Places : ~Started(i)
    BY NoNewsCarried
  <2> QED BY <2>1 DEF PageInv, SessionIsNamed, Half
<1>3. SessionIsShown'
  <2> SUFFICES ASSUME Runs', mounted', toSend' = None,
                      \A j \in Places' : ~Started(j)' /\ ~IsEvent(j)'
               PROVE  (status.shows = session \/ check # None \/ lost \/ Overtaken \/ Half)'
    BY DEF SessionIsShown
  <2>1. \A i \in Places : ~Started(i) /\ ~IsEvent(i)
    BY NoNewsCarried
  <2>2. Runs /\ mounted /\ toSend = None
    BY DEF Runs
  <2>3. status.shows = session \/ check # None \/ lost \/ Overtaken \/ Half
    BY <2>1, <2>2 DEF PageInv, SessionIsShown
  <2> QED BY <2>3 DEF Half
<1> QED BY <1>1, <1>2, <1>3

(* The head of the channel is an event.                                      *)
LEMMA EventShown ==
    ASSUME PageAssumption, PageInv, Android!TypeOK', Carried(1), CallsCarried, 1 \in Places,
           UNCHANGED <<session, toSend, mounted, calls, asked>>,
           IsEvent(1), mounted, Android!Hear(channel[1].what)
    PROVE  ChecksAreNamed' /\ SessionIsNamed' /\ SessionIsShown' /\ IdleIsShown'
           /\ LateEvents'
<1>0. Android!TypeOK /\ ChecksAreNamed /\ Len(channel) \in Nat
  BY PlacesOfChannel DEF PageInv
<1> DEFINE what == channel[1].what
<1>1. what \in Android!Events
  BY <1>0, PlacesOfChannel, SentParts DEF IsEvent
<1>2. /\ \/ what = "exited" /\ status' = [shows |-> "waiting", named |-> TRUE]
         \/ what = "restarted" /\ status' = [shows |-> "capturing", named |-> TRUE]
         \/ what = "failed" /\ status' = [shows |-> "waiting", named |-> status.named]
      /\ IF status'.named = status.named THEN check' = check ELSE check' = "asked"
  BY <1>0, <1>1, HearDoes
<1>3. SaidAt(1) = Says(what)
  BY DEF SaidAt
<1> HIDE DEF what
<1>4. status'.shows = Says(what) /\ (status'.named \/ (Half' /\ ~status.named))
      /\ status'.shows \in {"capturing", "waiting"} /\ status'.named \in BOOLEAN
      /\ status.named \in BOOLEAN /\ (status.named => status'.named)
  BY <1>0, <1>2 DEF Says, Half, Android!TypeOK
<1>5. "asked" # None
  BY DEF PageAssumption
<1>6. ChecksAreNamed'
  <2>1. \A j \in Places' : channel'[j].to = "check" => check' = "answered"
    BY DEF Carried
  <2>2. check' # None => status'.named /\ mounted'
    BY <1>0, <1>2, <1>4 DEF ChecksAreNamed
  <2>3. status'.named \/ status'.shows \in {"idle", "waiting"}
    BY <1>4 DEF Half
  <2> QED BY <2>1, <2>2, <2>3 DEF ChecksAreNamed
<1>7. SessionIsNamed'
  BY <1>4 DEF SessionIsNamed
<1>8. SessionIsShown'
  <2> SUFFICES ASSUME Runs', toSend' = None,
                      \A j \in Places' : ~Started(j)' /\ ~IsEvent(j)'
               PROVE  status'.shows = session'
    BY DEF SessionIsShown
  <2>1. ~NewsAfter(1)
    BY NoNewsCarried
  <2>2. Runs /\ toSend = None
    BY DEF Runs
  <2>3. SaidAt(1) = session
    BY <2>1, <2>2 DEF PageInv, NewsIsTrue
  <2> QED BY <1>3, <1>4, <2>3
<1>9. ASSUME StopAfter(1) PROVE \E c \in AndroidCalls : calls[c] \in Stops
  BY <1>9 DEF StopAfter, Stopped
<1>10. ASSUME session = "idle"
       PROVE  \/ \E c \in AndroidCalls : calls[c] \in Stops
              \/ /\ toSend = None /\ \A i \in Places : Late(i) => i = 1
                 /\ status.named => \E c \in AndroidCalls : calls[c] \in Ends \cup {"again"}
  <2>1. CASE StopAfter(1)
    BY <1>9, <2>1
  <2>2. CASE ~StopAfter(1)
    <3>1. Late(1)
      BY <2>2 DEF Late
    <3>2. /\ toSend = None /\ \A i \in Places : Late(i) => i = 1
          /\ status.named => EndsAfter(1)
      BY <1>10, <3>1 DEF PageInv, LateEvents
    <3> QED BY <3>2 DEF EndsAfter
  <2> QED BY <2>1, <2>2
<1>11. IdleIsShown'
  <2> SUFFICES ASSUME session' = "idle", mounted'
               PROVE  \/ Half' \/ check' # None
                      \/ \E c \in AndroidCalls : calls'[c] \in Ends \cup {"again"}
    BY DEF IdleIsShown, Ends, Stops
  <2>1. CASE status'.named /\ ~status.named
    BY <1>2, <1>4, <1>5, <2>1
  <2>2. CASE status'.named /\ status.named
    BY <1>10, <2>2 DEF Ends
  <2>3. CASE ~status'.named
    BY <1>4, <2>3
  <2> QED BY <1>4, <2>1, <2>2, <2>3
<1>12. LateEvents'
  <2>1. session = "idle" /\ status'.named /\ ~status.named =>
            \/ \E c \in AndroidCalls : calls[c] \in Stops
            \/ toSend = None /\ \A i \in Places : i > 1 => ~Late(i)
    BY <1>10 DEF Places
  <2> QED BY <2>1, LateCarried
<1> QED BY <1>6, <1>7, <1>8, <1>11, <1>12

(* The head is the answer to a calibration that was not cancelled.           *)
LEMMA CheckShown ==
    ASSUME PageAssumption, PageInv, Android!TypeOK', Carried(1), CallsCarried, 1 \in Places,
           UNCHANGED <<session, toSend, mounted, calls, asked>>,
           channel[1].to = "check",
           status' = [shows |-> channel[1].what, named |-> TRUE],
           check' = None, lost' = FALSE
    PROVE  ChecksAreNamed' /\ SessionIsNamed' /\ SessionIsShown' /\ IdleIsShown'
           /\ LateEvents'
<1>0. Android!TypeOK /\ ChecksAreNamed /\ "answered" # None /\ status'.named
      /\ status'.shows = channel[1].what
  BY DEF PageInv, PageAssumption
<1>1. status.named
  BY <1>0 DEF ChecksAreNamed
<1>2. ChecksAreNamed'
  BY <1>0 DEF ChecksAreNamed, Carried
<1>3. SessionIsNamed'
  BY <1>0 DEF SessionIsNamed
<1>4. SessionIsShown'
  <2> SUFFICES ASSUME Runs', toSend' = None,
                      \A j \in Places' : ~Started(j)' /\ ~IsEvent(j)'
               PROVE  status'.shows = session'
    BY DEF SessionIsShown
  <2>1. ~NewsAfter(1)
    BY NoNewsCarried
  <2>2. Runs /\ toSend = None
    BY DEF Runs
  <2>3. channel[1].what = session
    BY <2>1, <2>2 DEF PageInv, NewsIsTrue
  <2> QED BY <1>0, <2>3
<1>5. IdleIsShown'
  <2> SUFFICES ASSUME session' = "idle", channel[1].what # "idle"
               PROVE  \E c \in AndroidCalls : calls'[c] \in Ends
    BY <1>0 DEF IdleIsShown, Ends, Stops
  <2>1. StopAfter(1)
    BY DEF PageInv, EndsAreHeard, Presumes
  <2> QED BY <2>1 DEF StopAfter, Stopped, Ends
<1>6. LateEvents'
  BY <1>1, LateCarried
<1> QED BY <1>2, <1>3, <1>4, <1>5, <1>6

(* The answer to a start that has succeeded.                                 *)
LEMMA StartShown ==
    ASSUME PageAssumption, PageInv, Android!TypeOK', Carried(1), CallsCarried, 1 \in Places,
           UNCHANGED <<session, toSend, mounted, asked>>,
           NEW c \in AndroidCalls, channel[1].to = c, channel[1].what = "done",
           calls[c] \in {"start", "again"},
           calls' = [o \in AndroidCalls |-> IF o = c THEN None
                                     ELSE IF calls[o] = "storeStop" THEN "overtaken"
                                     ELSE calls[o]],
           Android!Show([shows |-> "capturing", named |-> TRUE])
    PROVE  ChecksAreNamed' /\ SessionIsNamed' /\ SessionIsShown' /\ IdleIsShown'
           /\ LateEvents'
<1>0. Android!TypeOK /\ ChecksAreNamed /\ status.named \in BOOLEAN
  BY DEF PageInv, Android!TypeOK
<1>2. /\ status'.shows = "capturing" /\ status'.named
      /\ IF status.named THEN check' = check
         ELSE check' = IF mounted THEN "asked" ELSE None
  BY <1>0 DEF Android!Show, Android!Calibrate
<1>3. Started(1) /\ ~IsEvent(1)
  BY DEF Started, IsEvent, PageAssumption
<1>4. ChecksAreNamed'
  BY <1>0, <1>2 DEF ChecksAreNamed, Carried, PageAssumption
<1>5. SessionIsNamed'
  BY <1>2 DEF SessionIsNamed
<1>6. SessionIsShown'
  <2> SUFFICES ASSUME Runs', toSend' = None,
                      \A j \in Places' : ~Started(j)' /\ ~IsEvent(j)'
               PROVE  status'.shows = session'
    BY DEF SessionIsShown
  <2>1. ~NewsAfter(1)
    BY NoNewsCarried
  <2>2. Runs /\ toSend = None
    BY DEF Runs
  <2>3. SaidAt(1) = session
    BY <1>3, <2>1, <2>2 DEF PageInv, NewsIsTrue
  <2> QED BY <1>2, <1>3, <2>3 DEF SaidAt
<1>7. ASSUME session = "idle"
      PROVE  \E o \in AndroidCalls : calls[o] \in Stops /\ calls'[o] \in Stops
  <2>1. StopAfter(1)
    BY <1>3, <1>7 DEF PageInv, EndsAreHeard, Presumes
  <2>2. PICK o \in AndroidCalls : calls[o] \in Stops
    BY <2>1 DEF StopAfter, Stopped
  <2>3. calls'[o] = calls[o]
    BY <2>2 DEF Stops
  <2> QED BY <2>2, <2>3
<1>8. IdleIsShown'
  BY <1>7 DEF IdleIsShown, Ends, Stops
<1>9. LateEvents'
  <2>1. \A o \in AndroidCalls : calls[o] \in Ends => calls'[o] \in Ends
    BY DEF Ends, Stops
  <2>2. \A o \in AndroidCalls : calls[o] = "again" /\ channel[1].to # o =>
            calls'[o] = "again" /\ (o \in asked => o \in asked')
    OBVIOUS
  <2> QED BY <1>7, <2>1, <2>2, LateCarried
<1> QED BY <1>4, <1>5, <1>6, <1>8, <1>9

(* The answer to the last call of a stop.                                    *)
LEMMA StopShown ==
    ASSUME PageAssumption, PageInv, Android!TypeOK', Carried(1), CallsCarried, 1 \in Places,
           UNCHANGED <<session, toSend, mounted>>,
           NEW c \in AndroidCalls, channel[1].to = c, calls[c] \in {"storeStop", "overtaken"},
           Android!Done(c), status' = Android!Idle, Android!Calibrate(Android!Idle), lost' = (calls[c] = "overtaken")
    PROVE  ChecksAreNamed' /\ SessionIsNamed' /\ SessionIsShown' /\ IdleIsShown'
           /\ LateEvents'
<1>0. Android!TypeOK /\ ChecksAreNamed /\ StopsAreDone
      /\ calls \in [AndroidCalls -> Android!Steps \cup {None}] /\ status.named \in BOOLEAN
  BY DEF PageInv, Android!TypeOK
<1>1. ~status'.named /\ status'.shows = "idle"
  BY DEF Android!Idle
<1>2. check' = None
  BY <1>0 DEF Android!Calibrate, Android!Idle, ChecksAreNamed
<1>3. ~Started(1)
  BY DEF Started
<1>4. ChecksAreNamed'
  BY <1>1, <1>2 DEF ChecksAreNamed, Carried, PageAssumption
<1>5. ASSUME session # "idle", \A j \in Places' : ~Started(j)' PROVE lost'
  <2>1. \A i \in Places : ~Started(i)
    BY <1>3, <1>5, NoNewsCarried
  <2>2. calls[c] # "storeStop"
    BY <1>0, <1>5, <2>1 DEF StopsAreDone
  <2> QED BY <2>2
<1>6. SessionIsNamed'
  BY <1>5 DEF SessionIsNamed
<1>7. SessionIsShown'
  BY <1>5 DEF SessionIsShown, Runs
<1>8. IdleIsShown'
  BY <1>1 DEF IdleIsShown
<1>9. LateEvents'
  <2>1. \A o \in AndroidCalls : calls[o] = "again" /\ channel[1].to # o =>
            calls'[o] = "again" /\ (o \in asked => o \in asked')
    BY <1>0 DEF Android!Done
  <2> QED BY <1>1, <2>1, LateCarried
<1> QED BY <1>4, <1>6, <1>7, <1>8, <1>9

(* An answer that leaves the status.                                         *)
LEMMA AnswerKept ==
    ASSUME PageAssumption, PageInv, Android!TypeOK', Carried(1), CallsCarried, 1 \in Places,
           UNCHANGED <<session, toSend, mounted, status, check>>, lost => lost',
           asked \subseteq asked',
           NEW c \in AndroidCalls, channel[1].to = c, ~Started(1),
           \A o \in AndroidCalls \ {c} : calls'[o] = calls[o],
           \/ calls[c] \notin Ends \cup {"again"}
           \/ calls[c] \in Stops /\ calls'[c] \in Ends \cup {"again"} /\ c \in asked'
           \/ /\ calls[c] = "again"
              /\ channel[1].what = "running" \/ ~status.named \/ lost'
    PROVE  ChecksAreNamed' /\ SessionIsNamed' /\ SessionIsShown' /\ IdleIsShown'
           /\ LateEvents'
<1>0. Android!TypeOK /\ ChecksAreNamed /\ ~IsEvent(1)
  BY DEF PageInv, IsEvent, PageAssumption
<1>1. ASSUME NEW o \in AndroidCalls, calls[o] \in Ends \cup {"again"}
      PROVE  \/ calls'[o] \in Ends \cup {"again"}
             \/ calls[c] = "again" /\ o = c
  BY <1>1 DEF Ends
<1>2. ASSUME session = "idle", channel[1].what = "running"
      PROVE  \E o \in AndroidCalls : calls[o] \in Stops /\ o # c
  <2>1. StopAfter(1)
    BY <1>2 DEF PageInv, EndsAreHeard, Presumes
  <2>2. PICK i \in Places : i > 1 /\ channel[i].to \in AndroidCalls /\ calls[channel[i].to] \in Stops
    BY <2>1 DEF StopAfter, Stopped
  <2>3. channel[i].to # c
    BY <2>2, HeadIsLast
  <2> QED BY <2>2, <2>3
<1>3. Overtaken => Overtaken'
  BY DEF Overtaken, Ends, Stops
<1>4. ChecksAreNamed' /\ SessionIsNamed' /\ SessionIsShown'
  BY <1>0, <1>3, StatusKept
<1>5. IdleIsShown'
  <2> SUFFICES ASSUME session = "idle", mounted
               PROVE  \/ status.shows = "idle" \/ Half \/ lost' \/ check # None
                      \/ \E o \in AndroidCalls : calls'[o] \in Ends \cup {"again"}
    BY DEF IdleIsShown, Half, Ends, Stops
  <2>1. \/ status.shows = "idle" \/ Half \/ lost \/ check # None
        \/ \E o \in AndroidCalls : calls[o] \in Ends \cup {"again"}
    BY DEF PageInv, IdleIsShown
  <2>2. CASE \E o \in AndroidCalls : calls[o] \in Ends \cup {"again"}
    <3>1. PICK o \in AndroidCalls : calls[o] \in Ends \cup {"again"}
      BY <2>2
    <3>2. CASE calls[c] = "again" /\ o = c
      <4>1. CASE channel[1].what = "running"
        BY <1>2, <4>1 DEF Ends
      <4>2. CASE ~status.named
        <5>1. status.shows \in {"idle", "waiting"} /\ status \in Statuses
          BY <1>0, <4>2 DEF ChecksAreNamed, Android!TypeOK, Statuses
        <5> QED BY <4>2, <5>1 DEF Half, Statuses
      <4> QED BY <3>2, <4>1, <4>2 DEF Ends, Stops
    <3> QED BY <1>1, <3>1, <3>2
  <2> QED BY <2>1, <2>2
<1>6. LateEvents'
  <2>1. \A o \in AndroidCalls : calls[o] \in Ends =>
            calls'[o] \in Ends \/ (calls'[o] = "again" /\ o \in asked')
    BY DEF Ends, Stops
  <2>2. \A o \in AndroidCalls : calls[o] = "again" /\ channel[1].to # o =>
            calls'[o] = "again" /\ (o \in asked => o \in asked')
    OBVIOUS
  <2> QED BY <2>1, <2>2, LateCarried
<1> QED BY <1>4, <1>5, <1>6

LEMMA DeliverKeeps ==
    ASSUME PageAssumption, PageInv, Android!Deliver
    PROVE  PageInv'
<1>1. /\ Android!TypeOK' /\ Carried(1) /\ Delivered /\ 1 \in Places
      /\ UNCHANGED <<session, toSend, mounted>>
  BY DeliverDoes
<1>2. CallsCarried /\ CallsWaitOnce' /\ NoNewStop(1)
  BY <1>1, DeliveredCalls
<1>3. StopsAreDone' /\ EndsAreHeard' /\ NewsIsTrue' /\ AnswersFit'
  BY <1>1, <1>2, SessionCarried, AnswersCarried
<1> SUFFICES ChecksAreNamed' /\ SessionIsNamed' /\ SessionIsShown' /\ IdleIsShown'
             /\ LateEvents'
  BY <1>1, <1>2, <1>3 DEF PageInv
<1>4. CASE IsEvent(1) /\ mounted /\ Android!Hear(channel[1].what) /\ UNCHANGED <<calls, asked>>
  BY <1>1, <1>2, <1>4, EventShown
<1>5. CASE /\ channel[1].to \in {"page", "nobody"} /\ (IsEvent(1) => ~mounted)
           /\ Android!Stay /\ UNCHANGED <<calls, asked>>
  <2>1. ~Started(1) /\ (Overtaken => Overtaken') /\ UNCHANGED <<status, check, lost>>
    BY <1>5 DEF Started, PageAssumption, Overtaken, Android!Stay
  <2>2. ChecksAreNamed' /\ SessionIsNamed' /\ SessionIsShown'
    BY <1>1, <1>2, <1>5, <2>1, StatusKept
  <2>3. IdleIsShown'
    BY <1>1, <1>5, <2>1 DEF PageInv, IdleIsShown, Half, Ends, Stops
  <2>4. LateEvents'
    BY <1>1, <1>2, <1>5, <2>1, LateCarried
  <2> QED BY <2>2, <2>3, <2>4
<1>6. CASE /\ channel[1].to = "check"
           /\ status' = [shows |-> channel[1].what, named |-> TRUE]
           /\ check' = None /\ lost' = FALSE
           /\ UNCHANGED <<calls, asked>>
  BY <1>1, <1>2, <1>6, CheckShown
<1>7. CASE channel[1].to \in AndroidCalls /\ Answered(channel[1].to, channel[1].what)
  <2>0. PICK c \in AndroidCalls : channel[1].to = c
    BY <1>7
  <2> DEFINE what == channel[1].what
  <2>1. Answered(c, what) /\ calls \in [AndroidCalls -> Android!Steps \cup {None}]
        /\ asked \in SUBSET AndroidCalls
    BY <1>7, <2>0 DEF PageInv, Android!TypeOK
  <2>2. ASSUME NEW step, Android!Go(c, step)
        PROVE  /\ calls'[c] = step /\ asked \subseteq asked' /\ c \in asked'
               /\ \A o \in AndroidCalls \ {c} : calls'[o] = calls[o]
    BY <2>1, <2>2 DEF Android!Go
  <2>3. ASSUME Android!Done(c)
        PROVE  asked \subseteq asked' /\ \A o \in AndroidCalls \ {c} : calls'[o] = calls[o]
    BY <2>1, <2>3 DEF Android!Done
  <2>4. Started(1) <=> what = "done" /\ calls[c] \in {"start", "again"}
    BY <2>0 DEF Started
  <2>5. CASE /\ Android!Stay
             /\ \/ calls[c] = "pid" /\ (Android!Done(c) \/ Android!Go(c, "start"))
                \/ calls[c] = "start" /\ what = "running" /\ Android!Go(c, "clean")
                \/ calls[c] = "start" /\ what = "error" /\ Android!Done(c)
    BY <1>1, <1>2, <2>0, <2>2, <2>3, <2>4, <2>5, AnswerKept DEF Android!Stay, Ends, Stops
  <2>6. CASE /\ Android!Stay
             /\ \/ calls[c] = "clean" /\ Android!Go(c, "cleanAll")
                \/ calls[c] = "cleanAll" /\ Android!Go(c, "again")
                \/ calls[c] = "stop" /\ Android!Go(c, "stopAll")
                \/ calls[c] = "stopAll" /\ Android!Go(c, "storeStop")
    BY <1>1, <1>2, <2>0, <2>2, <2>4, <2>6, AnswerKept DEF Android!Stay, Ends, Stops
  <2>7. CASE /\ calls[c] = "again" /\ what \in {"running", "error"}
             /\ Android!Done(c)
             /\ lost' = (lost \/ (what = "error" /\ status.named))
             /\ UNCHANGED <<status, check>>
    BY <1>1, <1>2, <2>0, <2>3, <2>4, <2>7, AnswerKept
  <2>8. CASE /\ calls[c] \in {"start", "again"} /\ what = "done"
             /\ calls' = [o \in AndroidCalls |-> IF o = c THEN None
                                          ELSE IF calls[o] = "storeStop" THEN "overtaken"
                                          ELSE calls[o]]
             /\ UNCHANGED asked
             /\ Android!Show([shows |-> "capturing", named |-> TRUE])
    BY <1>1, <1>2, <2>0, <2>8, StartShown
  <2>9. CASE /\ calls[c] \in {"storeStop", "overtaken"}
             /\ Android!Done(c)
             /\ status' = Android!Idle /\ Android!Calibrate(Android!Idle)
             /\ lost' = (calls[c] = "overtaken")
    BY <1>1, <1>2, <2>0, <2>9, StopShown
  <2> QED BY <2>1, <2>5, <2>6, <2>7, <2>8, <2>9 DEF Answered
<1> QED BY <1>1, <1>4, <1>5, <1>6, <1>7 DEF Delivered

-----------------------------------------------------------------------------
(* A message is sent.                                                        *)

LastPlace == Len(channel) + 1

Extended(m) == m \in Android!Sent /\ channel' = Append(channel, m) /\ UNCHANGED calls

LEMMA ExtendedPlaces ==
    ASSUME Android!TypeOK, NEW m, Extended(m)
    PROVE  /\ channel' \in Seq(Android!Sent) /\ Len(channel') = LastPlace
           /\ Places' = Places \cup {LastPlace} /\ Len(channel) \in Nat
           /\ \A i \in Places : i \in Nat /\ i < LastPlace /\ channel'[i] = channel[i]
           /\ LastPlace \in Nat /\ LastPlace \notin Places
           /\ channel'[LastPlace] = m
<1>1. channel \in Seq(Android!Sent) /\ m \in Android!Sent /\ channel' = Append(channel, m)
  BY DEF Android!TypeOK, Extended
<1>2. /\ channel' \in Seq(Android!Sent) /\ Len(channel') = Len(channel) + 1
      /\ \A i \in 1 .. Len(channel) : channel'[i] = channel[i]
      /\ channel'[Len(channel) + 1] = m
  BY <1>1, AppendProperties
<1>3. Len(channel) \in Nat
  BY <1>1, LenProperties
<1>4. /\ 1 .. (Len(channel) + 1) = (1 .. Len(channel)) \cup {Len(channel) + 1}
      /\ Len(channel) + 1 \in Nat /\ Len(channel) + 1 \notin 1 .. Len(channel)
      /\ \A i \in 1 .. Len(channel) : i \in Nat /\ i < Len(channel) + 1
  BY <1>3
<1> QED BY <1>2, <1>3, <1>4 DEF Places, LastPlace

LEMMA ExtendedMessage ==
    ASSUME Android!TypeOK, NEW m, Extended(m), NEW i \in Places
    PROVE  /\ channel'[i] = channel[i]
           /\ IsEvent(i)' <=> IsEvent(i)
           /\ Started(i)' <=> Started(i)
           /\ Stopped(i)' <=> Stopped(i)
           /\ Presumes(i)' <=> Presumes(i)
           /\ SaidAt(i)' = SaidAt(i)
<1>1. channel'[i] = channel[i] /\ calls' = calls
  BY ExtendedPlaces DEF Extended
<1> QED BY <1>1 DEF IsEvent, Started, Stopped, Presumes, SaidAt, Stops, Says

LEMMA ExtendedLast ==
    ASSUME Android!TypeOK, NEW m, Extended(m), NEW l, l = LastPlace
    PROVE  /\ channel'[l] = m
           /\ IsEvent(l)' <=> m.to = "page"
           /\ Started(l)' <=> /\ m.to \in AndroidCalls /\ m.what = "done"
                              /\ calls[m.to] \in {"start", "again"}
           /\ Stopped(l)' <=> m.to \in AndroidCalls /\ calls[m.to] \in Stops
           /\ Presumes(l)' <=> \/ Started(l)'
                               \/ m.to \in AndroidCalls /\ m.what = "running"
                               \/ m.to = "check" /\ m.what # "idle"
           /\ SaidAt(l)' = IF m.to = "page" THEN Says(m.what) ELSE "capturing"
<1>1. channel'[l] = m /\ calls' = calls
  BY ExtendedPlaces DEF Extended
<1> QED BY <1>1 DEF IsEvent, Started, Stopped, Presumes, SaidAt, Stops, Says

(* What comes after a place, with the new message.                           *)
LEMMA ExtendedLater ==
    ASSUME Android!TypeOK, NEW m, Extended(m), NEW l, l = LastPlace, NEW i \in Nat, i < l
    PROVE  /\ NewsAfter(i)' <=> NewsAfter(i) \/ IsEvent(l)' \/ Started(l)'
           /\ StartAfter(i)' <=> StartAfter(i) \/ Started(l)'
           /\ StopAfter(i)' <=> StopAfter(i) \/ Stopped(l)'
           /\ \A c \in AndroidCalls : AnswerAfter(i, c)' <=> AnswerAfter(i, c) \/ m.to = c
<1>1. Places' = Places \cup {l} /\ channel'[l] = m
  BY ExtendedPlaces
<1>2. ASSUME NEW j \in Places
      PROVE  /\ channel'[j] = channel[j] /\ (IsEvent(j)' <=> IsEvent(j))
             /\ (Started(j)' <=> Started(j)) /\ (Stopped(j)' <=> Stopped(j))
  BY ExtendedMessage
<1>3. NewsAfter(i)' <=> NewsAfter(i) \/ IsEvent(l)' \/ Started(l)'
  <2>1. NewsAfter(i)' <=> \E j \in Places' : j > i /\ (IsEvent(j)' \/ Started(j)')
    BY DEF NewsAfter
  <2>2. ASSUME NewsAfter(i)' PROVE NewsAfter(i) \/ IsEvent(l)' \/ Started(l)'
    <3>1. PICK j \in Places' : j > i /\ (IsEvent(j)' \/ Started(j)')
      BY <2>1, <2>2
    <3>2. CASE j \in Places
      BY <1>2, <3>1, <3>2 DEF NewsAfter
    <3>3. CASE j = l
      BY <3>1, <3>3
    <3> QED BY <1>1, <3>2, <3>3
  <2>3. ASSUME NewsAfter(i) PROVE NewsAfter(i)'
    BY <1>1, <1>2, <2>1, <2>3 DEF NewsAfter
  <2>4. ASSUME IsEvent(l)' \/ Started(l)' PROVE NewsAfter(i)'
    BY <1>1, <2>1, <2>4
  <2> QED BY <2>2, <2>3, <2>4
<1>4. StartAfter(i)' <=> StartAfter(i) \/ Started(l)'
  <2>1. StartAfter(i)' <=> \E j \in Places' : j > i /\ Started(j)'
    BY DEF StartAfter
  <2>2. ASSUME StartAfter(i)' PROVE StartAfter(i) \/ Started(l)'
    <3>1. PICK j \in Places' : j > i /\ Started(j)'
      BY <2>1, <2>2
    <3>2. CASE j \in Places
      BY <1>2, <3>1, <3>2 DEF StartAfter
    <3>3. CASE j = l
      BY <3>1, <3>3
    <3> QED BY <1>1, <3>2, <3>3
  <2>3. ASSUME StartAfter(i) PROVE StartAfter(i)'
    BY <1>1, <1>2, <2>1, <2>3 DEF StartAfter
  <2>4. ASSUME Started(l)' PROVE StartAfter(i)'
    BY <1>1, <2>1, <2>4
  <2> QED BY <2>2, <2>3, <2>4
<1>5. StopAfter(i)' <=> StopAfter(i) \/ Stopped(l)'
  <2>1. StopAfter(i)' <=> \E j \in Places' : j > i /\ Stopped(j)'
    BY DEF StopAfter
  <2>2. ASSUME StopAfter(i)' PROVE StopAfter(i) \/ Stopped(l)'
    <3>1. PICK j \in Places' : j > i /\ Stopped(j)'
      BY <2>1, <2>2
    <3>2. CASE j \in Places
      BY <1>2, <3>1, <3>2 DEF StopAfter
    <3>3. CASE j = l
      BY <3>1, <3>3
    <3> QED BY <1>1, <3>2, <3>3
  <2>3. ASSUME StopAfter(i) PROVE StopAfter(i)'
    BY <1>1, <1>2, <2>1, <2>3 DEF StopAfter
  <2>4. ASSUME Stopped(l)' PROVE StopAfter(i)'
    BY <1>1, <2>1, <2>4
  <2> QED BY <2>2, <2>3, <2>4
<1>6. ASSUME NEW c \in AndroidCalls
      PROVE  AnswerAfter(i, c)' <=> AnswerAfter(i, c) \/ m.to = c
  <2>1. AnswerAfter(i, c)' <=> \E j \in Places' : j > i /\ channel'[j].to = c
    BY DEF AnswerAfter
  <2>2. AnswerAfter(i, c)' <=> AnswerAfter(i, c) \/ m.to = c
    BY <1>1, <1>2, <2>1 DEF AnswerAfter
  <2> QED BY <2>2
<1> QED BY <1>3, <1>4, <1>5, <1>6

(* The new message, where it is news, a start or a stop, keeps what the      *)
(* others say of a session that does not change.                             *)
LEMMA SessionExtended ==
    ASSUME PageAssumption, PageInv, Android!TypeOK', NEW m, Extended(m), NEW l, l = LastPlace,
           UNCHANGED session,
           m.to \in AndroidCalls => calls[m.to] # "stopAll" \/ session = "idle",
           session = "idle" => ~Presumes(l)',
           Runs => /\ toSend' # None => Says(toSend') = session
                   /\ IsEvent(l)' \/ Started(l)' => SaidAt(l)' = session
                   /\ m.to = "check" => m.what = session
                   /\ toSend # None => toSend' # None \/ IsEvent(l)'
    PROVE  StopsAreDone' /\ EndsAreHeard' /\ NewsIsTrue'
<1>0. Android!TypeOK /\ calls' = calls
  BY DEF PageInv, Extended
<1>1. /\ Places' = Places \cup {l} /\ channel'[l] = m
      /\ \A i \in Places : i \in Nat /\ i < l
  BY <1>0, ExtendedPlaces
<1>2. ASSUME NEW i \in Places
      PROVE  /\ channel'[i] = channel[i]
             /\ IsEvent(i)' <=> IsEvent(i)
             /\ Started(i)' <=> Started(i)
             /\ Presumes(i)' <=> Presumes(i)
             /\ SaidAt(i)' = SaidAt(i)
  BY <1>0, ExtendedMessage
<1>3. ASSUME NEW i \in Places
      PROVE  /\ NewsAfter(i)' <=> NewsAfter(i) \/ IsEvent(l)' \/ Started(l)'
             /\ StartAfter(i)' <=> StartAfter(i) \/ Started(l)'
             /\ StopAfter(i)' <=> StopAfter(i) \/ Stopped(l)'
  BY <1>0, <1>1, ExtendedLater
<1>4. StopsAreDone'
  <2>1. StopsAreDone
    BY DEF PageInv
  <2>2. ASSUME NEW c \in AndroidCalls, calls'[c] = "storeStop", session' # "idle"
        PROVE  \E j \in Places' : Started(j)'
    <3>1. PICK j \in Places : Started(j)
      BY <1>0, <2>1, <2>2 DEF StopsAreDone
    <3> QED BY <1>1, <1>2, <3>1
  <2>3. ASSUME NEW j \in Places', channel'[j].to \in AndroidCalls,
               calls'[channel'[j].to] = "stopAll", session' # "idle"
        PROVE  StartAfter(j)'
    <3>1. j \in Places
      BY <1>0, <1>1, <2>3
    <3>2. StartAfter(j)
      BY <1>0, <1>2, <2>1, <2>3, <3>1 DEF StopsAreDone
    <3> QED BY <1>3, <3>1, <3>2
  <2> QED BY <2>2, <2>3 DEF StopsAreDone
<1>5. EndsAreHeard'
  <2>1. ASSUME session' = "idle", NEW i \in Places', Presumes(i)' PROVE StopAfter(i)'
    <3>1. i \in Places
      BY <1>1, <2>1
    <3>2. StopAfter(i)
      BY <1>2, <2>1, <3>1 DEF PageInv, EndsAreHeard
    <3> QED BY <1>3, <3>1, <3>2
  <2> QED BY <2>1 DEF EndsAreHeard
<1>6. NewsIsTrue'
  <2> SUFFICES ASSUME Runs
               PROVE  /\ toSend' # None => Says(toSend') = session
                      /\ toSend' = None => \A i \in Places' : (IsEvent(i) \/ Started(i))' =>
                             SaidAt(i)' = session \/ NewsAfter(i)'
                      /\ \A i \in Places' : channel'[i].to = "check" =>
                             channel'[i].what = session \/ toSend' # None \/ NewsAfter(i)'
    BY DEF NewsIsTrue, Runs, Says
  <2>0. /\ toSend = None => \A i \in Places : IsEvent(i) \/ Started(i) =>
               SaidAt(i) = session \/ NewsAfter(i)
        /\ \A i \in Places : channel[i].to = "check" =>
               channel[i].what = session \/ toSend # None \/ NewsAfter(i)
    BY DEF PageInv, NewsIsTrue
  <2>1. ASSUME toSend' = None, NEW i \in Places', (IsEvent(i) \/ Started(i))'
        PROVE  SaidAt(i)' = session \/ NewsAfter(i)'
    <3>1. CASE i = l
      BY <2>1, <3>1
    <3>2. CASE i \in Places
      BY <1>2, <1>3, <2>0, <2>1, <3>2
    <3> QED BY <1>1, <3>1, <3>2
  <2>2. ASSUME NEW i \in Places', channel'[i].to = "check"
        PROVE  channel'[i].what = session \/ toSend' # None \/ NewsAfter(i)'
    <3>1. CASE i = l
      BY <1>1, <2>2, <3>1
    <3>2. CASE i \in Places
      BY <1>2, <1>3, <2>0, <2>2, <3>2
    <3> QED BY <1>1, <3>1, <3>2
  <2> QED BY <2>1, <2>2
<1> QED BY <1>4, <1>5, <1>6

(* A message that answers a call takes it from those that wait for the       *)
(* backend.                                                                  *)
LEMMA CallsExtended ==
    ASSUME PageAssumption, PageInv, NEW m, Extended(m), asked' = asked \ {m.to},
           m.to \in AndroidCalls => m.to \in asked /\ Fits(m.to, m.what)
    PROVE  CallsWaitOnce' /\ AnswersFit'
<1>0. Android!TypeOK /\ CallsWaitOnce /\ AnswersFit /\ calls' = calls
  BY DEF PageInv, Extended
<1>1. PICK l : l = LastPlace
  OBVIOUS
<1>2. /\ Places' = Places \cup {l} /\ channel'[l] = m
      /\ \A i \in Places : channel'[i] = channel[i]
  BY <1>0, <1>1, ExtendedPlaces
<1>3. ASSUME NEW c \in AndroidCalls
      PROVE  /\ calls'[c] = None \/ c \in asked' => \A i \in Places' : channel'[i].to # c
             /\ calls'[c] = None => c \notin asked'
             /\ \A i, j \in Places' : channel'[i].to = c /\ channel'[j].to = c => i = j
  <2>1. /\ calls[c] = None \/ c \in asked => \A i \in Places : channel[i].to # c
        /\ calls[c] = None => c \notin asked
        /\ \A i, j \in Places : channel[i].to = c /\ channel[j].to = c => i = j
    BY <1>0 DEF CallsWaitOnce
  <2>2. CASE m.to = c
    BY <1>0, <1>2, <2>1, <2>2
  <2>3. CASE m.to # c
    BY <1>0, <1>2, <2>1, <2>3
  <2> QED BY <2>2, <2>3
<1>4. CallsWaitOnce'
  BY <1>3 DEF CallsWaitOnce
<1>5. ASSUME NEW i \in Places', channel'[i].to \in AndroidCalls
      PROVE  Fits(channel'[i].to, channel'[i].what)
  BY <1>0, <1>2, <1>5 DEF AnswersFit
<1>6. AnswersFit'
  <2> SUFFICES ASSUME NEW i \in Places', NEW c \in AndroidCalls, channel'[i].to = c,
                      NEW what, channel'[i].what = what
               PROVE  Fits(c, what)'
    BY DEF AnswersFit
  <2> QED BY <1>0, <1>5 DEF Fits, Ends, Stops
<1> QED BY <1>4, <1>6

LEMMA SendEventKeeps ==
    ASSUME PageAssumption, PageInv, Android!SendEvent
    PROVE  PageInv'
<1> DEFINE m == [to |-> "page", what |-> toSend]
<1>0. /\ Android!TypeOK /\ toSend \in Android!Events /\ toSend' = None /\ channel' = Append(channel, m)
      /\ UNCHANGED <<session, status, mounted, calls, asked, check, lost>>
      /\ toSend # None
  BY DEF PageInv, Android!SendEvent, Android!Send, Android!TypeOK
<1>1. m \in Android!Sent /\ m.to = "page" /\ m.what = toSend /\ "page" \notin AndroidCalls
  BY <1>0 DEF Android!Sent, PageAssumption
<1> HIDE DEF m
<1>2. Extended(m)
  BY <1>0, <1>1 DEF Extended
<1> SUFFICES ASSUME NEW k, k = LastPlace PROVE PageInv'
  OBVIOUS
<1>4. /\ channel' \in Seq(Android!Sent) /\ Places' = Places \cup {k} /\ channel'[k] = m
      /\ \A i \in Places : i \in Nat /\ i < k /\ channel'[i] = channel[i]
      /\ Len(channel) \in Nat /\ k = Len(channel) + 1
  BY <1>0, <1>2, ExtendedPlaces DEF LastPlace
<1>5. Android!TypeOK'
  BY <1>0, <1>4 DEF Android!TypeOK
<1>6. IsEvent(k)' /\ SaidAt(k)' = Says(toSend) /\ ~Presumes(k)' /\ ~Started(k)' /\ ~Stopped(k)'
  BY <1>0, <1>1, <1>2, ExtendedLast
<1>7. StopsAreDone' /\ EndsAreHeard' /\ NewsIsTrue'
  <2>1. Runs => Says(toSend) = session
    BY <1>0 DEF PageInv, NewsIsTrue
  <2> QED BY <1>0, <1>1, <1>2, <1>5, <1>6, <2>1, SessionExtended
<1>8. CallsWaitOnce' /\ AnswersFit' /\ ChecksAreNamed'
  <2>1. asked' = asked \ {m.to}
    BY <1>0, <1>1 DEF Android!TypeOK
  <2>2. CallsWaitOnce' /\ AnswersFit'
    BY <1>1, <1>2, <2>1, CallsExtended
  <2>3. ChecksAreNamed'
    BY <1>0, <1>1, <1>4 DEF PageInv, ChecksAreNamed
  <2> QED BY <2>2, <2>3
<1>9. SessionIsNamed'
  <2>1. (\A i \in Places' : ~Started(i)') => \A i \in Places : ~Started(i)
    BY <1>0, <1>2, <1>4, ExtendedMessage
  <2> QED BY <1>0, <2>1 DEF PageInv, SessionIsNamed, Overtaken, Half
<1>10. SessionIsShown'
  BY <1>4, <1>6 DEF SessionIsShown
<1>11. IdleIsShown'
  BY <1>0 DEF PageInv, IdleIsShown, Half, Ends, Stops
<1>12. LateEvents'
  <2> SUFFICES ASSUME session = "idle"
               PROVE  \A i \in Places' : Late(i)' =>
                          /\ \A j \in Places' : Late(j)' => i = j
                          /\ status.named => EndsAfter(i)'
    BY <1>0 DEF LateEvents
  <2>1. /\ \A i \in Places : ~Late(i)
        /\ status.named => EndsAfter(Len(channel))
    BY <1>0 DEF PageInv, LateEvents
  <2>2. ASSUME NEW i \in Places, Late(i)' PROVE FALSE
    <3>1. IsEvent(i)' <=> IsEvent(i)
      BY <1>0, <1>2, ExtendedMessage
    <3>2. StopAfter(i)' <=> StopAfter(i) \/ Stopped(k)'
      BY <1>0, <1>2, <1>4, ExtendedLater
    <3> QED BY <1>6, <2>1, <2>2, <3>1, <3>2 DEF Late
  <2>3. ASSUME status.named PROVE EndsAfter(k)'
    <3>1. PICK c \in AndroidCalls : calls[c] \in Ends \/
              (calls[c] = "again" /\ (c \in asked \/ AnswerAfter(Len(channel), c)))
      BY <2>1, <2>3 DEF EndsAfter
    <3>2. ~AnswerAfter(Len(channel), c)
      BY <1>4 DEF AnswerAfter, Places
    <3> QED BY <1>0, <3>1, <3>2 DEF EndsAfter, Ends, Stops
  <2> QED BY <1>4, <2>2, <2>3
<1> QED BY <1>5, <1>7, <1>8, <1>9, <1>10, <1>11, <1>12 DEF PageInv

LEMMA ServeCheckKeeps ==
    ASSUME PageAssumption, PageInv, Android!ServeCheck
    PROVE  PageInv'
<1> DEFINE w == IF session = "switching" THEN "capturing" ELSE session
           m == [to |-> "check", what |-> w]
<1>0. /\ Android!TypeOK /\ check = "asked" /\ check' = "answered" /\ channel' = Append(channel, m)
      /\ UNCHANGED <<session, toSend, status, mounted, calls, asked, lost>>
      /\ "asked" # None /\ "answered" # None
  BY DEF PageInv, Android!ServeCheck, Android!Send, PageAssumption
<1>1. m.to = "check" /\ m.what = w /\ "check" \notin AndroidCalls
  BY DEF PageAssumption
<1>2. w \in {"idle", "capturing", "waiting"} /\ (w = "idle" <=> session = "idle")
      /\ (Runs => w = session)
  BY <1>0 DEF Android!TypeOK, Runs
<1>3. m \in Android!Sent
  BY <1>2 DEF Android!Sent
<1> HIDE DEF m, w
<1>4. Extended(m)
  BY <1>0, <1>3 DEF Extended
<1> SUFFICES ASSUME NEW k, k = LastPlace PROVE PageInv'
  OBVIOUS
<1>5. /\ channel' \in Seq(Android!Sent) /\ Places' = Places \cup {k} /\ channel'[k] = m
      /\ \A i \in Places : i \in Nat /\ i < k /\ channel'[i] = channel[i]
      /\ Len(channel) \in Nat /\ k = Len(channel) + 1 /\ Len(channel') = k
  BY <1>0, <1>4, ExtendedPlaces DEF LastPlace
<1>6. Android!TypeOK'
  BY <1>0, <1>5 DEF Android!TypeOK
<1>7. ~IsEvent(k)' /\ (Presumes(k)' <=> w # "idle") /\ ~Started(k)' /\ ~Stopped(k)'
  BY <1>0, <1>1, <1>4, ExtendedLast
<1>8. StopsAreDone' /\ EndsAreHeard' /\ NewsIsTrue'
  <2>1. Runs /\ toSend # None => Says(toSend) = session
    BY DEF PageInv, NewsIsTrue
  <2> QED BY <1>0, <1>1, <1>2, <1>4, <1>6, <1>7, <2>1, SessionExtended
<1>9. CallsWaitOnce' /\ AnswersFit' /\ ChecksAreNamed'
  <2>1. asked' = asked \ {m.to}
    BY <1>0, <1>1 DEF Android!TypeOK
  <2>2. CallsWaitOnce' /\ AnswersFit'
    BY <1>1, <1>4, <2>1, CallsExtended
  <2>3. ChecksAreNamed'
    BY <1>0, <1>1, <1>5 DEF PageInv, ChecksAreNamed
  <2> QED BY <2>2, <2>3
<1>10. SessionIsNamed'
  <2>1. (\A i \in Places' : ~Started(i)') => \A i \in Places : ~Started(i)
    BY <1>0, <1>4, <1>5, ExtendedMessage
  <2> QED BY <1>0, <2>1 DEF PageInv, SessionIsNamed, Overtaken, Half
<1>11. SessionIsShown' /\ IdleIsShown'
  BY <1>0 DEF SessionIsShown, IdleIsShown
<1>12. LateEvents'
  <2> SUFFICES ASSUME session = "idle"
               PROVE  /\ \A i \in Places' : Late(i)' =>
                             /\ toSend = None /\ \A j \in Places' : Late(j)' => i = j
                             /\ status.named => EndsAfter(i)'
                      /\ toSend # None /\ status.named => EndsAfter(Len(channel))'
    BY <1>0 DEF LateEvents
  <2>1. /\ \A i \in Places : Late(i) =>
               /\ toSend = None /\ \A j \in Places : Late(j) => i = j
               /\ status.named => EndsAfter(i)
        /\ toSend # None /\ status.named => EndsAfter(Len(channel))
    BY DEF PageInv, LateEvents
  <2>2. ASSUME NEW i \in Places', Late(i)' PROVE i \in Places /\ Late(i)
    <3>1. i \in Places
      BY <1>5, <1>7, <2>2 DEF Late
    <3>2. (IsEvent(i)' <=> IsEvent(i)) /\ (StopAfter(i)' <=> StopAfter(i) \/ Stopped(k)')
      BY <1>0, <1>4, <1>5, <3>1, ExtendedMessage, ExtendedLater
    <3> QED BY <1>7, <2>2, <3>1, <3>2 DEF Late
  <2>3. ASSUME NEW i \in Places, EndsAfter(i) PROVE EndsAfter(i)'
    <3>1. \A c \in AndroidCalls : AnswerAfter(i, c) => AnswerAfter(i, c)'
      BY <1>0, <1>4, <1>5, ExtendedLater
    <3> QED BY <1>0, <2>3, <3>1 DEF EndsAfter, Ends, Stops
  <2>4. ASSUME toSend # None, status.named PROVE EndsAfter(Len(channel))'
    <3>1. PICK c \in AndroidCalls : calls[c] \in Ends \/
              (calls[c] = "again" /\ (c \in asked \/ AnswerAfter(Len(channel), c)))
      BY <2>1, <2>4 DEF EndsAfter
    <3>2. ~AnswerAfter(Len(channel), c)
      BY <1>5 DEF AnswerAfter, Places
    <3> QED BY <1>0, <3>1, <3>2 DEF EndsAfter, Ends, Stops
  <2> QED BY <2>1, <2>2, <2>3, <2>4
<1> QED BY <1>6, <1>8, <1>9, <1>10, <1>11, <1>12 DEF PageInv

(* What the backend does with a request: nothing that the page has to hear,  *)
(* a session that starts, or the end of one.                                 *)
Unmoved(c, reply) ==
    /\ session' = session
    /\ reply = "done" => calls[c] \in {"storeStop", "overtaken"}
    /\ reply = "running" => session # "idle"
    /\ calls[c] \in {"start", "again"} => toSend = None
    /\ calls[c] \notin Stops

Starting(c, reply) ==
    /\ session = "idle" /\ session' = "capturing" /\ toSend = None
    /\ reply = "done" /\ calls[c] \in {"start", "again"}

Stopping(c, reply) == session' = "idle" /\ reply = "done" /\ calls[c] \in Stops

LEMMA ServeDoes ==
    ASSUME PageAssumption, PageInv, NEW c \in AndroidCalls, Android!Serve(c)
    PROVE  /\ c \in asked /\ asked' = asked \ {c}
           /\ UNCHANGED <<toSend, status, mounted, calls, check, lost>>
           /\ \E reply \in Android!Answers :
                  /\ channel' = Append(channel, [to |-> c, what |-> reply])
                  /\ Fits(c, reply)
                  /\ \/ Unmoved(c, reply) \/ Starting(c, reply) \/ Stopping(c, reply)
<1>1. /\ c \in asked /\ asked' = asked \ {c}
      /\ UNCHANGED <<toSend, status, mounted, calls, check, lost>>
  BY DEF Android!Serve
<1>2. calls[c] \in Android!Steps
  BY <1>1 DEF PageInv, CallsWaitOnce, Android!TypeOK
<1>3. PICK reply \in Android!Answers :
        /\ Android!Send([to |-> c, what |-> reply])
        /\ CASE calls[c] = "pid" -> reply \in {"found", "gone"} /\ UNCHANGED session
             [] calls[c] \in {"start", "again"} ->
                 /\ toSend = None
                 /\ \/ session # "idle" /\ reply = "running" /\ UNCHANGED session
                    \/ session = "idle" /\ reply = "done" /\ session' = "capturing"
                    \/ session = "idle" /\ reply = "error" /\ UNCHANGED session
             [] calls[c] \in {"storeStop", "overtaken"} ->
                 reply = "done" /\ UNCHANGED session
             [] OTHER -> reply = "done" /\ session' = "idle"
  BY DEF Android!Serve
<1>4. CASE calls[c] = "pid"
  <2>1. reply \in {"found", "gone"} /\ UNCHANGED session
    BY <1>3, <1>4
  <2> QED BY <1>1, <1>3, <1>4, <2>1 DEF Android!Send, Fits, Unmoved, Ends, Stops
<1>5. CASE calls[c] \in {"start", "again"}
  <2>1. /\ toSend = None
        /\ \/ session # "idle" /\ reply = "running" /\ UNCHANGED session
           \/ session = "idle" /\ reply = "done" /\ session' = "capturing"
           \/ session = "idle" /\ reply = "error" /\ UNCHANGED session
    BY <1>3, <1>5
  <2> QED BY <1>1, <1>3, <1>5, <2>1 DEF Android!Send, Fits, Unmoved, Starting, Ends, Stops
<1>6. CASE calls[c] \in {"storeStop", "overtaken"}
  <2>1. reply = "done" /\ UNCHANGED session
    BY <1>3, <1>6
  <2> QED BY <1>1, <1>3, <1>6, <2>1 DEF Android!Send, Fits, Unmoved, Ends, Stops
<1>7. CASE calls[c] \in Stops
  <2>1. reply = "done" /\ session' = "idle"
    BY <1>3, <1>7 DEF Stops
  <2> QED BY <1>1, <1>3, <1>7, <2>1 DEF Android!Send, Fits, Stopping, Ends, Stops
<1> QED BY <1>2, <1>4, <1>5, <1>6, <1>7 DEF Android!Steps, Stops

LEMMA ServeKeeps ==
    ASSUME PageAssumption, PageInv, NEW c \in AndroidCalls, Android!Serve(c)
    PROVE  PageInv'
<1>1. /\ c \in asked /\ asked' = asked \ {c}
      /\ UNCHANGED <<toSend, status, mounted, calls, check, lost>>
  BY ServeDoes
<1>2. PICK reply \in Android!Answers :
          /\ channel' = Append(channel, [to |-> c, what |-> reply])
          /\ Fits(c, reply)
          /\ \/ Unmoved(c, reply) \/ Starting(c, reply) \/ Stopping(c, reply)
  BY ServeDoes
<1> DEFINE m == [to |-> c, what |-> reply]
<1>3. /\ m \in Android!Sent /\ m.to = c /\ m.what = reply
      /\ c # "page" /\ c # "check" /\ Android!TypeOK
  BY DEF Android!Sent, PageAssumption, PageInv
<1> HIDE DEF m
<1>4. Extended(m)
  BY <1>1, <1>2, <1>3 DEF Extended, m
<1> SUFFICES ASSUME NEW k, k = LastPlace PROVE PageInv'
  OBVIOUS
<1>5. /\ channel' \in Seq(Android!Sent) /\ Places' = Places \cup {k} /\ channel'[k] = m
      /\ \A i \in Places : i \in Nat /\ i < k /\ channel'[i] = channel[i]
      /\ Len(channel) \in Nat /\ k = Len(channel) + 1 /\ Len(channel') = k
  BY <1>3, <1>4, ExtendedPlaces DEF LastPlace
<1>6. /\ ~IsEvent(k)' /\ SaidAt(k)' = "capturing"
      /\ Started(k)' <=> reply = "done" /\ calls[c] \in {"start", "again"}
      /\ Stopped(k)' <=> calls[c] \in Stops
      /\ Presumes(k)' <=> Started(k)' \/ reply = "running"
  BY <1>3, <1>4, ExtendedLast
<1>7. ASSUME NEW i \in Places
      PROVE  /\ IsEvent(i)' <=> IsEvent(i)
             /\ Started(i)' <=> Started(i)
             /\ NewsAfter(i)' <=> NewsAfter(i) \/ Started(k)'
             /\ StartAfter(i)' <=> StartAfter(i) \/ Started(k)'
             /\ StopAfter(i)' <=> StopAfter(i) \/ Stopped(k)'
             /\ \A o \in AndroidCalls : AnswerAfter(i, o)' <=> AnswerAfter(i, o) \/ c = o
  BY <1>3, <1>4, <1>5, <1>6, ExtendedMessage, ExtendedLater
<1>8. CallsWaitOnce' /\ AnswersFit'
  BY <1>1, <1>2, <1>3, <1>4, CallsExtended
<1>9. ChecksAreNamed'
  BY <1>1, <1>3, <1>5 DEF PageInv, ChecksAreNamed
<1>10. ASSUME toSend # None, status.named, session = "idle"
       PROVE  \E o \in AndroidCalls : calls[o] \in Ends \/ (calls[o] = "again" /\ o \in asked)
  <2>1. EndsAfter(Len(channel))
    BY <1>10 DEF PageInv, LateEvents
  <2>2. PICK o \in AndroidCalls : calls[o] \in Ends \/
            (calls[o] = "again" /\ (o \in asked \/ AnswerAfter(Len(channel), o)))
    BY <2>1 DEF EndsAfter
  <2>3. ~AnswerAfter(Len(channel), o)
    BY <1>5 DEF AnswerAfter, Places
  <2> QED BY <2>2, <2>3
<1> SUFFICES /\ Android!TypeOK' /\ StopsAreDone' /\ EndsAreHeard' /\ NewsIsTrue'
             /\ SessionIsNamed' /\ SessionIsShown' /\ IdleIsShown' /\ LateEvents'
  BY <1>8, <1>9 DEF PageInv
<1>11. CASE Unmoved(c, reply)
  <2>0. /\ ~Started(k)' /\ ~Stopped(k)' /\ session' = session
        /\ reply = "running" => session # "idle"
        /\ calls[c] \in {"start", "again"} => toSend = None
        /\ calls[c] # "stopAll"
    BY <1>6, <1>11 DEF Unmoved, Stops
  <2>1. Android!TypeOK'
    BY <1>1, <1>3, <1>5, <2>0 DEF Android!TypeOK
  <2>2. StopsAreDone' /\ EndsAreHeard' /\ NewsIsTrue'
    <3>1. Runs /\ toSend # None => Says(toSend) = session
      BY DEF PageInv, NewsIsTrue
    <3> QED BY <1>1, <1>3, <1>4, <1>6, <2>0, <2>1, <3>1, SessionExtended
  <2>3. SessionIsNamed'
    <3>1. (\A i \in Places' : ~Started(i)') => \A i \in Places : ~Started(i)
      BY <1>5, <1>7
    <3> QED BY <1>1, <2>0, <3>1 DEF PageInv, SessionIsNamed, Overtaken, Half
  <2>4. SessionIsShown'
    <3> SUFFICES ASSUME Runs', mounted', toSend' = None,
                        \A j \in Places' : ~Started(j)' /\ ~IsEvent(j)'
                 PROVE  (status.shows = session \/ check # None \/ lost \/ Overtaken \/ Half)'
      BY DEF SessionIsShown
    <3>1. \A i \in Places : ~Started(i) /\ ~IsEvent(i)
      BY <1>5, <1>7
    <3>2. status.shows = session \/ check # None \/ lost \/ Overtaken \/ Half
      BY <1>1, <2>0, <3>1 DEF PageInv, SessionIsShown, Runs
    <3> QED BY <1>1, <2>0, <3>2 DEF Half, Overtaken
  <2>5. IdleIsShown'
    BY <1>1, <2>0 DEF PageInv, IdleIsShown, Half, Ends, Stops
  <2>6. LateEvents'
    <3> SUFFICES ASSUME session = "idle"
                 PROVE  /\ \A i \in Places' : Late(i)' =>
                               /\ toSend = None /\ \A j \in Places' : Late(j)' => i = j
                               /\ status.named => EndsAfter(i)'
                        /\ toSend # None /\ status.named => EndsAfter(Len(channel))'
      BY <1>1, <2>0 DEF LateEvents
    <3>1. \A i \in Places : Late(i) =>
              /\ toSend = None /\ \A j \in Places : Late(j) => i = j
              /\ status.named => EndsAfter(i)
      BY DEF PageInv, LateEvents
    <3>2. ASSUME NEW i \in Places', Late(i)' PROVE i \in Places /\ Late(i)
      BY <1>5, <1>6, <1>7, <2>0, <3>2 DEF Late
    <3>3. ASSUME NEW i \in Places, EndsAfter(i) PROVE EndsAfter(i)'
      BY <1>1, <1>7, <3>3 DEF EndsAfter, Ends, Stops
    <3>4. ASSUME toSend # None, status.named PROVE EndsAfter(Len(channel))'
      BY <1>1, <1>10, <2>0, <3>4 DEF EndsAfter, Ends, Stops
    <3> QED BY <3>1, <3>2, <3>3, <3>4
  <2> QED BY <2>1, <2>2, <2>3, <2>4, <2>5, <2>6
<1>12. CASE Starting(c, reply)
  <2>0. /\ Started(k)' /\ session = "idle" /\ session' = "capturing" /\ toSend = None
        /\ toSend' = None /\ k \in Places' /\ calls[c] # "stopAll"
    BY <1>1, <1>5, <1>6, <1>12 DEF Starting
  <2>1. Android!TypeOK'
    BY <1>1, <1>3, <1>5, <2>0 DEF Android!TypeOK
  <2>2. StopsAreDone'
    <3>1. ASSUME NEW j \in Places', channel'[j].to \in AndroidCalls,
                 calls'[channel'[j].to] = "stopAll"
          PROVE  StartAfter(j)'
      <4>1. j \in Places
        BY <1>1, <1>3, <1>5, <2>0, <3>1
      <4> QED BY <1>7, <2>0, <4>1
    <3> QED BY <2>0, <3>1 DEF StopsAreDone
  <2>3. EndsAreHeard' /\ IdleIsShown' /\ LateEvents'
    BY <2>0 DEF EndsAreHeard, IdleIsShown, LateEvents
  <2>4. NewsIsTrue'
    <3>1. ASSUME NEW i \in Places', (IsEvent(i) \/ Started(i))'
          PROVE  SaidAt(i)' = session' \/ NewsAfter(i)'
      BY <1>5, <1>6, <1>7, <2>0, <3>1
    <3>2. ASSUME NEW i \in Places', channel'[i].to = "check"
          PROVE  NewsAfter(i)'
      BY <1>3, <1>5, <1>7, <2>0, <3>2
    <3> QED BY <2>0, <3>1, <3>2 DEF NewsIsTrue
  <2>5. SessionIsNamed' /\ SessionIsShown'
    BY <2>0 DEF SessionIsNamed, SessionIsShown
  <2> QED BY <2>1, <2>2, <2>3, <2>4, <2>5
<1>13. CASE Stopping(c, reply)
  <2>0. /\ Stopped(k)' /\ session' = "idle" /\ reply = "done" /\ calls[c] \in Stops
        /\ ~Presumes(k)'
    BY <1>6, <1>13 DEF Stopping, Stops
  <2>1. Android!TypeOK'
    BY <1>1, <1>3, <1>5, <2>0 DEF Android!TypeOK
  <2>2. StopsAreDone' /\ NewsIsTrue' /\ SessionIsNamed' /\ SessionIsShown'
    BY <2>0 DEF StopsAreDone, NewsIsTrue, SessionIsNamed, SessionIsShown, Runs
  <2>3. EndsAreHeard'
    BY <1>5, <1>7, <2>0 DEF EndsAreHeard
  <2>4. IdleIsShown'
    BY <1>1, <2>0 DEF IdleIsShown, Ends, Stops
  <2>5. LateEvents'
    <3>1. \A i \in Places' : ~Late(i)'
      BY <1>5, <1>6, <1>7, <2>0 DEF Late
    <3>2. EndsAfter(Len(channel))'
      BY <1>1, <2>0 DEF EndsAfter, Ends, Stops
    <3> QED BY <3>1, <3>2 DEF LateEvents
  <2> QED BY <2>1, <2>2, <2>3, <2>4, <2>5
<1> QED BY <1>2, <1>11, <1>12, <1>13

-----------------------------------------------------------------------------
(* The monitor, and the user.                                                *)

LEMMA MonitorKeeps ==
    ASSUME PageAssumption, PageInv, Android!Monitor
    PROVE  PageInv'
<1>0. /\ Android!TypeOK /\ session # "idle" /\ session' # "idle"
      /\ UNCHANGED <<channel, status, mounted, calls, asked, check, lost>>
      /\ \/ session' = "waiting" /\ toSend' = "exited"
         \/ session' = "capturing" /\ toSend' = "restarted"
         \/ session' = "waiting" /\ toSend' = "failed"
         \/ session' = "switching" /\ toSend' = "failed"
  BY DEF PageInv, Android!Monitor
<1>1. toSend' \in Android!Events /\ toSend' # None
  BY <1>0 DEF Android!Events, PageAssumption
<1>2. Android!TypeOK'
  BY <1>0, <1>1 DEF Android!TypeOK
<1>3. Places' = Places /\ \A i \in Places : /\ IsEvent(i)' <=> IsEvent(i)
                                            /\ Started(i)' <=> Started(i)
  BY <1>0 DEF Places, IsEvent, Started
<1>4. CallsWaitOnce' /\ AnswersFit' /\ ChecksAreNamed'
  BY <1>0, <1>3 DEF PageInv, CallsWaitOnce, AnswersFit, Fits, ChecksAreNamed, Ends, Stops
<1>5. StopsAreDone'
  <2>1. ASSUME NEW i \in Places, StartAfter(i) PROVE StartAfter(i)'
    BY <1>3, <2>1 DEF StartAfter
  <2> QED BY <1>0, <1>3, <2>1 DEF PageInv, StopsAreDone
<1>6. EndsAreHeard' /\ SessionIsShown' /\ IdleIsShown' /\ LateEvents'
  BY <1>0, <1>1 DEF EndsAreHeard, SessionIsShown, IdleIsShown, LateEvents
<1>7. NewsIsTrue'
  <2>1. Runs' => Says(toSend') = session'
    BY <1>0 DEF Runs, Says
  <2> QED BY <1>1, <2>1 DEF NewsIsTrue, Says
<1>8. SessionIsNamed'
  BY <1>0, <1>3 DEF PageInv, SessionIsNamed, Overtaken, Half
<1> QED BY <1>2, <1>4, <1>5, <1>6, <1>7, <1>8 DEF PageInv

LEMMA PressKeeps ==
    ASSUME PageAssumption, PageInv, NEW c \in AndroidCalls, Android!Press(c)
    PROVE  PageInv'
<1>0. /\ Android!TypeOK /\ calls \in [AndroidCalls -> Android!Steps \cup {None}] /\ asked \in SUBSET AndroidCalls
      /\ calls[c] = None /\ None \notin Android!Steps /\ Len(channel) \in Nat
      /\ UNCHANGED <<session, toSend, channel, status, mounted, check, lost>>
  BY PlacesOfChannel DEF PageInv, Android!TypeOK, Android!Press, PageAssumption
<1>1. PICK step \in {"pid", "stop", "stopAll"} : Android!Go(c, step)
  BY DEF Android!Press
<1>2. /\ calls' \in [AndroidCalls -> Android!Steps \cup {None}] /\ calls'[c] = step
      /\ \A o \in AndroidCalls \ {c} : calls'[o] = calls[o]
      /\ asked' = asked \cup {c} /\ asked' \in SUBSET AndroidCalls
  BY <1>0, <1>1 DEF Android!Go, Android!Steps
<1>3. Android!TypeOK'
  BY <1>0, <1>2 DEF Android!TypeOK
<1>4. Carried(0) /\ Places' = Places
  <2>1. Places' = Places
    BY <1>0 DEF Places
  <2>2. \A j \in Places : j + 0 = j
    BY DEF Places
  <2>3. \A j \in Places : channel[j].to = "check" => check = "answered"
    BY DEF PageInv, ChecksAreNamed
  <2>4. Len(channel) + 0 = Len(channel)
    BY <1>0
  <2> QED BY <1>0, <2>1, <2>2, <2>3, <2>4 DEF Carried
<1>5. (\A i \in Places : channel[i].to # c) /\ c \notin asked
  BY <1>0 DEF PageInv, CallsWaitOnce
<1>6. CallsCarried /\ NoNewStop(0)
  BY <1>0, <1>2, <1>4, <1>5 DEF CallsCarried, NoNewStop
<1>7. CallsWaitOnce'
  <2>1. ASSUME NEW o \in AndroidCalls
        PROVE  /\ calls'[o] = None \/ o \in asked' => \A i \in Places : channel[i].to # o
               /\ calls'[o] = None => o \notin asked'
               /\ \A i, j \in Places : channel[i].to = o /\ channel[j].to = o => i = j
    <3>1. CASE o = c
      BY <1>0, <1>1, <1>2, <1>5, <3>1 DEF Android!Steps
    <3>2. CASE o # c
      BY <1>2, <3>2 DEF PageInv, CallsWaitOnce
    <3> QED BY <3>1, <3>2
  <2> QED BY <1>0, <1>4, <2>1 DEF CallsWaitOnce
<1>8. \A o \in AndroidCalls : calls[o] \in Android!Steps => calls'[o] = calls[o] /\ (o \in asked => o \in asked')
  BY <1>0, <1>2
<1>9. Ends \cup {"again"} \subseteq Android!Steps /\ "overtaken" \in Android!Steps
  BY DEF Ends, Stops, Android!Steps
<1>10. StopsAreDone' /\ EndsAreHeard' /\ NewsIsTrue' /\ AnswersFit'
  BY <1>0, <1>3, <1>4, <1>6, SessionCarried, AnswersCarried
<1>11. ChecksAreNamed' /\ SessionIsNamed' /\ SessionIsShown'
  <2>1. Overtaken => Overtaken'
    BY <1>8, <1>9 DEF Overtaken
  <2> QED BY <1>0, <1>3, <1>4, <1>6, <2>1, StatusKept
<1>12. IdleIsShown'
  <2>1. \A o \in AndroidCalls : calls[o] \in Ends \cup {"again"} => calls'[o] \in Ends \cup {"again"}
    BY <1>8, <1>9
  <2> QED BY <1>0, <2>1 DEF PageInv, IdleIsShown, Half, Ends, Stops
<1>13. LateEvents'
  BY <1>0, <1>3, <1>4, <1>6, <1>8, <1>9, LateCarried
<1> QED BY <1>3, <1>7, <1>10, <1>11, <1>12, <1>13 DEF PageInv

LEMMA LeaveKeeps ==
    ASSUME PageAssumption, PageInv, Android!Leave
    PROVE  PageInv'
<1>0. /\ Android!TypeOK /\ mounted' = FALSE /\ check' = None /\ channel' = Android!Forget(channel)
      /\ UNCHANGED <<session, toSend, status, calls, asked, lost>>
      /\ channel \in Seq(Android!Sent)
  BY DEF PageInv, Android!TypeOK, Android!Leave
<1>1. /\ channel' \in Seq(Android!Sent) /\ Len(channel') = Len(channel) /\ Len(channel) \in Nat
      /\ \A i \in 1 .. Len(channel) :
             /\ channel'[i].what = channel[i].what
             /\ channel'[i].to = IF channel[i].to = "check" THEN "nobody" ELSE channel[i].to
  BY <1>0, ForgetKeeps, PlacesOfChannel
<1>2. Android!TypeOK'
  BY <1>0, <1>1 DEF Android!TypeOK
<1>3. Carried(0) /\ Places' = Places
  <2>1. Places' = Places /\ Places = 1 .. Len(channel)
    BY <1>1 DEF Places
  <2>2. \A j \in Places : j + 0 = j
    BY DEF Places
  <2>3. Len(channel') + 0 = Len(channel)
    BY <1>1
  <2> QED BY <1>1, <2>1, <2>2, <2>3 DEF Carried
<1>4. CallsCarried /\ NoNewStop(0)
  BY <1>0 DEF CallsCarried, NoNewStop
<1>5. CallsWaitOnce'
  <2>1. \A o \in AndroidCalls : o # "nobody"
    BY DEF PageAssumption
  <2>2. \A o \in AndroidCalls, i \in Places : channel'[i].to = o => channel[i].to = o
    BY <1>1, <2>1 DEF Places
  <2> QED BY <1>0, <1>3, <2>2 DEF PageInv, CallsWaitOnce
<1>6. StopsAreDone' /\ EndsAreHeard' /\ NewsIsTrue' /\ AnswersFit'
  BY <1>0, <1>2, <1>3, <1>4, SessionCarried, AnswersCarried
<1>7. ChecksAreNamed'
  BY <1>0, <1>3 DEF PageInv, ChecksAreNamed, Carried
<1>8. SessionIsNamed'
  <2>1. (\A j \in Places' : ~Started(j)') => \A i \in Places : ~Started(i)
    BY <1>2, <1>3, <1>4, NoNewsCarried
  <2> QED BY <1>0, <2>1 DEF PageInv, SessionIsNamed, Overtaken, Half
<1>9. SessionIsShown' /\ IdleIsShown'
  BY <1>0 DEF SessionIsShown, IdleIsShown
<1>10. LateEvents'
  BY <1>0, <1>2, <1>3, <1>4, LateCarried
<1> QED BY <1>2, <1>5, <1>6, <1>7, <1>8, <1>9, <1>10 DEF PageInv

LEMMA ReturnKeeps ==
    ASSUME PageAssumption, PageInv, Android!Return
    PROVE  PageInv'
<1>0. /\ Android!TypeOK /\ ~mounted /\ mounted' = TRUE
      /\ check' = IF status.named THEN "asked" ELSE None
      /\ UNCHANGED <<session, toSend, channel, status, calls, asked, lost>>
      /\ Len(channel) \in Nat /\ "asked" # None /\ "answered" # None
      /\ status \in Statuses
  BY PlacesOfChannel DEF PageInv, Android!TypeOK, Android!Return, PageAssumption, Statuses
<1>1. Android!TypeOK'
  BY <1>0 DEF Android!TypeOK
<1>2. /\ \A i \in Places : channel[i].to # "check"
      /\ status.named \/ status.shows \in {"idle", "waiting"}
  BY <1>0 DEF PageInv, ChecksAreNamed
<1>3. Carried(0) /\ Places' = Places
  <2>1. Places' = Places
    BY <1>0 DEF Places
  <2>2. \A j \in Places : j + 0 = j
    BY DEF Places
  <2>3. Len(channel) + 0 = Len(channel)
    BY <1>0
  <2> QED BY <1>0, <1>2, <2>1, <2>2, <2>3 DEF Carried
<1>4. CallsCarried /\ NoNewStop(0)
  BY <1>0 DEF CallsCarried, NoNewStop
<1>5. CallsWaitOnce'
  BY <1>0, <1>3 DEF PageInv, CallsWaitOnce
<1>6. StopsAreDone' /\ EndsAreHeard' /\ NewsIsTrue' /\ AnswersFit'
  BY <1>0, <1>1, <1>3, <1>4, SessionCarried, AnswersCarried
<1>7. ChecksAreNamed'
  BY <1>0, <1>2, <1>3 DEF ChecksAreNamed
<1>8. SessionIsNamed'
  <2>1. (\A j \in Places' : ~Started(j)') => \A i \in Places : ~Started(i)
    BY <1>1, <1>3, <1>4, NoNewsCarried
  <2> QED BY <1>0, <2>1 DEF PageInv, SessionIsNamed, Overtaken, Half
<1>9. SessionIsShown'
  <2>1. CASE status.named
    BY <1>0, <2>1 DEF SessionIsShown
  <2>2. CASE ~status.named
    BY <1>0, <1>8, <2>2 DEF SessionIsShown, SessionIsNamed, Runs
  <2> QED BY <2>1, <2>2
<1>10. IdleIsShown'
  <2>1. status.named => check' # None
    BY <1>0
  <2>2. ~status.named => status.shows = "idle" \/ Half
    BY <1>0, <1>2 DEF Half, Statuses
  <2> QED BY <1>0, <2>1, <2>2 DEF IdleIsShown, Half
<1>11. LateEvents'
  BY <1>0, <1>1, <1>3, <1>4, LateCarried
<1> QED BY <1>1, <1>5, <1>6, <1>7, <1>8, <1>9, <1>10, <1>11 DEF PageInv

LEMMA PageInvInit ==
    ASSUME PageAssumption, Android!Init
    PROVE  PageInv
<1>1. /\ channel = <<>> /\ Places = {} /\ <<>> \in Seq(Android!Sent)
  BY EmptySeq DEF Android!Init, Places
<1>2. Android!TypeOK
  BY <1>1 DEF Android!Init, Android!TypeOK, Android!Idle
<1>3. /\ session = "idle" /\ toSend = None /\ status.shows = "idle" /\ ~status.named
      /\ \A c \in AndroidCalls : calls[c] = None /\ c \notin asked
      /\ check = None /\ "storeStop" # None
  BY DEF Android!Init, Android!Idle, PageAssumption, Android!Steps
<1> QED BY <1>1, <1>2, <1>3
        DEF PageInv, CallsWaitOnce, AnswersFit, ChecksAreNamed, StopsAreDone, EndsAreHeard,
            NewsIsTrue, SessionIsNamed, SessionIsShown, IdleIsShown, LateEvents

LEMMA PageInvNext ==
    ASSUME PageAssumption, PageInv, Android!Next \/ UNCHANGED androidVars
    PROVE  PageInv'
<1>1. CASE UNCHANGED androidVars
  BY <1>1 DEF androidVars, PageInv, Android!TypeOK, CallsWaitOnce, AnswersFit, Fits,
              ChecksAreNamed, StopsAreDone, EndsAreHeard, NewsIsTrue, SessionIsNamed,
              SessionIsShown, IdleIsShown, LateEvents, Late, EndsAfter, Places, IsEvent,
              Started, Stopped, Presumes, NewsAfter, StartAfter, StopAfter, AnswerAfter,
              SaidAt, Says, Runs, Half, Overtaken, Ends, Stops
<1> QED BY <1>1, PressKeeps, ServeKeeps, ServeCheckKeeps, MonitorKeeps, SendEventKeeps,
           DeliverKeeps, LeaveKeeps, ReturnKeeps DEF Android!Next

LEMMA PageInvAgrees ==
    ASSUME PageAssumption, PageInv
    PROVE  Android!QuietPageAgrees
<1> SUFFICES ASSUME Android!Quiet
             PROVE  \/ status.shows = session \/ session = "switching"
                    \/ status = [shows |-> "waiting", named |-> FALSE] \/ lost
  BY DEF Android!QuietPageAgrees
<1>1. /\ mounted /\ Places = {} /\ toSend = None /\ check = None
      /\ \A c \in AndroidCalls : calls[c] = None /\ calls[c] \notin Android!Steps
      /\ session \in {"idle", "capturing", "waiting", "switching"}
  BY EmptySeq DEF Android!Quiet, Places, PageAssumption, PageInv, Android!TypeOK
<1>2. Ends \cup {"again"} \subseteq Android!Steps
  BY DEF Ends, Stops, Android!Steps
<1>3. CASE session = "idle"
  BY <1>1, <1>2, <1>3 DEF PageInv, IdleIsShown, Half
<1>4. CASE session \in {"capturing", "waiting"}
  BY <1>1, <1>2, <1>4 DEF PageInv, SessionIsShown, Half, Runs, Overtaken, Ends
<1> QED BY <1>1, <1>3, <1>4

PageHolds == part = "android" => PageInv

LEMMA PageHoldsAlways == FrontSpec => []PageHolds
<1>0. PageAssumption
  BY FrontendAssumption DEF PageAssumption
<1>1. FrontInit => PageHolds
  BY <1>0, PageInvInit DEF FrontInit, PageHolds
<1>2. PageHolds /\ [FrontNext]_frontVars => PageHolds'
  <2> SUFFICES ASSUME PageHolds, [FrontNext]_frontVars, part' = "android"
               PROVE  PageInv'
    BY DEF PageHolds
  <2>1. part = "android" /\ PageInv /\ (Android!Next \/ UNCHANGED androidVars)
    BY DEF PageHolds, FrontNext, frontVars
  <2> QED BY <1>0, <2>1, PageInvNext
<1> QED BY <1>1, <1>2, PTL DEF FrontSpec

(* When nothing is under way the page of the Android capture shows what the  *)
(* backend does, or one of the listed disagreements, for any number of       *)
(* overlapping presses and of messages under way, and however often the page *)
(* is left (AndroidNetworkCapturePage.tsx, androidCaptureStore.ts).          *)
THEOREM AndroidPageShows == FrontSpec => []AndroidPageAgrees
<1>0. PageAssumption
  BY FrontendAssumption DEF PageAssumption
<1>1. PageHolds => AndroidPageAgrees
  BY <1>0, PageInvAgrees DEF PageHolds, AndroidPageAgrees
<1> QED BY <1>1, PageHoldsAlways, PTL
-----------------------------------------------------------------------------
(* The page of the HiProfiler capture.                                       *)

HpAssumption ==
    /\ HiProfilerCalls \cap (Devices \cup {"page", "event"}) = {}
    /\ None \notin [of : Devices, step : HiProfiler!Steps]

Mail == [to : HiProfilerCalls \cup {"page", "event"}, of : Devices,
         what : HiProfiler!States \cup {"yes", "no", "ok", "failed"}]

(* What a message says of the session of its device, when its answer is for  *)
(* the calls cs.                                                             *)
Tells(cs, m, d) ==
    /\ m.of = d
    /\ \/ m.to = "page"
       \/ m.to = "event" /\ m.what # "error"
       \/ m.to \in HiProfilerCalls /\ m.what = "ok" /\ cs[m.to].step \in {"start", "stopAll"}

Told(cs, m) ==
    IF m.to \notin HiProfilerCalls THEN m.what
    ELSE IF cs[m.to].step = "start" THEN "capturing" ELSE "idle"

(* The last message that says something of d.                                *)
LastNews(cs, ch, i, d) ==
    /\ i \in 1 .. Len(ch) /\ Tells(cs, ch[i], d)
    /\ \A j \in 1 .. Len(ch) : Tells(cs, ch[j], d) => j <= i

Fit(step, what) ==
    \/ step = "alive" /\ what \in {"yes", "no"}
    \/ step = "start" /\ what \in {"ok", "failed"}
    \/ step \in {"stop", "stopAll"} /\ what = "ok"

MailFits ==
    \A i \in 1 .. Len(hpChannel) :
        /\ hpChannel[i].to = "page" => hpChannel[i].what \in {"idle", "capturing", "waiting"}
        /\ hpChannel[i].to = "event" =>
              hpChannel[i].what \in {"idle", "capturing", "waiting", "error"}
        /\ hpChannel[i].to \in HiProfilerCalls =>
              /\ hpCalls[hpChannel[i].to] # None /\ hpChannel[i].to \notin hpAsked
              /\ Fit(hpCalls[hpChannel[i].to].step, hpChannel[i].what)
              /\ \A j \in 1 .. Len(hpChannel) : hpChannel[j].to = hpChannel[i].to => j = i

AskedAreCalls == \A c \in hpAsked \cap HiProfilerCalls : hpCalls[c] # None

TrueNews ==
    \A d \in Devices : \A i \in 1 .. Len(hpChannel) :
        LastNews(hpCalls, hpChannel, i, d) => Told(hpCalls, hpChannel[i]) = hpSession[d]

(* The status of the selected device, if nothing that comes will correct it. *)
TrueStatus ==
    \/ hpDevice \in hpAsked
    \/ \E i \in 1 .. Len(hpChannel) : Tells(hpCalls, hpChannel[i], hpDevice)
    \/ hpStatus.of # hpDevice
    \/ hpStatus.state \in {"starting", "stopping", "error"}
    \/ hpStatus.state = hpSession[hpDevice]

HandlersEnd ==
    /\ hpStatus.state = "starting" =>
          \E c \in HiProfilerCalls : hpCalls[c] # None /\ hpCalls[c].step = "start"
    /\ hpStatus.state = "stopping" =>
          \E c \in HiProfilerCalls : hpCalls[c] # None /\ hpCalls[c].step \in {"stop", "stopAll"}

StartsAreHeard ==
    /\ own \subseteq listens
    /\ \A c \in HiProfilerCalls : hpCalls[c] # None /\ hpCalls[c].step = "start" => hpCalls[c].of \in listens

HpInv ==
    /\ HiProfiler!TypeOK /\ MailFits /\ AskedAreCalls /\ TrueNews /\ TrueStatus
    /\ HandlersEnd /\ StartsAreHeard

-----------------------------------------------------------------------------
LEMMA MailOfChannel ==
    ASSUME HiProfiler!TypeOK
    PROVE  /\ hpChannel \in Seq(Mail) /\ Len(hpChannel) \in Nat
           /\ \A i \in 1 .. Len(hpChannel) : hpChannel[i] \in Mail
<1>1. hpChannel \in Seq(Mail)
  BY DEF HiProfiler!TypeOK, Mail
<1> HIDE DEF Mail
<1> QED BY <1>1, LenProperties, ElementOfSeq

LEMMA CallsTyped ==
    ASSUME HpAssumption, HiProfiler!TypeOK, NEW c \in HiProfilerCalls, hpCalls[c] # None
    PROVE  hpCalls[c] \in [of : Devices, step : HiProfiler!Steps]
  BY DEF HiProfiler!TypeOK, HpAssumption

(* Messages are sent.                                                        *)
SentMail(ms) ==
    /\ ms \in Seq(Mail) /\ hpChannel' = hpChannel \o ms
    /\ UNCHANGED <<hpCalls, hpStatus, hpDevice, listens>>

LEMMA SentPlaces ==
    ASSUME HiProfiler!TypeOK, NEW ms \in Seq(Mail), hpChannel' = hpChannel \o ms
    PROVE  /\ hpChannel' \in Seq(Mail) /\ Len(ms) \in Nat
           /\ Len(hpChannel') = Len(hpChannel) + Len(ms)
           /\ \A i \in 1 .. Len(hpChannel) : i \in 1 .. Len(hpChannel') /\ hpChannel'[i] = hpChannel[i]
           /\ \A k \in 1 .. Len(ms) : /\ Len(hpChannel) + k \in 1 .. Len(hpChannel')
                                      /\ hpChannel'[Len(hpChannel) + k] = ms[k]
           /\ \A i \in 1 .. Len(hpChannel') :
                 i \in 1 .. Len(hpChannel) \/ \E k \in 1 .. Len(ms) : i = Len(hpChannel) + k
<1>1. hpChannel \in Seq(Mail) /\ Len(hpChannel) \in Nat /\ Len(ms) \in Nat
  BY MailOfChannel, LenProperties
<1>2. /\ hpChannel' \in Seq(Mail) /\ Len(hpChannel') = Len(hpChannel) + Len(ms)
      /\ \A i \in 1 .. Len(hpChannel) + Len(ms) :
            hpChannel'[i] = IF i <= Len(hpChannel) THEN hpChannel[i] ELSE ms[i - Len(hpChannel)]
  BY <1>1, ConcatProperties
<1>3. \A i \in 1 .. Len(hpChannel) : i \in 1 .. Len(hpChannel') /\ hpChannel'[i] = hpChannel[i]
  BY <1>1, <1>2
<1>4. ASSUME NEW k \in 1 .. Len(ms)
      PROVE  /\ Len(hpChannel) + k \in 1 .. Len(hpChannel')
             /\ hpChannel'[Len(hpChannel) + k] = ms[k]
  <2>1. /\ Len(hpChannel) + k \in 1 .. Len(hpChannel) + Len(ms)
        /\ ~(Len(hpChannel) + k <= Len(hpChannel)) /\ (Len(hpChannel) + k) - Len(hpChannel) = k
    BY <1>1
  <2> QED BY <1>2, <2>1
<1>5. ASSUME NEW i \in 1 .. Len(hpChannel'), i \notin 1 .. Len(hpChannel)
      PROVE  \E k \in 1 .. Len(ms) : i = Len(hpChannel) + k
  <2>1. i - Len(hpChannel) \in 1 .. Len(ms) /\ i = Len(hpChannel) + (i - Len(hpChannel))
    BY <1>1, <1>2, <1>5
  <2> QED BY <2>1
<1> QED BY <1>1, <1>2, <1>3, <1>4, <1>5

LEMMA SentNews ==
    ASSUME HpAssumption, HiProfiler!TypeOK, TrueNews, TrueStatus, NEW ms, SentMail(ms),
           \A k \in 1 .. Len(ms) : \A d \in Devices :
               Tells(hpCalls, ms[k], d) => Told(hpCalls, ms[k]) = hpSession'[d],
           \A d \in Devices : (hpSession'[d] = hpSession[d] /\ (d \in hpAsked => d \in hpAsked'))
                                \/ \E k \in 1 .. Len(ms) : Tells(hpCalls, ms[k], d)
    PROVE  TrueNews' /\ TrueStatus'
<1> DEFINE n == Len(hpChannel)
<1>0. n \in Nat /\ hpDevice \in Devices /\ hpCalls' = hpCalls /\ hpDevice' = hpDevice /\ hpStatus' = hpStatus
  BY MailOfChannel DEF HiProfiler!TypeOK, SentMail
<1>1. /\ Len(ms) \in Nat
      /\ \A i \in 1 .. n : i \in 1 .. Len(hpChannel') /\ hpChannel'[i] = hpChannel[i]
      /\ \A k \in 1 .. Len(ms) : n + k \in 1 .. Len(hpChannel') /\ hpChannel'[n + k] = ms[k]
      /\ \A i \in 1 .. Len(hpChannel') :
            i \in 1 .. n \/ \E k \in 1 .. Len(ms) : i = n + k
  BY SentPlaces DEF SentMail
<1>2. ASSUME NEW d \in Devices, NEW i \in 1 .. Len(hpChannel'), LastNews(hpCalls, hpChannel', i, d)
      PROVE  Told(hpCalls, hpChannel'[i]) = hpSession'[d]
  <2>1. CASE i \in 1 .. n
    <3>1. \A k \in 1 .. Len(ms) : ~Tells(hpCalls, ms[k], d)
      <4>1. ASSUME NEW k \in 1 .. Len(ms), Tells(hpCalls, ms[k], d) PROVE FALSE
        <5>1. n + k \in 1 .. Len(hpChannel') /\ Tells(hpCalls, hpChannel'[n + k], d)
          BY <1>1, <4>1
        <5>2. n + k <= i
          BY <1>2, <5>1 DEF LastNews
        <5> QED BY <1>0, <2>1, <5>2
      <4> QED BY <4>1
    <3>2. LastNews(hpCalls, hpChannel, i, d)
      BY <1>1, <1>2, <2>1 DEF LastNews
    <3>3. Told(hpCalls, hpChannel[i]) = hpSession[d]
      BY <2>1, <3>2 DEF TrueNews
    <3> QED BY <1>1, <2>1, <3>1, <3>3
  <2>2. ASSUME NEW k \in 1 .. Len(ms), i = n + k PROVE Told(hpCalls, hpChannel'[i]) = hpSession'[d]
    <3>1. hpChannel'[i] = ms[k]
      BY <1>1, <2>2
    <3>2. Tells(hpCalls, ms[k], d)
      BY <1>2, <3>1 DEF LastNews
    <3> QED BY <3>1, <3>2
  <2> QED BY <1>1, <2>1, <2>2
<1>3. TrueNews'
  BY <1>0, <1>2 DEF TrueNews
<1>4. \/ hpDevice' \in hpAsked'
      \/ \E i \in 1 .. Len(hpChannel') : Tells(hpCalls', hpChannel'[i], hpDevice')
      \/ hpStatus'.of # hpDevice'
      \/ hpStatus'.state \in {"starting", "stopping", "error"}
      \/ hpStatus'.state = hpSession'[hpDevice']
  <2>1. CASE \E k \in 1 .. Len(ms) : Tells(hpCalls, ms[k], hpDevice)
    BY <1>0, <1>1, <2>1
  <2>2. CASE hpSession'[hpDevice] = hpSession[hpDevice] /\ (hpDevice \in hpAsked => hpDevice \in hpAsked')
    <3>1. CASE \E i \in 1 .. n : Tells(hpCalls, hpChannel[i], hpDevice)
      BY <1>0, <1>1, <3>1
    <3>2. CASE ~\E i \in 1 .. n : Tells(hpCalls, hpChannel[i], hpDevice)
      BY <1>0, <2>2, <3>2 DEF TrueStatus
    <3> QED BY <3>1, <3>2
  <2> QED BY <1>0, <2>1, <2>2
<1> QED BY <1>3, <1>4 DEF TrueStatus

(* An answer to a call is the only one of it.                                *)
LEMMA SentFits ==
    ASSUME HpAssumption, HiProfiler!TypeOK, MailFits, AskedAreCalls, NEW ms, SentMail(ms), hpAsked' \subseteq hpAsked,
           \A k \in 1 .. Len(ms) :
               /\ ms[k].to = "page" => ms[k].what \in {"idle", "capturing", "waiting"}
               /\ ms[k].to = "event" => ms[k].what \in {"idle", "capturing", "waiting", "error"}
               /\ ms[k].to \in HiProfilerCalls =>
                     /\ ms[k].to \in hpAsked /\ ms[k].to \notin hpAsked'
                     /\ Fit(hpCalls[ms[k].to].step, ms[k].what)
                     /\ \A j \in 1 .. Len(ms) : ms[j].to = ms[k].to => j = k
    PROVE  MailFits' /\ AskedAreCalls'
<1> DEFINE n == Len(hpChannel)
<1>0. n \in Nat /\ hpCalls' = hpCalls
  BY MailOfChannel DEF SentMail
<1>1. /\ Len(ms) \in Nat
      /\ \A i \in 1 .. n : i \in 1 .. Len(hpChannel') /\ hpChannel'[i] = hpChannel[i]
      /\ \A k \in 1 .. Len(ms) : n + k \in 1 .. Len(hpChannel') /\ hpChannel'[n + k] = ms[k]
      /\ \A i \in 1 .. Len(hpChannel') :
            i \in 1 .. n \/ \E k \in 1 .. Len(ms) : i = n + k
  BY SentPlaces DEF SentMail
<1> HIDE DEF n
<1>2. ASSUME NEW i \in 1 .. Len(hpChannel')
      PROVE  /\ hpChannel'[i].to = "page" => hpChannel'[i].what \in {"idle", "capturing", "waiting"}
             /\ hpChannel'[i].to = "event" =>
                   hpChannel'[i].what \in {"idle", "capturing", "waiting", "error"}
             /\ hpChannel'[i].to \in HiProfilerCalls =>
                   /\ hpCalls[hpChannel'[i].to] # None /\ hpChannel'[i].to \notin hpAsked'
                   /\ Fit(hpCalls[hpChannel'[i].to].step, hpChannel'[i].what)
                   /\ \A j \in 1 .. Len(hpChannel') : hpChannel'[j].to = hpChannel'[i].to => j = i
  <2>1. CASE i \in 1 .. n
    <3>1. /\ hpChannel'[i] = hpChannel[i]
          /\ hpChannel[i].to \in HiProfilerCalls =>
                /\ hpCalls[hpChannel[i].to] # None /\ hpChannel[i].to \notin hpAsked
                /\ Fit(hpCalls[hpChannel[i].to].step, hpChannel[i].what)
                /\ \A j \in 1 .. n : hpChannel[j].to = hpChannel[i].to => j = i
      BY <1>1, <2>1 DEF MailFits, n
    <3>2. ASSUME hpChannel[i].to \in HiProfilerCalls, NEW j \in 1 .. Len(hpChannel'), hpChannel'[j].to = hpChannel[i].to
          PROVE  j = i
      <4>1. CASE j \in 1 .. n
        BY <1>1, <3>1, <3>2, <4>1
      <4>2. ASSUME NEW k \in 1 .. Len(ms), j = n + k PROVE FALSE
        BY <1>1, <3>1, <3>2, <4>2
      <4> QED BY <1>1, <4>1, <4>2
    <3>3. /\ hpChannel[i].to = "page" => hpChannel[i].what \in {"idle", "capturing", "waiting"}
          /\ hpChannel[i].to = "event" =>
                hpChannel[i].what \in {"idle", "capturing", "waiting", "error"}
      BY <2>1 DEF MailFits, n
    <3> QED BY <3>1, <3>2, <3>3
  <2>2. ASSUME NEW k \in 1 .. Len(ms), i = n + k
        PROVE  /\ hpChannel'[i].to = "page" => hpChannel'[i].what \in {"idle", "capturing", "waiting"}
               /\ hpChannel'[i].to = "event" =>
                     hpChannel'[i].what \in {"idle", "capturing", "waiting", "error"}
               /\ hpChannel'[i].to \in HiProfilerCalls =>
                     /\ hpCalls[hpChannel'[i].to] # None /\ hpChannel'[i].to \notin hpAsked'
                     /\ Fit(hpCalls[hpChannel'[i].to].step, hpChannel'[i].what)
                     /\ \A j \in 1 .. Len(hpChannel') : hpChannel'[j].to = hpChannel'[i].to => j = i
    <3>1. hpChannel'[i] = ms[k]
      BY <1>1, <2>2
    <3>2. ASSUME ms[k].to \in HiProfilerCalls, NEW j \in 1 .. Len(hpChannel'), hpChannel'[j].to = ms[k].to
          PROVE  j = i
      <4>1. CASE j \in 1 .. n
        <5>1. hpChannel[j].to = ms[k].to /\ hpChannel[j].to \notin hpAsked
          BY <1>1, <3>2, <4>1 DEF MailFits, n
        <5> QED BY <3>2, <5>1
      <4>2. ASSUME NEW l \in 1 .. Len(ms), j = n + l PROVE j = i
        <5>1. ms[l].to = ms[k].to
          BY <1>1, <3>2, <4>2
        <5> QED BY <2>2, <3>2, <4>2, <5>1
      <4> QED BY <1>1, <4>1, <4>2
    <3>3. ms[k].to \in HiProfilerCalls => hpCalls[ms[k].to] # None
      BY DEF AskedAreCalls
    <3> QED BY <3>1, <3>2, <3>3
  <2> QED BY <1>1, <2>1, <2>2
<1>3. MailFits'
  BY <1>0, <1>2 DEF MailFits
<1>4. AskedAreCalls'
  BY <1>0 DEF AskedAreCalls
<1> QED BY <1>3, <1>4

-----------------------------------------------------------------------------
LEMMA OneMail ==
    ASSUME NEW a \in Mail
    PROVE  /\ <<a>> \in Seq(Mail) /\ Len(<<a>>) = 1 /\ <<a>>[1] = a /\ <<>> \o <<a>> = <<a>>
  OBVIOUS

LEMMA TwoMails ==
    ASSUME NEW a \in Mail, NEW b \in Mail
    PROVE  /\ <<a, b>> \in Seq(Mail) /\ Len(<<a, b>>) = 2 /\ <<a>> \o <<b>> = <<a, b>>
           /\ \A k \in 1 .. 2 : (k = 1 /\ <<a, b>>[k] = a) \/ (k = 2 /\ <<a, b>>[k] = b)
<1> DEFINE s == <<a>> \o <<b>>
           t == <<a, b>>
<1>1. <<a>> \in Seq(Mail) /\ <<b>> \in Seq(Mail) /\ Len(<<a>>) = 1 /\ Len(<<b>>) = 1
  BY OneMail
<1>2. t \in Seq(Mail) /\ Len(t) = 2 /\ t[1] = a /\ t[2] = b
  OBVIOUS
<1>3. /\ s \in Seq(Mail) /\ Len(s) = 1 + 1
      /\ \A i \in 1 .. 1 + 1 : s[i] = IF i <= 1 THEN <<a>>[i] ELSE <<b>>[i - 1]
  BY <1>1, ConcatProperties
<1>4. s[1] = a /\ s[2] = b
  <2>1. 1 <= 1 /\ ~(2 <= 1) /\ 2 - 1 = 1 /\ 1 \in 1 .. 1 + 1 /\ 2 \in 1 .. 1 + 1
    OBVIOUS
  <2>2. <<a>>[1] = a /\ <<b>>[1] = b
    OBVIOUS
  <2> HIDE DEF s
  <2> QED BY <1>3, <2>1, <2>2
<1> HIDE DEF s, t
<1>5. \A k \in 1 .. 2 : k = 1 \/ k = 2
  OBVIOUS
<1>6. s = t
  BY <1>2, <1>3, <1>4, <1>5, SeqEqual
<1> QED BY <1>2, <1>5, <1>6 DEF s, t

(* What the backend sends: an event that tells of the session, or none, and  *)
(* an answer.                                                                *)
LEMMA Posted ==
    ASSUME HpAssumption, HpInv, NEW ms, SentMail(ms), hpAsked' \subseteq hpAsked,
           \A k \in 1 .. Len(ms) :
               /\ ms[k].to = "page" => ms[k].what \in {"idle", "capturing", "waiting"}
               /\ ms[k].to = "event" => ms[k].what \in {"idle", "capturing", "waiting", "error"}
               /\ ms[k].to \in HiProfilerCalls =>
                     /\ ms[k].to \in hpAsked /\ ms[k].to \notin hpAsked'
                     /\ Fit(hpCalls[ms[k].to].step, ms[k].what)
                     /\ \A j \in 1 .. Len(ms) : ms[j].to = ms[k].to => j = k,
           \A k \in 1 .. Len(ms) : \A d \in Devices :
               Tells(hpCalls, ms[k], d) => Told(hpCalls, ms[k]) = hpSession'[d],
           \A d \in Devices : (hpSession'[d] = hpSession[d] /\ (d \in hpAsked => d \in hpAsked'))
                                \/ \E k \in 1 .. Len(ms) : Tells(hpCalls, ms[k], d),
           hpSession' \in [Devices -> {"idle", "capturing", "waiting"}],
           own' \subseteq own \cup {d \in Devices : d \in listens}
    PROVE  HpInv'
<1>1. HiProfiler!TypeOK /\ MailFits /\ AskedAreCalls /\ TrueNews /\ TrueStatus /\ HandlersEnd /\ StartsAreHeard
  BY DEF HpInv
<1>2. MailFits' /\ AskedAreCalls'
  BY <1>1, SentFits
<1>3. TrueNews' /\ TrueStatus'
  BY <1>1, SentNews
<1>4. HandlersEnd'
  BY <1>1 DEF HandlersEnd, SentMail
<1>5. StartsAreHeard'
  BY <1>1 DEF StartsAreHeard, SentMail
<1>6. hpChannel' \in Seq(Mail)
  BY <1>1, SentPlaces DEF SentMail
<1>7. HiProfiler!TypeOK'
  <2>1. hpChannel' \in Seq([to : HiProfilerCalls \cup {"page", "event"}, of : Devices,
                          what : HiProfiler!States \cup {"yes", "no", "ok", "failed"}])
    BY <1>6 DEF Mail
  <2>2. own' \subseteq Devices /\ hpAsked' \subseteq HiProfilerCalls \cup Devices
    BY <1>1 DEF HiProfiler!TypeOK
  <2> QED BY <1>1, <2>1, <2>2 DEF HiProfiler!TypeOK, SentMail
<1> QED BY <1>2, <1>3, <1>4, <1>5, <1>7 DEF HpInv

LEMMA CallsAreApart ==
    ASSUME HpAssumption
    PROVE  /\ "page" \notin HiProfilerCalls /\ "event" \notin HiProfilerCalls
           /\ \A c \in HiProfilerCalls : c # "page" /\ c # "event" /\ c \notin Devices
  BY DEF HpAssumption

(* One message.                                                              *)
LEMMA PostedOne ==
    ASSUME HpAssumption, HpInv, NEW m \in Mail, SentMail(<<m>>), hpAsked' \subseteq hpAsked,
           m.to = "page" => m.what \in {"idle", "capturing", "waiting"},
           m.to = "event" => m.what \in {"idle", "capturing", "waiting", "error"},
           m.to \in HiProfilerCalls => m.to \in hpAsked /\ m.to \notin hpAsked' /\ Fit(hpCalls[m.to].step, m.what),
           \A d \in Devices : Tells(hpCalls, m, d) => Told(hpCalls, m) = hpSession'[d],
           \A d \in Devices : (hpSession'[d] = hpSession[d] /\ (d \in hpAsked => d \in hpAsked'))
                                \/ Tells(hpCalls, m, d),
           hpSession' \in [Devices -> {"idle", "capturing", "waiting"}],
           own' \subseteq own \cup {d \in Devices : d \in listens}
    PROVE  HpInv'
<1> DEFINE ms == <<m>>
<1>1. Len(ms) = 1 /\ ms[1] = m
  BY OneMail
<1>2. 1 \in 1 .. Len(ms) /\ \A k \in 1 .. Len(ms) : k = 1 /\ ms[k] = m
  BY <1>1
<1>3. SentMail(ms)
  OBVIOUS
<1> HIDE DEF ms
<1>4. \A k \in 1 .. Len(ms) :
               /\ ms[k].to = "page" => ms[k].what \in {"idle", "capturing", "waiting"}
               /\ ms[k].to = "event" => ms[k].what \in {"idle", "capturing", "waiting", "error"}
               /\ ms[k].to \in HiProfilerCalls =>
                     /\ ms[k].to \in hpAsked /\ ms[k].to \notin hpAsked'
                     /\ Fit(hpCalls[ms[k].to].step, ms[k].what)
                     /\ \A j \in 1 .. Len(ms) : ms[j].to = ms[k].to => j = k
  BY <1>2
<1>5. \A k \in 1 .. Len(ms) : \A d \in Devices :
               Tells(hpCalls, ms[k], d) => Told(hpCalls, ms[k]) = hpSession'[d]
  BY <1>2
<1>6. \A d \in Devices : (hpSession'[d] = hpSession[d] /\ (d \in hpAsked => d \in hpAsked'))
                                \/ \E k \in 1 .. Len(ms) : Tells(hpCalls, ms[k], d)
  BY <1>2
<1> QED BY <1>3, <1>4, <1>5, <1>6, Posted

(* An event, and the answer to a call.                                       *)
LEMMA PostedTwo ==
    ASSUME HpAssumption, HpInv, NEW m \in Mail, NEW r \in Mail, SentMail(<<m, r>>),
           hpAsked' = hpAsked \ {r.to}, r.to \in hpAsked \cap HiProfilerCalls,
           m.to = "event", m.what \in {"idle", "capturing", "waiting", "error"},
           Fit(hpCalls[r.to].step, r.what),
           \A d \in Devices : Tells(hpCalls, m, d) => Told(hpCalls, m) = hpSession'[d],
           \A d \in Devices : Tells(hpCalls, r, d) => Told(hpCalls, r) = hpSession'[d],
           \A d \in Devices : hpSession'[d] = hpSession[d] \/ Tells(hpCalls, m, d),
           hpSession' \in [Devices -> {"idle", "capturing", "waiting"}],
           own' \subseteq own \cup {d \in Devices : d \in listens}
    PROVE  HpInv'
<1> DEFINE ms == <<m, r>>
<1>1. Len(ms) = 2 /\ \A k \in 1 .. 2 : (k = 1 /\ ms[k] = m) \/ (k = 2 /\ ms[k] = r)
  BY TwoMails
<1>2. 1 \in 1 .. Len(ms) /\ ms[1] = m
  BY <1>1
<1>3. SentMail(ms)
  OBVIOUS
<1> HIDE DEF ms
<1>4. r.to \in HiProfilerCalls /\ r.to # "page" /\ r.to # "event" /\ r.to \notin Devices /\ "event" \notin HiProfilerCalls
  BY CallsAreApart
<1>5. \A k \in 1 .. Len(ms) :
               /\ ms[k].to = "page" => ms[k].what \in {"idle", "capturing", "waiting"}
               /\ ms[k].to = "event" => ms[k].what \in {"idle", "capturing", "waiting", "error"}
               /\ ms[k].to \in HiProfilerCalls =>
                     /\ ms[k].to \in hpAsked /\ ms[k].to \notin hpAsked'
                     /\ Fit(hpCalls[ms[k].to].step, ms[k].what)
                     /\ \A j \in 1 .. Len(ms) : ms[j].to = ms[k].to => j = k
  BY <1>1, <1>4
<1>6. \A k \in 1 .. Len(ms) : \A d \in Devices :
               Tells(hpCalls, ms[k], d) => Told(hpCalls, ms[k]) = hpSession'[d]
  BY <1>1
<1>7. \A d \in Devices : (hpSession'[d] = hpSession[d] /\ (d \in hpAsked => d \in hpAsked'))
                                \/ \E k \in 1 .. Len(ms) : Tells(hpCalls, ms[k], d)
  BY <1>2, <1>4
<1> QED BY <1>3, <1>5, <1>6, <1>7, Posted

-----------------------------------------------------------------------------
(* The backend.                                                              *)
LEMMA Messages ==
    ASSUME NEW to \in HiProfilerCalls \cup {"page", "event"}, NEW of \in Devices,
           NEW what \in HiProfiler!States \cup {"yes", "no", "ok", "failed"}
    PROVE  /\ HiProfiler!Message(to, of, what) \in Mail
           /\ HiProfiler!Message(to, of, what).to = to /\ HiProfiler!Message(to, of, what).of = of
           /\ HiProfiler!Message(to, of, what).what = what
  BY DEF HiProfiler!Message, Mail

LEMMA SessionTyped ==
    ASSUME HpInv, NEW d \in Devices
    PROVE  /\ hpSession[d] \in {"idle", "capturing", "waiting"}
           /\ \A v \in {"idle", "capturing", "waiting"} :
                 /\ [hpSession EXCEPT ![d] = v] \in [Devices -> {"idle", "capturing", "waiting"}]
                 /\ [hpSession EXCEPT ![d] = v][d] = v
                 /\ \A e \in Devices \ {d} : [hpSession EXCEPT ![d] = v][e] = hpSession[e]
  BY DEF HpInv, HiProfiler!TypeOK

LEMMA EventPosted ==
    ASSUME HpAssumption, HpInv, NEW d \in Devices, NEW v \in {"idle", "capturing", "waiting"},
           hpSession' = [hpSession EXCEPT ![d] = v], HiProfiler!Send(<<HiProfiler!Message("event", d, v)>>),
           own' \subseteq own, UNCHANGED <<hpDevice, hpStatus, listens, hpCalls, hpAsked>>
    PROVE  HpInv'
<1> DEFINE m == HiProfiler!Message("event", d, v)
<1>1. m \in Mail /\ m.to = "event" /\ m.of = d /\ m.what = v
  BY Messages DEF HiProfiler!States
<1>2. SentMail(<<m>>)
  BY <1>1, OneMail DEF SentMail, HiProfiler!Send
<1> HIDE DEF m
<1>3. /\ \A e \in Devices : Tells(hpCalls, m, e) => Told(hpCalls, m) = hpSession'[e]
      /\ \A e \in Devices : hpSession'[e] = hpSession[e] \/ Tells(hpCalls, m, e)
      /\ hpSession' \in [Devices -> {"idle", "capturing", "waiting"}]
  BY <1>1, SessionTyped, CallsAreApart DEF Tells, Told
<1> QED BY <1>1, <1>2, <1>3, CallsAreApart, PostedOne

LEMMA BackendKeeps ==
    ASSUME HpAssumption, HpInv, NEW d \in Devices, HiProfiler!Backend(d)
    PROVE  HpInv'
<1>1. CASE /\ hpSession[d] = "capturing" /\ hpSession' = [hpSession EXCEPT ![d] = "waiting"]
           /\ HiProfiler!Send(<<HiProfiler!Message("event", d, "waiting")>>) /\ UNCHANGED own
  BY <1>1, EventPosted DEF HiProfiler!Backend
<1>2. CASE /\ hpSession' = [hpSession EXCEPT ![d] = "capturing"]
           /\ HiProfiler!Send(<<HiProfiler!Message("event", d, "capturing")>>) /\ UNCHANGED own
  BY <1>2, EventPosted DEF HiProfiler!Backend
<1>3. CASE hpSession[d] # "idle" /\ HiProfiler!Ends(d) /\ HiProfiler!Send(HiProfiler!EndEvent(d))
  <2>1. HiProfiler!Send(<<HiProfiler!Message("event", d, "idle")>>)
    BY <1>3 DEF HiProfiler!EndEvent
  <2> QED BY <1>3, <2>1, EventPosted DEF HiProfiler!Backend, HiProfiler!Ends
<1> QED BY <1>1, <1>2, <1>3 DEF HiProfiler!Backend

LEMMA StatusServed ==
    ASSUME HpAssumption, HpInv, NEW d \in Devices, HiProfiler!ServeStatus(d)
    PROVE  HpInv'
<1> DEFINE m == HiProfiler!Message("page", d, hpSession[d])
<1>1. hpSession[d] \in {"idle", "capturing", "waiting"}
  BY SessionTyped
<1>2. m \in Mail /\ m.to = "page" /\ m.of = d /\ m.what = hpSession[d]
  BY <1>1, Messages DEF HiProfiler!States
<1>3. SentMail(<<m>>) /\ hpSession' = hpSession /\ own' = own /\ hpAsked' = hpAsked \ {d}
  BY <1>2, OneMail DEF SentMail, HiProfiler!Send, HiProfiler!ServeStatus
<1> HIDE DEF m
<1>4. /\ \A e \in Devices : Tells(hpCalls, m, e) => Told(hpCalls, m) = hpSession'[e]
      /\ \A e \in Devices : (hpSession'[e] = hpSession[e] /\ (e \in hpAsked => e \in hpAsked'))
                              \/ Tells(hpCalls, m, e)
      /\ hpSession' \in [Devices -> {"idle", "capturing", "waiting"}]
  BY <1>2, <1>3, CallsAreApart DEF Tells, Told, HpInv, HiProfiler!TypeOK
<1> QED BY <1>1, <1>2, <1>3, <1>4, CallsAreApart, PostedOne

LEMMA CallServed ==
    ASSUME HpAssumption, HpInv, NEW c \in HiProfilerCalls, HiProfiler!Serve(c)
    PROVE  HpInv'
<1> DEFINE d == hpCalls[c].of
           reply(what) == HiProfiler!Message(c, d, what)
<1>0. /\ c \in hpAsked \cap HiProfilerCalls /\ hpAsked' = hpAsked \ {c} /\ hpCalls[c] # None
      /\ UNCHANGED <<hpDevice, hpStatus, listens, hpCalls>>
      /\ \/ /\ hpCalls[c].step = "alive"
            /\ \E what \in {"yes", "no"} : HiProfiler!Send(<<reply(what)>>)
            /\ UNCHANGED <<hpSession, own>>
         \/ /\ hpCalls[c].step = "start" /\ hpSession[d] = "idle"
            /\ hpSession' = [hpSession EXCEPT ![d] = "capturing"]
            /\ own' = own \cup {d}
            /\ HiProfiler!Send(<<HiProfiler!Message("event", d, "capturing"), reply("ok")>>)
         \/ /\ hpCalls[c].step = "start"
            /\ HiProfiler!Send((IF hpSession[d] = "idle" THEN <<HiProfiler!Message("event", d, "error")>>
                     ELSE <<>>) \o <<reply("failed")>>)
            /\ UNCHANGED <<hpSession, own>>
         \/ /\ hpCalls[c].step \in {"stop", "stopAll"}
            /\ HiProfiler!Ends(d)
            /\ HiProfiler!Send(HiProfiler!EndEvent(d) \o <<reply("ok")>>)
  BY DEF HiProfiler!Serve, HpInv, AskedAreCalls
<1>1. hpCalls[c] \in [of : Devices, step : HiProfiler!Steps] /\ d \in Devices
  <2>1. hpCalls[c] \in [of : Devices, step : HiProfiler!Steps]
    BY <1>0, CallsTyped DEF HpInv
  <2> QED BY <2>1
<1>2. \A what \in HiProfiler!States \cup {"yes", "no", "ok", "failed"} :
          /\ reply(what) \in Mail /\ reply(what).to = c /\ reply(what).of = d
          /\ reply(what).what = what
  BY <1>1, Messages
<1>3. \A what \in HiProfiler!States :
          /\ HiProfiler!Message("event", d, what) \in Mail /\ HiProfiler!Message("event", d, what).to = "event"
          /\ HiProfiler!Message("event", d, what).of = d /\ HiProfiler!Message("event", d, what).what = what
  BY <1>1, Messages
<1>4. c # "page" /\ c # "event" /\ c \notin Devices /\ "event" \notin HiProfilerCalls
  BY CallsAreApart
<1>5. /\ hpSession \in [Devices -> {"idle", "capturing", "waiting"}]
      /\ hpSession[d] \in {"idle", "capturing", "waiting"}
  BY <1>1 DEF HpInv, HiProfiler!TypeOK
<1> DEFINE typed == /\ \A e \in Devices : e \in hpAsked => e \in hpAsked'
                    /\ \A v \in {"idle", "capturing", "waiting"} :
                         [hpSession EXCEPT ![d] = v] \in [Devices -> {"idle", "capturing", "waiting"}]
<1>6. typed
  BY <1>0, <1>4, <1>5
<1> HIDE DEF reply, d
<1>7. CASE /\ hpCalls[c].step = "alive"
           /\ \E what \in {"yes", "no"} : HiProfiler!Send(<<reply(what)>>)
           /\ UNCHANGED <<hpSession, own>>
  <2>1. PICK what \in {"yes", "no"} : HiProfiler!Send(<<reply(what)>>)
    BY <1>7
  <2>2. /\ reply(what) \in Mail /\ reply(what).to = c /\ reply(what).of = d
        /\ reply(what).what = what
    BY <1>2
  <2> DEFINE r == reply(what)
  <2>3. SentMail(<<r>>)
    BY <1>0, <2>1, <2>2, OneMail DEF SentMail, HiProfiler!Send
  <2> HIDE DEF r
  <2>4. /\ \A e \in Devices : ~Tells(hpCalls, r, e)
        /\ Fit(hpCalls[c].step, what)
    BY <1>4, <1>7, <2>2 DEF Tells, Fit, r
  <2>5. r \in Mail /\ r.to = c /\ r.what = what
    BY <2>2 DEF r
  <2> QED BY <1>0, <1>4, <1>5, <1>6, <1>7, <2>3, <2>4, <2>5, PostedOne
<1>8. CASE /\ hpCalls[c].step = "start" /\ hpSession[d] = "idle"
           /\ hpSession' = [hpSession EXCEPT ![d] = "capturing"]
           /\ own' = own \cup {d}
           /\ HiProfiler!Send(<<HiProfiler!Message("event", d, "capturing"), reply("ok")>>)
  <2> DEFINE m == HiProfiler!Message("event", d, "capturing")
             r == reply("ok")
  <2>1. /\ m \in Mail /\ m.to = "event" /\ m.of = d /\ m.what = "capturing"
        /\ r \in Mail /\ r.to = c /\ r.of = d /\ r.what = "ok"
    BY <1>2, <1>3 DEF HiProfiler!States
  <2>2. SentMail(<<m, r>>)
    BY <1>0, <1>8, <2>1, TwoMails DEF SentMail, HiProfiler!Send
  <2> HIDE DEF m, r
  <2>3. /\ \A e \in Devices : hpSession'[e] = hpSession[e] \/ Tells(hpCalls, m, e)
        /\ hpSession'[d] = "capturing"
    BY <1>1, <1>4, <1>5, <1>8, <2>1 DEF Tells
  <2>4. /\ \A e \in Devices : Tells(hpCalls, m, e) => Told(hpCalls, m) = hpSession'[e]
        /\ \A e \in Devices : Tells(hpCalls, r, e) => Told(hpCalls, r) = hpSession'[e]
    BY <1>0, <1>4, <1>8, <2>1, <2>3 DEF Tells, Told
  <2>5. Fit(hpCalls[c].step, "ok") /\ own' \subseteq own \cup {e \in Devices : e \in listens}
    <3>1. d \in listens
      BY <1>0, <1>8 DEF HpInv, StartsAreHeard, d
    <3> QED BY <1>1, <1>8, <3>1 DEF Fit
  <2>6. hpSession' \in [Devices -> {"idle", "capturing", "waiting"}]
    BY <1>6, <1>8
  <2> QED BY <1>0, <2>1, <2>2, <2>3, <2>4, <2>5, <2>6, PostedTwo
<1>9. CASE /\ hpCalls[c].step = "start"
           /\ HiProfiler!Send((IF hpSession[d] = "idle" THEN <<HiProfiler!Message("event", d, "error")>>
                    ELSE <<>>) \o <<reply("failed")>>)
           /\ UNCHANGED <<hpSession, own>>
  <2> DEFINE m == HiProfiler!Message("event", d, "error")
             r == reply("failed")
  <2>1. /\ m \in Mail /\ m.to = "event" /\ m.of = d /\ m.what = "error"
        /\ r \in Mail /\ r.to = c /\ r.of = d /\ r.what = "failed"
    BY <1>2, <1>3 DEF HiProfiler!States
  <2>2. HiProfiler!Send(<<m, r>>) \/ HiProfiler!Send(<<r>>)
    <3>1. <<m>> \o <<r>> = <<m, r>> /\ <<>> \o <<r>> = <<r>>
      BY <2>1, TwoMails, OneMail
    <3> QED BY <1>9, <3>1
  <2>3. SentMail(<<m, r>>) \/ SentMail(<<r>>)
    BY <1>0, <2>1, <2>2, OneMail, TwoMails DEF SentMail, HiProfiler!Send
  <2> HIDE DEF m, r
  <2>4. /\ \A e \in Devices : ~Tells(hpCalls, m, e) /\ ~Tells(hpCalls, r, e)
        /\ Fit(hpCalls[c].step, "failed")
    BY <1>4, <1>9, <2>1 DEF Tells, Fit
  <2>5. CASE SentMail(<<m, r>>)
    BY <1>0, <1>5, <1>9, <2>1, <2>4, <2>5, PostedTwo
  <2>6. CASE SentMail(<<r>>)
    BY <1>0, <1>4, <1>5, <1>6, <1>9, <2>1, <2>4, <2>6, PostedOne
  <2> QED BY <2>3, <2>5, <2>6
<1>10. CASE /\ hpCalls[c].step \in {"stop", "stopAll"}
            /\ HiProfiler!Ends(d)
            /\ HiProfiler!Send(HiProfiler!EndEvent(d) \o <<reply("ok")>>)
  <2> DEFINE m == HiProfiler!Message("event", d, "idle")
             r == reply("ok")
  <2>1. /\ m \in Mail /\ m.to = "event" /\ m.of = d /\ m.what = "idle"
        /\ r \in Mail /\ r.to = c /\ r.of = d /\ r.what = "ok"
    BY <1>2, <1>3 DEF HiProfiler!States
  <2>2. HiProfiler!Send(<<m, r>>) \/ (hpSession[d] = "idle" /\ HiProfiler!Send(<<r>>))
    <3>1. <<m>> \o <<r>> = <<m, r>> /\ <<>> \o <<r>> = <<r>>
      BY <2>1, TwoMails, OneMail
    <3> QED BY <1>10, <3>1 DEF HiProfiler!EndEvent
  <2>3. SentMail(<<m, r>>) \/ (hpSession[d] = "idle" /\ SentMail(<<r>>))
    BY <1>0, <2>1, <2>2, OneMail, TwoMails DEF SentMail, HiProfiler!Send
  <2> HIDE DEF m, r
  <2>4. /\ hpSession' \in [Devices -> {"idle", "capturing", "waiting"}]
        /\ hpSession'[d] = "idle" /\ \A e \in Devices \ {d} : hpSession'[e] = hpSession[e]
    BY <1>1, <1>5, <1>6, <1>10 DEF HiProfiler!Ends
  <2>5. /\ \A e \in Devices : Tells(hpCalls, m, e) <=> e = d
        /\ Told(hpCalls, m) = "idle" /\ Fit(hpCalls[c].step, "ok")
        /\ \A e \in Devices : Tells(hpCalls, r, e) => e = d /\ Told(hpCalls, r) = "idle"
    BY <1>0, <1>4, <1>10, <2>1 DEF Tells, Told, Fit
  <2>6. own' \subseteq own
    BY <1>10 DEF HiProfiler!Ends
  <2>7. CASE SentMail(<<m, r>>)
    BY <1>0, <2>1, <2>4, <2>5, <2>6, <2>7, PostedTwo
  <2>8. CASE hpSession[d] = "idle" /\ SentMail(<<r>>)
    BY <1>0, <1>4, <1>6, <2>1, <2>4, <2>5, <2>6, <2>8, PostedOne
  <2> QED BY <2>3, <2>7, <2>8
<1> QED BY <1>0, <1>7, <1>8, <1>9, <1>10

-----------------------------------------------------------------------------
(* The user.                                                                 *)
LEMMA DeviceSelected ==
    ASSUME HpAssumption, HpInv, NEW d \in Devices, HiProfiler!SelectDevice(d)
    PROVE  HpInv'
<1>1. /\ hpDevice' = d /\ hpAsked' = hpAsked \cup {d} /\ d \notin HiProfilerCalls
      /\ UNCHANGED <<hpSession, hpChannel, hpStatus, listens, hpCalls, own>>
  BY CallsAreApart DEF HiProfiler!SelectDevice
<1>2. HiProfiler!TypeOK' /\ HandlersEnd' /\ StartsAreHeard' /\ TrueNews'
  BY <1>1 DEF HpInv, HiProfiler!TypeOK, HandlersEnd, StartsAreHeard, TrueNews
<1>3. MailFits' /\ AskedAreCalls'
  BY <1>1 DEF HpInv, MailFits, AskedAreCalls
<1>4. TrueStatus'
  BY <1>1 DEF TrueStatus
<1> QED BY <1>2, <1>3, <1>4 DEF HpInv

(* A call that begins has no message.                                        *)
LEMMA CallBegins ==
    ASSUME HpAssumption, HpInv, NEW c \in HiProfilerCalls, hpCalls[c] = None,
           NEW step \in HiProfiler!Steps, HiProfiler!Go(c, hpDevice, step),
           UNCHANGED <<hpSession, hpChannel, hpDevice, listens, own>>
    PROVE  /\ hpCalls' \in [HiProfilerCalls -> {None} \cup [of : Devices, step : HiProfiler!Steps]]
           /\ hpAsked' \subseteq HiProfilerCalls \cup Devices
           /\ MailFits' /\ AskedAreCalls' /\ TrueNews'
           /\ \A i \in 1 .. Len(hpChannel), d \in Devices :
                 Tells(hpCalls', hpChannel[i], d) <=> Tells(hpCalls, hpChannel[i], d)
           /\ hpCalls'[c] = [of |-> hpDevice, step |-> step] /\ hpCalls'[c] # None
           /\ \A e \in HiProfilerCalls \ {c} : hpCalls'[e] = hpCalls[e]
<1> DEFINE new == [of |-> hpDevice, step |-> step]
<1>0. /\ HiProfiler!TypeOK /\ MailFits /\ AskedAreCalls /\ TrueNews /\ hpDevice \in Devices
      /\ hpChannel' = hpChannel /\ hpSession' = hpSession
  BY DEF HpInv, HiProfiler!TypeOK
<1>1. new \in [of : Devices, step : HiProfiler!Steps] /\ new # None
  BY <1>0 DEF HpAssumption
<1>2. hpCalls' = [hpCalls EXCEPT ![c] = new] /\ hpAsked' = hpAsked \cup {c}
  BY DEF HiProfiler!Go
<1> HIDE DEF new
<1>3. /\ hpCalls' \in [HiProfilerCalls -> {None} \cup [of : Devices, step : HiProfiler!Steps]]
      /\ hpCalls'[c] = new /\ \A e \in HiProfilerCalls \ {c} : hpCalls'[e] = hpCalls[e]
      /\ hpAsked' \subseteq HiProfilerCalls \cup Devices
  BY <1>0, <1>1, <1>2 DEF HiProfiler!TypeOK
<1>4. \A i \in 1 .. Len(hpChannel) : hpChannel[i].to \in HiProfilerCalls =>
          hpChannel[i].to # c /\ hpCalls'[hpChannel[i].to] = hpCalls[hpChannel[i].to]
  BY <1>0, <1>3 DEF MailFits
<1>5. MailFits' /\ AskedAreCalls'
  BY <1>0, <1>1, <1>2, <1>3, <1>4 DEF MailFits, AskedAreCalls
<1>6. /\ \A i \in 1 .. Len(hpChannel), d \in Devices :
            Tells(hpCalls', hpChannel[i], d) <=> Tells(hpCalls, hpChannel[i], d)
      /\ \A i \in 1 .. Len(hpChannel) : Told(hpCalls', hpChannel[i]) = Told(hpCalls, hpChannel[i])
  BY <1>4 DEF Tells, Told
<1>7. TrueNews'
  BY <1>0, <1>6 DEF TrueNews, LastNews
<1> QED BY <1>1, <1>3, <1>5, <1>6, <1>7 DEF new

LEMMA StartPressed ==
    ASSUME HpAssumption, HpInv, NEW c \in HiProfilerCalls, HiProfiler!PressStart(c)
    PROVE  HpInv'
<1>1. /\ hpCalls[c] = None /\ HiProfiler!Go(c, hpDevice, "alive") /\ "alive" \in HiProfiler!Steps
      /\ UNCHANGED <<hpSession, hpChannel, hpDevice, hpStatus, listens, own>>
  BY DEF HiProfiler!PressStart, HiProfiler!Steps
<1>2. /\ hpCalls' \in [HiProfilerCalls -> {None} \cup [of : Devices, step : HiProfiler!Steps]]
      /\ hpAsked' \subseteq HiProfilerCalls \cup Devices /\ hpAsked' = hpAsked \cup {c}
      /\ MailFits' /\ AskedAreCalls' /\ TrueNews'
      /\ \A i \in 1 .. Len(hpChannel), d \in Devices :
            Tells(hpCalls', hpChannel[i], d) <=> Tells(hpCalls, hpChannel[i], d)
      /\ hpCalls'[c] = [of |-> hpDevice, step |-> "alive"] /\ hpCalls'[c] # None
      /\ \A e \in HiProfilerCalls \ {c} : hpCalls'[e] = hpCalls[e]
  BY <1>1, CallBegins DEF HiProfiler!Go
<1>3. HiProfiler!TypeOK'
  BY <1>1, <1>2 DEF HpInv, HiProfiler!TypeOK
<1>4. HandlersEnd' /\ StartsAreHeard'
  <2>1. /\ \A e \in HiProfilerCalls : hpCalls[e] # None => hpCalls'[e] = hpCalls[e]
        /\ hpCalls'[c].step = "alive"
    BY <1>1, <1>2
  <2> QED BY <1>1, <1>2, <2>1 DEF HpInv, HandlersEnd, StartsAreHeard
<1>5. TrueStatus'
  <2>1. hpDevice \in Devices
    BY DEF HpInv, HiProfiler!TypeOK
  <2> QED BY <1>1, <1>2, <2>1 DEF HpInv, TrueStatus
<1> QED BY <1>2, <1>3, <1>4, <1>5 DEF HpInv

LEMMA StopPressed ==
    ASSUME HpAssumption, HpInv, NEW c \in HiProfilerCalls, HiProfiler!PressStop(c)
    PROVE  HpInv'
<1>1. /\ hpCalls[c] = None /\ HiProfiler!Go(c, hpDevice, "stop") /\ "stop" \in HiProfiler!Steps
      /\ hpStatus' = [state |-> "stopping", of |-> hpStatus.of]
      /\ UNCHANGED <<hpSession, hpChannel, hpDevice, listens, own>>
  BY DEF HiProfiler!PressStop, HiProfiler!Steps, HiProfiler!Show
<1>2. /\ hpCalls' \in [HiProfilerCalls -> {None} \cup [of : Devices, step : HiProfiler!Steps]]
      /\ hpAsked' \subseteq HiProfilerCalls \cup Devices
      /\ MailFits' /\ AskedAreCalls' /\ TrueNews'
      /\ hpCalls'[c] = [of |-> hpDevice, step |-> "stop"] /\ hpCalls'[c] # None
      /\ \A e \in HiProfilerCalls \ {c} : hpCalls'[e] = hpCalls[e]
  BY <1>1, CallBegins
<1>3. HiProfiler!TypeOK'
  <2>1. hpStatus' \in [state : HiProfiler!States, of : Devices]
    BY <1>1 DEF HpInv, HiProfiler!TypeOK, HiProfiler!States
  <2> QED BY <1>1, <1>2, <2>1 DEF HpInv, HiProfiler!TypeOK
<1>4. HandlersEnd' /\ StartsAreHeard'
  <2>1. /\ \A e \in HiProfilerCalls : hpCalls[e] # None => hpCalls'[e] = hpCalls[e]
        /\ hpCalls'[c].step = "stop" /\ hpStatus'.state = "stopping"
    BY <1>1, <1>2
  <2> QED BY <1>1, <1>2, <2>1 DEF HpInv, HandlersEnd, StartsAreHeard
<1>5. TrueStatus'
  BY <1>1 DEF TrueStatus
<1> QED BY <1>2, <1>3, <1>4, <1>5 DEF HpInv

-----------------------------------------------------------------------------
(* A message is taken off the channel.  A call that goes on, or ends, was    *)
(* its addressee, and has no other.                                          *)
TakenMail ==
    /\ hpChannel # <<>> /\ hpChannel' = Tail(hpChannel)
    /\ \A c \in HiProfilerCalls : hpChannel[1].to # c =>
          hpCalls'[c] = hpCalls[c] /\ (c \in hpAsked' => c \in hpAsked)
    /\ \A d \in Devices : d \in hpAsked => d \in hpAsked'
    /\ \A c \in hpAsked' \cap HiProfilerCalls : hpCalls'[c] # None
    /\ UNCHANGED <<hpSession, hpDevice, own>>

LEMMA TakenPlaces ==
    ASSUME HiProfiler!TypeOK, hpChannel # <<>>, hpChannel' = Tail(hpChannel)
    PROVE  /\ 1 \in 1 .. Len(hpChannel) /\ Head(hpChannel) = hpChannel[1] /\ hpChannel[1] \in Mail
           /\ hpChannel' \in Seq(Mail)
           /\ \A i \in 1 .. Len(hpChannel') :
                 i + 1 \in 1 .. Len(hpChannel) /\ hpChannel'[i] = hpChannel[i + 1] /\ i + 1 # 1
           /\ \A i \in 1 .. Len(hpChannel) :
                 i = 1 \/ \E j \in 1 .. Len(hpChannel') : i = j + 1
<1>1. hpChannel \in Seq(Mail) /\ Len(hpChannel) \in Nat
  BY MailOfChannel
<1>2. /\ Head(hpChannel) \in Mail /\ Tail(hpChannel) \in Seq(Mail)
      /\ Len(Tail(hpChannel)) = Len(hpChannel) - 1 /\ Len(hpChannel) # 0
      /\ \A i \in 1 .. Len(Tail(hpChannel)) : Tail(hpChannel)[i] = hpChannel[i + 1]
      /\ Head(hpChannel) = hpChannel[1]
  BY <1>1, HeadTailProperties, EmptySeq
<1>3. Len(hpChannel') = Len(hpChannel) - 1 /\ 1 \in 1 .. Len(hpChannel)
  BY <1>1, <1>2
<1>4. \A i \in 1 .. Len(hpChannel') :
          i + 1 \in 1 .. Len(hpChannel) /\ hpChannel'[i] = hpChannel[i + 1] /\ i + 1 # 1
  BY <1>1, <1>2, <1>3
<1>5. ASSUME NEW i \in 1 .. Len(hpChannel), i # 1
      PROVE  \E j \in 1 .. Len(hpChannel') : i = j + 1
  <2>1. i - 1 \in 1 .. Len(hpChannel') /\ i = (i - 1) + 1
    BY <1>1, <1>3, <1>5
  <2> QED BY <2>1
<1> QED BY <1>2, <1>3, <1>4, <1>5

LEMMA TakenKeeps ==
    ASSUME HpAssumption, HpInv, TakenMail
    PROVE  /\ MailFits' /\ AskedAreCalls' /\ TrueNews'
           /\ \/ hpDevice \in hpAsked'
              \/ \E i \in 1 .. Len(hpChannel') : Tells(hpCalls', hpChannel'[i], hpDevice)
              \/ /\ Tells(hpCalls, hpChannel[1], hpDevice)
                 /\ Told(hpCalls, hpChannel[1]) = hpSession[hpDevice]
              \/ /\ ~Tells(hpCalls, hpChannel[1], hpDevice)
                 /\ \/ hpStatus.of # hpDevice
                    \/ hpStatus.state \in {"starting", "stopping", "error"}
                    \/ hpStatus.state = hpSession[hpDevice]
<1>0. /\ HiProfiler!TypeOK /\ MailFits /\ AskedAreCalls /\ TrueNews /\ TrueStatus /\ hpDevice \in Devices
      /\ hpSession' = hpSession
  BY DEF HpInv, HiProfiler!TypeOK, TakenMail
<1>1. /\ 1 \in 1 .. Len(hpChannel) /\ hpChannel[1] \in Mail
      /\ \A i \in 1 .. Len(hpChannel') :
            i + 1 \in 1 .. Len(hpChannel) /\ hpChannel'[i] = hpChannel[i + 1] /\ i + 1 # 1
      /\ \A i \in 1 .. Len(hpChannel) :
            i = 1 \/ \E j \in 1 .. Len(hpChannel') : i = j + 1
  BY <1>0, TakenPlaces DEF TakenMail
<1>2. ASSUME NEW i \in 1 .. Len(hpChannel'), hpChannel'[i].to \in HiProfilerCalls
      PROVE  /\ hpChannel[1].to # hpChannel'[i].to
             /\ hpCalls'[hpChannel'[i].to] = hpCalls[hpChannel'[i].to]
             /\ hpCalls'[hpChannel'[i].to] # None /\ hpChannel'[i].to \notin hpAsked'
             /\ Fit(hpCalls'[hpChannel'[i].to].step, hpChannel'[i].what)
  <2>1. i + 1 \in 1 .. Len(hpChannel) /\ hpChannel[i + 1] = hpChannel'[i] /\ i + 1 # 1
    BY <1>1
  <2>2. hpChannel[1].to # hpChannel[i + 1].to
    BY <1>0, <1>1, <1>2, <2>1 DEF MailFits
  <2>3. /\ hpCalls[hpChannel[i + 1].to] # None /\ hpChannel[i + 1].to \notin hpAsked
        /\ Fit(hpCalls[hpChannel[i + 1].to].step, hpChannel[i + 1].what)
    BY <1>0, <1>2, <2>1 DEF MailFits
  <2> QED BY <1>2, <2>1, <2>2, <2>3 DEF TakenMail
<1>3. /\ \A i \in 1 .. Len(hpChannel'), d \in Devices :
            Tells(hpCalls', hpChannel'[i], d) <=> Tells(hpCalls, hpChannel'[i], d)
      /\ \A i \in 1 .. Len(hpChannel') : Told(hpCalls', hpChannel'[i]) = Told(hpCalls, hpChannel'[i])
  BY <1>2 DEF Tells, Told
<1>4. MailFits'
  <2>1. ASSUME NEW i \in 1 .. Len(hpChannel')
        PROVE  /\ hpChannel'[i].to = "page" => hpChannel'[i].what \in {"idle", "capturing", "waiting"}
               /\ hpChannel'[i].to = "event" =>
                     hpChannel'[i].what \in {"idle", "capturing", "waiting", "error"}
    BY <1>0, <1>1 DEF MailFits
  <2>2. ASSUME NEW i \in 1 .. Len(hpChannel'), hpChannel'[i].to \in HiProfilerCalls,
               NEW j \in 1 .. Len(hpChannel'), hpChannel'[j].to = hpChannel'[i].to
        PROVE  j = i
    <3>1. /\ i + 1 \in 1 .. Len(hpChannel) /\ hpChannel[i + 1] = hpChannel'[i]
          /\ j + 1 \in 1 .. Len(hpChannel) /\ hpChannel[j + 1] = hpChannel'[j]
      BY <1>1
    <3>2. j + 1 = i + 1
      BY <1>0, <2>2, <3>1 DEF MailFits
    <3> QED BY <3>2
  <2> QED BY <1>2, <2>1, <2>2 DEF MailFits
<1>5. AskedAreCalls'
  BY DEF TakenMail, AskedAreCalls
<1>6. ASSUME NEW d \in Devices, NEW i \in 1 .. Len(hpChannel'), LastNews(hpCalls', hpChannel', i, d)
      PROVE  Told(hpCalls', hpChannel'[i]) = hpSession[d]
  <2>1. i + 1 \in 1 .. Len(hpChannel) /\ hpChannel'[i] = hpChannel[i + 1]
    BY <1>1
  <2>2. ASSUME NEW j \in 1 .. Len(hpChannel), Tells(hpCalls, hpChannel[j], d) PROVE j <= i + 1
    <3>1. CASE j = 1
      BY <2>1, <3>1
    <3>2. ASSUME NEW k \in 1 .. Len(hpChannel'), j = k + 1 PROVE j <= i + 1
      <4>1. Tells(hpCalls', hpChannel'[k], d)
        BY <1>1, <1>3, <2>2, <3>2
      <4>2. k <= i
        BY <1>6, <4>1 DEF LastNews
      <4> QED BY <3>2, <4>2
    <3> QED BY <1>1, <3>1, <3>2
  <2>3. LastNews(hpCalls, hpChannel, i + 1, d)
    BY <1>3, <1>6, <2>1, <2>2 DEF LastNews
  <2> QED BY <1>0, <1>3, <2>1, <2>3 DEF TrueNews
<1>7. TrueNews'
  BY <1>0, <1>6 DEF TrueNews
<1>8. ASSUME hpDevice \notin hpAsked',
             ~\E i \in 1 .. Len(hpChannel') : Tells(hpCalls', hpChannel'[i], hpDevice)
      PROVE  \/ /\ Tells(hpCalls, hpChannel[1], hpDevice)
                /\ Told(hpCalls, hpChannel[1]) = hpSession[hpDevice]
             \/ /\ ~Tells(hpCalls, hpChannel[1], hpDevice)
                /\ \/ hpStatus.of # hpDevice
                   \/ hpStatus.state \in {"starting", "stopping", "error"}
                   \/ hpStatus.state = hpSession[hpDevice]
  <2>1. ASSUME NEW i \in 1 .. Len(hpChannel), Tells(hpCalls, hpChannel[i], hpDevice) PROVE i = 1
    <3>1. ASSUME NEW j \in 1 .. Len(hpChannel'), i = j + 1 PROVE FALSE
      BY <1>0, <1>1, <1>3, <1>8, <2>1, <3>1
    <3> QED BY <1>1, <3>1
  <2>2. hpDevice \notin hpAsked
    BY <1>0, <1>8 DEF TakenMail
  <2>3. CASE Tells(hpCalls, hpChannel[1], hpDevice)
    <3>1. LastNews(hpCalls, hpChannel, 1, hpDevice)
      BY <1>1, <2>1, <2>3 DEF LastNews
    <3> QED BY <1>0, <1>1, <2>3, <3>1 DEF TrueNews
  <2>4. CASE ~Tells(hpCalls, hpChannel[1], hpDevice)
    BY <1>0, <2>1, <2>2, <2>4 DEF TrueStatus
  <2> QED BY <2>3, <2>4
<1> QED BY <1>4, <1>5, <1>7, <1>8

(* What an answer does, by the step of its call.                             *)
AnswerTaken(c, d, what) ==
    \/ /\ hpCalls[c].step = "alive" /\ what = "yes" /\ HiProfiler!Go(c, d, "start")
       /\ listens' = listens \cup {d} /\ hpStatus' = [state |-> "starting", of |-> d]
    \/ /\ hpCalls[c].step = "alive" /\ what = "no" /\ HiProfiler!Done(c)
       /\ UNCHANGED <<hpStatus, listens>>
    \/ /\ hpCalls[c].step = "start" /\ what = "ok" /\ HiProfiler!Done(c) /\ UNCHANGED listens
       /\ \/ hpStatus.state = "capturing" /\ hpStatus' = hpStatus
          \/ hpStatus' = [state |-> "capturing", of |-> d]
    \/ /\ hpCalls[c].step = "start" /\ what = "failed" /\ HiProfiler!Done(c) /\ UNCHANGED listens
       /\ hpStatus' = [state |-> "error", of |-> hpStatus.of]
    \/ /\ hpCalls[c].step = "stop" /\ HiProfiler!Go(c, d, "stopAll") /\ UNCHANGED <<hpStatus, listens>>
    \/ /\ hpCalls[c].step = "stopAll" /\ what = "ok" /\ HiProfiler!Done(c) /\ UNCHANGED listens
       /\ hpStatus' = [state |-> "idle", of |-> d]

LEMMA AnswerDoes ==
    ASSUME NEW c \in HiProfilerCalls, NEW d, NEW what, Fit(hpCalls[c].step, what), HiProfiler!Continue(c, d, what)
    PROVE  AnswerTaken(c, d, what)
<1>1. CASE hpCalls[c].step = "alive" /\ what = "yes"
  BY <1>1 DEF HiProfiler!Continue, AnswerTaken, HiProfiler!StartsListening, HiProfiler!Show
<1>2. CASE hpCalls[c].step = "alive" /\ what = "no"
  BY <1>2 DEF HiProfiler!Continue, AnswerTaken
<1>3. CASE hpCalls[c].step = "start" /\ what = "ok"
  BY <1>3 DEF HiProfiler!Continue, AnswerTaken, HiProfiler!Show
<1>4. CASE hpCalls[c].step = "start" /\ what = "failed"
  BY <1>4 DEF HiProfiler!Continue, AnswerTaken, HiProfiler!Show
<1>5. CASE hpCalls[c].step = "stop"
  BY <1>5 DEF HiProfiler!Continue, AnswerTaken
<1>6. CASE hpCalls[c].step = "stopAll" /\ what = "ok"
  BY <1>6 DEF HiProfiler!Continue, AnswerTaken, HiProfiler!Show
<1> QED BY <1>1, <1>2, <1>3, <1>4, <1>5, <1>6 DEF Fit

(* What a message leaves, whatever its kind.                                 *)
LEMMA DeliveredKeeps ==
    ASSUME HpAssumption, HpInv, TakenMail,
           hpStatus' \in [state : HiProfiler!States, of : Devices], listens' \subseteq Devices,
           hpCalls' \in [HiProfilerCalls -> {None} \cup [of : Devices, step : HiProfiler!Steps]],
           hpAsked' \subseteq HiProfilerCalls \cup Devices, HandlersEnd', StartsAreHeard',
           Tells(hpCalls, hpChannel[1], hpDevice) => hpStatus'.state = Told(hpCalls, hpChannel[1]),
           ~Tells(hpCalls, hpChannel[1], hpDevice) =>
               \/ hpStatus' = hpStatus
               \/ hpStatus'.of # hpDevice
               \/ hpStatus'.state \in {"starting", "error"}
    PROVE  HpInv'
<1>1. MailFits' /\ AskedAreCalls' /\ TrueNews'
  BY TakenKeeps
<1>2. hpDevice' = hpDevice /\ hpSession' = hpSession /\ hpDevice \in Devices
  BY DEF TakenMail, HpInv, HiProfiler!TypeOK
<1>3. \/ hpDevice \in hpAsked'
      \/ \E i \in 1 .. Len(hpChannel') : Tells(hpCalls', hpChannel'[i], hpDevice)
      \/ hpStatus'.of # hpDevice
      \/ hpStatus'.state \in {"starting", "stopping", "error"}
      \/ hpStatus'.state = hpSession[hpDevice]
  <2>1. CASE Tells(hpCalls, hpChannel[1], hpDevice) /\ Told(hpCalls, hpChannel[1]) = hpSession[hpDevice]
    BY <2>1
  <2>2. CASE /\ ~Tells(hpCalls, hpChannel[1], hpDevice)
             /\ \/ hpStatus.of # hpDevice
                \/ hpStatus.state \in {"starting", "stopping", "error"}
                \/ hpStatus.state = hpSession[hpDevice]
    BY <2>2
  <2> QED BY <2>1, <2>2, TakenKeeps
<1>4. TrueStatus'
  BY <1>2, <1>3 DEF TrueStatus
<1>5. hpChannel' \in Seq(Mail)
  BY TakenPlaces DEF TakenMail, HpInv
<1>6. HiProfiler!TypeOK'
  <2>1. hpChannel' \in Seq([to : HiProfilerCalls \cup {"page", "event"}, of : Devices,
                          what : HiProfiler!States \cup {"yes", "no", "ok", "failed"}])
    BY <1>5 DEF Mail
  <2> QED BY <1>2, <2>1 DEF HiProfiler!TypeOK, TakenMail, HpInv
<1> QED BY <1>1, <1>4, <1>6 DEF HpInv

LEMMA MessageDelivered ==
    ASSUME HpAssumption, HpInv, HiProfiler!Deliver
    PROVE  HpInv'
<1> DEFINE m == hpChannel[1]
<1>0. /\ HiProfiler!TypeOK /\ MailFits /\ AskedAreCalls /\ HandlersEnd /\ StartsAreHeard
      /\ "page" \notin HiProfilerCalls /\ "event" \notin HiProfilerCalls /\ HiProfilerCalls \cap Devices = {}
  BY CallsAreApart DEF HpInv, HpAssumption
<1>1. /\ 1 \in 1 .. Len(hpChannel) /\ Head(hpChannel) = m /\ m \in Mail
  BY <1>0, TakenPlaces DEF HiProfiler!Deliver
<1>2. /\ m.to = "page" => m.what \in {"idle", "capturing", "waiting"}
      /\ m.to = "event" => m.what \in {"idle", "capturing", "waiting", "error"}
      /\ m.to \in HiProfilerCalls => /\ hpCalls[m.to] # None /\ m.to \notin hpAsked
                           /\ Fit(hpCalls[m.to].step, m.what)
      /\ m.of \in Devices
  BY <1>0, <1>1 DEF MailFits, Mail
<1>3. \/ m.to = "event" /\ HiProfiler!Hear(m.of, m.what)
      \/ m.to = "page" /\ HiProfiler!TakeStatus(m.of, m.what)
      \/ m.to \in HiProfilerCalls /\ HiProfiler!Continue(m.to, m.of, m.what)
  <2>1. m.to \in HiProfilerCalls \cup {"page", "event"}
    BY <1>1 DEF Mail
  <2>2. CASE m.to = "event" /\ ~(m.to = "page")
    BY <1>1, <2>2 DEF HiProfiler!Deliver
  <2>3. CASE m.to = "page" /\ ~(m.to = "event")
    BY <1>1, <2>3 DEF HiProfiler!Deliver
  <2>4. CASE m.to \in HiProfilerCalls /\ ~(m.to = "page") /\ ~(m.to = "event")
    BY <1>1, <2>4 DEF HiProfiler!Deliver
  <2> QED BY <1>0, <2>1, <2>2, <2>3, <2>4
<1>4. hpChannel # <<>> /\ hpChannel' = Tail(hpChannel) /\ UNCHANGED <<hpSession, hpDevice, own>>
  BY DEF HiProfiler!Deliver
<1>5. hpStatus \in [state : HiProfiler!States, of : Devices] /\ listens \subseteq Devices /\ hpDevice \in Devices
  BY <1>0 DEF HiProfiler!TypeOK
<1> HIDE DEF m
<1>6. CASE m.to = "event" /\ HiProfiler!Hear(m.of, m.what)
  <2>1. /\ UNCHANGED <<listens, hpCalls, hpAsked>>
        /\ hpStatus' = IF m.of = hpDevice THEN [state |-> m.what, of |-> hpDevice] ELSE hpStatus
    BY <1>6 DEF HiProfiler!Hear, HiProfiler!Show
  <2>2. TakenMail
    BY <1>0, <1>4, <2>1 DEF TakenMail, AskedAreCalls
  <2>3. hpStatus' \in [state : HiProfiler!States, of : Devices]
    BY <1>2, <1>5, <1>6, <2>1 DEF HiProfiler!States
  <2>4. HandlersEnd'
    <3>1. hpStatus' = hpStatus \/ hpStatus'.state \notin {"starting", "stopping"}
      BY <1>2, <1>6, <2>1
    <3> QED BY <1>0, <2>1, <3>1 DEF HandlersEnd
  <2>5. StartsAreHeard'
    BY <1>0, <1>4, <2>1 DEF StartsAreHeard
  <2>6. /\ Tells(hpCalls, m, hpDevice) => hpStatus'.state = Told(hpCalls, m)
        /\ ~Tells(hpCalls, m, hpDevice) => (hpStatus' = hpStatus \/ hpStatus'.state = "error")
    BY <1>0, <1>2, <1>6, <2>1 DEF Tells, Told
  <2> QED BY <1>0, <1>5, <2>1, <2>2, <2>3, <2>4, <2>5, <2>6, DeliveredKeeps DEF m, HiProfiler!TypeOK
<1>7. CASE m.to = "page" /\ HiProfiler!TakeStatus(m.of, m.what)
  <2>1. /\ UNCHANGED <<hpCalls, hpAsked>>
        /\ hpStatus' = [state |-> m.what, of |-> m.of]
        /\ listens \subseteq listens' /\ listens' \subseteq listens \cup {m.of}
    BY <1>7 DEF HiProfiler!TakeStatus, HiProfiler!Show
  <2>2. TakenMail
    BY <1>0, <1>4, <2>1 DEF TakenMail, AskedAreCalls
  <2>3. hpStatus' \in [state : HiProfiler!States, of : Devices] /\ listens' \subseteq Devices
    BY <1>2, <1>5, <1>7, <2>1 DEF HiProfiler!States
  <2>4. HandlersEnd'
    BY <1>2, <1>7, <2>1 DEF HandlersEnd
  <2>5. StartsAreHeard'
    BY <1>0, <1>4, <2>1 DEF StartsAreHeard
  <2>6. /\ Tells(hpCalls, m, hpDevice) => hpStatus'.state = Told(hpCalls, m)
        /\ ~Tells(hpCalls, m, hpDevice) => hpStatus'.of # hpDevice
    BY <1>0, <1>2, <1>7, <2>1 DEF Tells, Told
  <2> QED BY <1>0, <2>1, <2>2, <2>3, <2>4, <2>5, <2>6, DeliveredKeeps DEF m, HiProfiler!TypeOK
<1>8. CASE m.to \in HiProfilerCalls /\ HiProfiler!Continue(m.to, m.of, m.what)
  <2> DEFINE c == m.to
             d == m.of
             what == m.what
  <2>1. /\ c \in HiProfilerCalls /\ d \in Devices /\ hpCalls[c] # None /\ c \notin hpAsked
        /\ AnswerTaken(c, d, what) /\ c \notin Devices
    BY <1>0, <1>2, <1>8, AnswerDoes
  <2>2. hpCalls[c].step \in HiProfiler!Steps
    BY <1>0, <2>1, CallsTyped
  <2>3. /\ \A e \in HiProfilerCalls : c # e => hpCalls'[e] = hpCalls[e] /\ (e \in hpAsked' => e \in hpAsked)
        /\ \A e \in Devices : e \in hpAsked => e \in hpAsked'
        /\ hpCalls' \in [HiProfilerCalls -> {None} \cup [of : Devices, step : HiProfiler!Steps]]
        /\ hpAsked' \subseteq HiProfilerCalls \cup Devices
        /\ c \in hpAsked' => hpCalls'[c] # None
        /\ \/ hpCalls'[c] = None /\ HiProfiler!Done(c)
           \/ \E step \in {"start", "stopAll"} :
                 hpCalls'[c] = [of |-> d, step |-> step] /\ hpCalls'[c] # None /\ HiProfiler!Go(c, d, step)
    <3> HIDE DEF c, d, what
    <3>1. CASE HiProfiler!Done(c)
      BY <1>0, <2>1, <3>1 DEF HiProfiler!Done, HiProfiler!TypeOK
    <3>2. ASSUME NEW step \in {"start", "stopAll"}, HiProfiler!Go(c, d, step)
          PROVE  /\ \A e \in HiProfilerCalls : c # e => hpCalls'[e] = hpCalls[e] /\ (e \in hpAsked' => e \in hpAsked)
                 /\ \A e \in Devices : e \in hpAsked => e \in hpAsked'
                 /\ hpCalls' \in [HiProfilerCalls -> {None} \cup [of : Devices, step : HiProfiler!Steps]]
                 /\ hpAsked' \subseteq HiProfilerCalls \cup Devices
                 /\ hpCalls'[c] = [of |-> d, step |-> step] /\ hpCalls'[c] # None
      <4> DEFINE new == [of |-> d, step |-> step]
      <4>1. new \in [of : Devices, step : HiProfiler!Steps] /\ new # None
        BY <2>1 DEF HpAssumption, HiProfiler!Steps
      <4>2. hpCalls' = [hpCalls EXCEPT ![c] = new] /\ hpAsked' = hpAsked \cup {c}
        BY <3>2 DEF HiProfiler!Go
      <4> HIDE DEF new
      <4>3. hpCalls'[c] = new /\ \A e \in HiProfilerCalls : c # e => hpCalls'[e] = hpCalls[e]
        BY <1>0, <2>1, <4>2 DEF HiProfiler!TypeOK
      <4>4. hpCalls' \in [HiProfilerCalls -> {None} \cup [of : Devices, step : HiProfiler!Steps]]
        BY <1>0, <2>1, <4>1, <4>2 DEF HiProfiler!TypeOK
      <4>5. hpAsked' \subseteq HiProfilerCalls \cup Devices
        BY <1>0, <2>1, <4>2 DEF HiProfiler!TypeOK
      <4> QED BY <4>1, <4>2, <4>3, <4>4, <4>5 DEF new
    <3>3. HiProfiler!Done(c) \/ \E step \in {"start", "stopAll"} : HiProfiler!Go(c, d, step)
      BY <2>1 DEF AnswerTaken
    <3> QED BY <3>1, <3>2, <3>3
  <2>4. TakenMail
    <3>1. \A e \in hpAsked' \cap HiProfilerCalls : hpCalls'[e] # None
      BY <1>0, <2>3 DEF AskedAreCalls
    <3> QED BY <1>4, <2>3, <3>1 DEF TakenMail, m
  <2>5. /\ hpStatus' \in [state : HiProfiler!States, of : Devices]
        /\ listens \subseteq listens' /\ listens' \subseteq Devices
    BY <1>5, <2>1 DEF AnswerTaken, HiProfiler!States
  <2>6. Told(hpCalls, m) = IF hpCalls[c].step = "start" THEN "capturing" ELSE "idle"
    BY <2>1 DEF Told
  <2>7. \A e \in Devices : Tells(hpCalls, m, e) <=>
            e = d /\ what = "ok" /\ hpCalls[c].step \in {"start", "stopAll"}
    BY <1>0, <2>1 DEF Tells
  <2> HIDE DEF c, d, what
  <2>8. /\ Tells(hpCalls, m, hpDevice) => hpStatus'.state = Told(hpCalls, m)
        /\ ~Tells(hpCalls, m, hpDevice) =>
               \/ hpStatus' = hpStatus
               \/ hpStatus'.of # hpDevice
               \/ hpStatus'.state \in {"starting", "error"}
    BY <1>5, <2>1, <2>5, <2>6, <2>7 DEF AnswerTaken
  <2>9. HandlersEnd'
    <3>1. CASE hpStatus'.state = "starting"
      <4>1. \/ hpCalls'[c] # None /\ hpCalls'[c].step = "start"
            \/ hpStatus.state = "starting" /\ hpCalls[c].step # "start"
        BY <2>1, <2>3, <3>1 DEF AnswerTaken, HiProfiler!Go, HiProfiler!Done
      <4>2. \E e \in HiProfilerCalls : hpCalls'[e] # None /\ hpCalls'[e].step = "start"
        BY <1>0, <2>1, <2>3, <4>1 DEF HandlersEnd
      <4> QED BY <3>1, <4>2 DEF HandlersEnd
    <3>2. CASE hpStatus'.state = "stopping"
      <4>1. \/ hpCalls'[c] # None /\ hpCalls'[c].step \in {"stop", "stopAll"}
            \/ hpStatus.state = "stopping" /\ hpCalls[c].step \notin {"stop", "stopAll"}
        BY <2>1, <2>3, <3>2 DEF AnswerTaken, HiProfiler!Go, HiProfiler!Done
      <4>2. \E e \in HiProfilerCalls : hpCalls'[e] # None /\ hpCalls'[e].step \in {"stop", "stopAll"}
        BY <1>0, <2>1, <2>3, <4>1 DEF HandlersEnd
      <4> QED BY <3>2, <4>2 DEF HandlersEnd
    <3> QED BY <3>1, <3>2 DEF HandlersEnd
  <2>10. StartsAreHeard'
    <3>1. hpCalls'[c] # None /\ hpCalls'[c].step = "start" => hpCalls'[c].of \in listens'
      BY <2>1, <2>3 DEF AnswerTaken, HiProfiler!Go, HiProfiler!Done
    <3> QED BY <1>0, <1>4, <2>3, <2>5, <3>1 DEF StartsAreHeard
  <2> QED BY <2>3, <2>4, <2>5, <2>8, <2>9, <2>10, DeliveredKeeps DEF m
<1> QED BY <1>3, <1>6, <1>7, <1>8

-----------------------------------------------------------------------------
LEMMA HpEstablished ==
    ASSUME HpAssumption, HiProfiler!Init
    PROVE  HpInv
<1>1. /\ hpChannel = <<>> /\ listens = {} /\ own = {} /\ hpDevice \in Devices
      /\ hpStatus = [state |-> "idle", of |-> hpDevice]
      /\ hpCalls = [c \in HiProfilerCalls |-> None] /\ hpAsked = {hpDevice}
      /\ hpSession \in [Devices -> {"idle", "capturing", "waiting"}]
  BY DEF HiProfiler!Init
<1>2. hpChannel \in Seq([to : HiProfilerCalls \cup {"page", "event"}, of : Devices,
                       what : HiProfiler!States \cup {"yes", "no", "ok", "failed"}])
  BY <1>1
<1>3. Len(hpChannel) = 0 /\ ~\E i \in 1 .. Len(hpChannel) : TRUE
  BY <1>1
<1>4. HiProfiler!TypeOK
  <2>1. hpStatus \in [state : HiProfiler!States, of : Devices]
    BY <1>1 DEF HiProfiler!States
  <2> QED BY <1>1, <1>2, <2>1 DEF HiProfiler!TypeOK
<1>5. MailFits /\ TrueNews
  BY <1>3 DEF MailFits, TrueNews
<1>6. AskedAreCalls
  BY <1>1, CallsAreApart DEF AskedAreCalls
<1>7. TrueStatus
  BY <1>1 DEF TrueStatus
<1>8. HandlersEnd /\ StartsAreHeard
  BY <1>1 DEF HandlersEnd, StartsAreHeard
<1> QED BY <1>4, <1>5, <1>6, <1>7, <1>8 DEF HpInv

LEMMA HpPreserved ==
    ASSUME HpAssumption, HpInv, HiProfiler!Next
    PROVE  HpInv'
<1>1. ASSUME NEW c \in HiProfilerCalls, HiProfiler!Serve(c) \/ HiProfiler!PressStart(c) \/ HiProfiler!PressStop(c) PROVE HpInv'
  BY <1>1, CallServed, StartPressed, StopPressed
<1>2. ASSUME NEW d \in Devices, HiProfiler!ServeStatus(d) \/ HiProfiler!Backend(d) \/ HiProfiler!SelectDevice(d) PROVE HpInv'
  <2>1. CASE HiProfiler!SelectDevice(d)
    BY <2>1, DeviceSelected
  <2> QED BY <1>2, <2>1, StatusServed, BackendKeeps
<1> QED BY <1>1, <1>2, MessageDelivered DEF HiProfiler!Next

LEMMA HpStutters ==
    ASSUME HpInv, UNCHANGED hiProfilerVars
    PROVE  HpInv'
<1>1. /\ hpSession' = hpSession /\ hpChannel' = hpChannel /\ hpDevice' = hpDevice /\ hpStatus' = hpStatus
      /\ listens' = listens /\ hpCalls' = hpCalls /\ hpAsked' = hpAsked /\ own' = own
  BY DEF hiProfilerVars
<1>2. HiProfiler!TypeOK' /\ MailFits' /\ AskedAreCalls'
  BY <1>1 DEF HpInv, HiProfiler!TypeOK, MailFits, AskedAreCalls
<1>3. TrueNews' /\ TrueStatus' /\ HandlersEnd' /\ StartsAreHeard'
  BY <1>1 DEF HpInv, TrueNews, TrueStatus, HandlersEnd, StartsAreHeard
<1> QED BY <1>2, <1>3 DEF HpInv

LEMMA HpAtRest ==
    ASSUME HpAssumption, HpInv
    PROVE  HiProfiler!QuietPageAgrees /\ HiProfiler!OwnCapturesAreHeard
<1>1. ASSUME HiProfiler!Quiet, hpStatus.of = hpDevice, hpStatus.state # "error"
      PROVE  hpStatus.state = hpSession[hpDevice]
  <2>1. Len(hpChannel) = 0 /\ hpAsked = {} /\ \A c \in HiProfilerCalls : hpCalls[c] = None
    BY <1>1 DEF HiProfiler!Quiet
  <2>2. hpDevice \notin hpAsked /\ ~\E i \in 1 .. Len(hpChannel) : Tells(hpCalls, hpChannel[i], hpDevice)
    BY <2>1
  <2>3. hpStatus.state \notin {"starting", "stopping"}
    BY <2>1 DEF HpInv, HandlersEnd
  <2> QED BY <1>1, <2>2, <2>3 DEF HpInv, TrueStatus
<1>2. HiProfiler!QuietPageAgrees
  BY <1>1 DEF HiProfiler!QuietPageAgrees
<1>3. HiProfiler!OwnCapturesAreHeard
  BY DEF HiProfiler!OwnCapturesAreHeard, HpInv, StartsAreHeard
<1> QED BY <1>2, <1>3

HpHolds == part = "hiprofiler" => HpInv

LEMMA HpHoldsAlways == FrontSpec => []HpHolds
<1>1. HpAssumption
  BY FrontendAssumption DEF HpAssumption
<1>2. FrontInit => HpHolds
  BY <1>1, HpEstablished DEF FrontInit, HpHolds
<1>3. HpHolds /\ [FrontNext]_frontVars => HpHolds'
  <2> SUFFICES ASSUME HpHolds, [FrontNext]_frontVars, part' = "hiprofiler"
               PROVE  HpInv'
    BY DEF HpHolds
  <2>1. CASE FrontNext
    BY <1>1, <2>1, HpPreserved DEF FrontNext, HpHolds
  <2>2. CASE UNCHANGED frontVars
    BY <2>2, HpStutters DEF frontVars, HpHolds
  <2> QED BY <2>1, <2>2
<1> QED BY <1>2, <1>3, PTL DEF FrontSpec

(* When nothing is under way, a status of the selected device is what the    *)
(* backend does there, and the page hears the requests of every capture that *)
(* it started, for any devices, overlapping presses, messages under way and  *)
(* captures of other windows (NetworkCapturePage.tsx).                       *)
THEOREM HiProfilerPageShows == FrontSpec => []HiProfilerPageAgrees
<1>0. HpAssumption
  BY FrontendAssumption DEF HpAssumption
<1>1. HpHolds => HiProfilerPageAgrees
  BY <1>0, HpAtRest DEF HpHolds, HiProfilerPageAgrees
<1> QED BY <1>1, HpHoldsAlways, PTL

-----------------------------------------------------------------------------
(* Once there is a request the cache manager runs.                           *)
LEMMA ManagerTyped == FrontSpec => [](part = "store" => managed \in BOOLEAN)
<1>1. FrontInit => (part = "store" => managed \in BOOLEAN)
  BY DEF FrontInit, Store!Init
<1>2. ASSUME part = "store" => managed \in BOOLEAN, [FrontNext]_frontVars
      PROVE  (part = "store" => managed \in BOOLEAN)'
  <2>1. part' = part
    BY <1>2 DEF FrontNext, frontVars
  <2>2. ASSUME Store!Next PROVE managed' = managed \/ managed' = TRUE
    BY <2>2 DEF Store!Next, Store!Receive, Store!Disconnect, Store!DeleteSelected,
           Store!ClearRequests, Store!Recount, Store!CleanupCache
  <2>3. CASE FrontNext
    BY <1>2, <2>1, <2>2, <2>3 DEF FrontNext
  <2>4. CASE UNCHANGED frontVars
    BY <1>2, <2>1, <2>4 DEF frontVars, storeVars
  <2> QED BY <1>2, <2>3, <2>4
<1> QED BY <1>1, <1>2, PTL DEF FrontSpec

(* The variables of every part have their types, for any values of the       *)
(* constants.                                                                *)
THEOREM FrontTypeCorrectness == FrontSpec => []FrontTypeOK
<1>1. StreamsHold => (part = "streams" => Streams!TypeOK)
  BY DEF StreamsHold, StreamProofs!CurrentInv, StreamProofs!TypeOK, Streams!TypeOK,
         StreamProofs!HookRecord, Streams!HookRecord
<1>2. ViewHolds => (part = "view" => View!TypeOK)
  BY DEF ViewHolds, ViewInv, ViewProofs!ViewTypes, ViewProofs!TypeOK, View!TypeOK,
         ViewProofs!Entries, View!Entries, ViewProofs!Timers, View!Timers
<1>3. AppsHold => (part = "apps" => Apps!TypeOK)
  BY DEF AppsHold, AppsInv
<1>4. StoreHolds /\ (part = "store" => managed \in BOOLEAN)
        => (part = "store" => Store!TypeOK)
  BY DEF StoreHolds, StoreInv, Store!TypeOK
<1>5. PageHolds => (part = "android" => Android!TypeOK)
  BY DEF PageHolds, PageInv
<1>6. HpHolds => (part = "hiprofiler" => HiProfiler!TypeOK)
  BY DEF HpHolds, HpInv
<1>7. SelectionHolds => (part = "selection" => Selection!TypeOK)
  BY DEF SelectionHolds, SelectionInv
<1>8. ShellHolds => (part = "shell" => Shell!TypeOK)
  BY DEF ShellHolds, ShellInv
<1>9. /\ StreamsHold /\ ViewHolds /\ AppsHold /\ StoreHolds
      /\ PageHolds /\ HpHolds /\ SelectionHolds /\ ShellHolds
      /\ (part = "store" => managed \in BOOLEAN)
      => FrontTypeOK
  BY <1>1, <1>2, <1>3, <1>4, <1>5, <1>6, <1>7, <1>8 DEF FrontTypeOK
<1> QED
  BY <1>9, StreamsHoldAlways, ViewHoldsAlways, AppsHoldAlways, StoreHoldsAlways,
     PageHoldsAlways, HpHoldsAlways, SelectionHoldsAlways, ShellHoldsAlways,
     ManagerTyped, PTL
=============================================================================
