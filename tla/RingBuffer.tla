------------------------------ MODULE RingBuffer -----------------------------
(* The ring buffer of the log page (ring-buffer.ts): an array that is filled *)
(* from index 0 and then overwritten from its oldest slot on, a write head   *)
(* that only grows, and a size that stops at the capacity.                   *)
EXTENDS Integers, Sequences

CONSTANTS
    Items,
    Capacity,
    None,      \* undefined
    MaxPushes  \* bound: pushes between two calls of clear

ASSUME RingBufferAssumption ==
    /\ Capacity \in Nat \ {0}
    /\ None \notin Items
    /\ MaxPushes \in Nat

VARIABLES buffer, writeHead, size

ringVars == <<buffer, writeHead, size>>

Slots == 0..(Capacity - 1)

TypeOK ==
    /\ buffer \in [Slots -> Items \cup {None}]
    /\ writeHead \in Nat
    /\ size \in 0..Capacity

Init ==
    /\ buffer = [s \in Slots |-> None]
    /\ writeHead = 0
    /\ size = 0

\* Mutant: the head does not move on when the buffer is full.
PushInPlace(e) ==
    /\ writeHead < MaxPushes
    /\ buffer' = [buffer EXCEPT ![writeHead % Capacity] = e]
    /\ writeHead' = IF size < Capacity THEN writeHead + 1 ELSE writeHead
    /\ size' = IF size < Capacity THEN size + 1 ELSE size

Push(e) ==
    /\ writeHead < MaxPushes
    /\ buffer' = [buffer EXCEPT ![writeHead % Capacity] = e]
    /\ writeHead' = writeHead + 1
    /\ size' = IF size < Capacity THEN size + 1 ELSE size

\* Mutant: only what lies below the head is released.
ClearBelowHead ==
    /\ buffer' = [s \in Slots |->
                      IF s < writeHead % Capacity THEN None ELSE buffer[s]]
    /\ writeHead' = 0
    /\ size' = 0

Clear ==
    /\ buffer' = [s \in Slots |->
                      IF \E i \in (writeHead - size)..(writeHead - 1) :
                             s = i % Capacity
                      THEN None ELSE buffer[s]]
    /\ writeHead' = 0
    /\ size' = 0

Next == (\E e \in Items : Push(e)) \/ Clear

Spec == Init /\ [][Next]_ringVars

(* getEntries, oldest entry first; it would skip a slot that holds undefined.*)
GetEntries == [i \in 1..size |-> buffer[(writeHead - size + i - 1) % Capacity]]

-----------------------------------------------------------------------------
(* The slots of the window hold entries, never undefined, and all other      *)
(* slots are free: getEntries skips nothing, and a clear leaves no entry in  *)
(* the array that could be kept alive.                                       *)
WindowIsFull ==
    \A s \in Slots : (buffer[s] # None) <=>
        \E i \in (writeHead - size)..(writeHead - 1) : s = i % Capacity

(* Beyond the first Capacity pushes the buffer stays full.                   *)
SizeFollowsHead ==
    size = IF writeHead < Capacity THEN writeHead ELSE Capacity

RingInv == TypeOK /\ SizeFollowsHead /\ WindowIsFull

(* What a reader sees is a log that forgets its oldest entry when it is full *)
(* - the ring of the module LogView.                                         *)
Log == INSTANCE BoundedLog WITH log <- GetEntries

ImplementsBoundedLog == Log!Spec
=============================================================================
