--------------------------- MODULE RingBuffer_proofs --------------------------
(* Proofs about the ring buffer: its slots are those of its window, for      *)
(* every capacity, and what a reader gets is the bounded log.  The buffer    *)
(* computes slots modulo the capacity, so the proofs rest on four facts      *)
(* about %: two indices less than a capacity apart have different slots, and *)
(* two that are a capacity apart have the same.                              *)
EXTENDS RingBuffer, SequenceTheorems, TLAPS

LEMMA DivMod ==
    ASSUME NEW a \in Int, NEW c \in Nat \ {0}
    PROVE  /\ a % c \in 0..(c - 1)
           /\ a \div c \in Int
           /\ a = c * (a \div c) + (a % c)
  BY SMT

LEMMA Gap ==
    ASSUME NEW q \in Int, NEW c \in Nat \ {0}, c * q > 0, c * q < c
    PROVE  FALSE
<1>1. q > 0
  BY SMT
<1>2. c * q >= c
  BY <1>1, SMT
<1> QED BY <1>2, SMT

LEMMA ModInjective ==
    ASSUME NEW c \in Nat \ {0}, NEW a \in Int, NEW b \in Int,
           a < b, b < a + c
    PROVE  a % c # b % c
<1> DEFINE qa == a \div c
           qb == b \div c
<1>1. /\ a = c * qa + (a % c) /\ qa \in Int /\ a % c \in Int
      /\ b = c * qb + (b % c) /\ qb \in Int /\ b % c \in Int
  BY DivMod
<1> HIDE DEF qa, qb
<1>2. SUFFICES ASSUME a % c = b % c PROVE FALSE
  OBVIOUS
<1>3. PICK q \in Int : q = qb - qa
  BY <1>1
<1>4. c * q = c * qb - c * qa
  BY <1>1, <1>3, SMT
<1>5. c * q = b - a
  <2> DEFINE ca == c * qa
             cb == c * qb
             r  == a % c
  <2>1. ca \in Int /\ cb \in Int /\ r \in Int
    BY <1>1
  <2>2. a = ca + r /\ b = cb + r /\ c * q = cb - ca
    BY <1>1, <1>2, <1>4
  <2> HIDE DEF ca, cb, r
  <2> QED BY <2>1, <2>2
<1> QED BY <1>5, Gap, SMT

LEMMA ModUnique ==
    ASSUME NEW c \in Nat \ {0}, NEW a \in Int, NEW b \in Int, b = a + c
    PROVE  a % c = b % c
<1> DEFINE qa == a \div c
           qb == b \div c
           ca == c * qa
           cb == c * qb
           ra == a % c
           rb == b % c
<1>a. a = ca + ra /\ qa \in Int /\ ra \in 0..(c - 1)
  BY DivMod
<1>b. b = cb + rb /\ qb \in Int /\ rb \in 0..(c - 1)
  BY DivMod
<1>c. ca \in Int /\ cb \in Int
  BY <1>a, <1>b
<1>1. /\ a = ca + ra /\ qa \in Int /\ ra \in 0..(c - 1) /\ ca \in Int
      /\ b = cb + rb /\ qb \in Int /\ rb \in 0..(c - 1) /\ cb \in Int
  BY <1>a, <1>b, <1>c
<1>2. ca = c * qa /\ cb = c * qb
  OBVIOUS
<1> HIDE DEF qa, qb, ca, cb, ra, rb
<1>3. c * (qb - qa) = cb - ca /\ qb - qa \in Int
  BY <1>1, <1>2, SMT
<1>4. PICK q \in Int : q = qb - qa
  BY <1>3
<1>5. c * q = c + (ra - rb)
  BY <1>1, <1>3, <1>4, SMT
<1>6. ra - rb \in Int /\ ra - rb < c /\ rb - ra < c
  BY <1>1, SMT
<1>7. CASE ra = rb
  BY <1>7 DEF ra, rb
<1>8. CASE ra < rb
  <2>1. c * q > 0 /\ c * q < c
    BY <1>5, <1>6, <1>1, <1>8, SMT
  <2> QED BY <2>1, Gap
<1>9. CASE ra > rb
  <2>1. c * (q - 1) = c * q - c /\ q - 1 \in Int
    BY <1>4, SMT
  <2>2. PICK p \in Int : p = q - 1
    BY <2>1
  <2>3. c * p > 0 /\ c * p < c
    BY <2>1, <2>2, <1>5, <1>6, <1>1, <1>9, SMT
  <2> QED BY <2>3, Gap
<1> QED BY <1>1, <1>7, <1>8, <1>9, SMT

LEMMA ModSmall ==
    ASSUME NEW c \in Nat \ {0}, NEW a \in 0..(c - 1)
    PROVE  a % c = a
  BY SMT
-----------------------------------------------------------------------------
Window == (writeHead - size)..(writeHead - 1)

LEMMA SlotOfHead ==
    ASSUME TypeOK
    PROVE  \A i \in Int : i % Capacity \in Slots
  BY RingBufferAssumption, DivMod DEF Slots

LEMMA InitRingInv ==
    ASSUME Init
    PROVE  RingInv
<1>1. TypeOK
  BY RingBufferAssumption DEF Init, TypeOK
<1>2. SizeFollowsHead
  BY RingBufferAssumption DEF Init, SizeFollowsHead
<1>3. WindowIsFull
  BY RingBufferAssumption DEF Init, WindowIsFull
<1> QED BY <1>1, <1>2, <1>3 DEF RingInv

LEMMA PushType ==
    ASSUME RingInv, NEW e \in Items, Push(e)
    PROVE  TypeOK' /\ SizeFollowsHead'
<1>1. writeHead % Capacity \in Slots
  BY SlotOfHead DEF RingInv, TypeOK
<1>2. buffer' \in [Slots -> Items \cup {None}]
  BY <1>1 DEF RingInv, TypeOK, Push
<1>3. writeHead' \in Nat /\ size' \in 0..Capacity
  BY RingBufferAssumption DEF RingInv, TypeOK, Push
<1>4. SizeFollowsHead'
  BY RingBufferAssumption DEF RingInv, TypeOK, SizeFollowsHead, Push
<1> QED BY <1>2, <1>3, <1>4 DEF TypeOK

(* A push fills the slot of the write head.  When the buffer is full, that   *)
(* slot is the one of the oldest index, which leaves the window.             *)
LEMMA PushWindow ==
    ASSUME RingInv, NEW e \in Items, Push(e)
    PROVE  WindowIsFull'
<1> DEFINE w == writeHead % Capacity
<1>1. /\ writeHead \in Nat /\ size \in 0..Capacity /\ w \in Slots
      /\ Capacity \in Nat \ {0}
      /\ writeHead' = writeHead + 1
      /\ size' = (IF size < Capacity THEN size + 1 ELSE size)
  BY SlotOfHead, RingBufferAssumption DEF RingInv, TypeOK, Push
<1>2. buffer'[w] = e /\ e # None
  BY <1>1, RingBufferAssumption DEF RingInv, TypeOK, Push
<1>3. \A s \in Slots : s # w => buffer'[s] = buffer[s]
  BY <1>1 DEF RingInv, TypeOK, Push
<1>4. writeHead \in Window'
  BY <1>1 DEF Window
<1>5. Window' \subseteq Window \cup {writeHead}
  BY <1>1 DEF Window
<1>6. \A s \in Slots : (buffer'[s] # None) <=> \E i \in Window' : s = i % Capacity
  <2> TAKE s \in Slots
  <2>1. CASE s = w
    BY <2>1, <1>2, <1>4
  <2>2. CASE s # w
    <3>1. (buffer[s] # None) <=> \E i \in Window : s = i % Capacity
      BY DEF RingInv, WindowIsFull, Window
    <3>2. \A i \in Window : i \notin Window' => i % Capacity = w
      <4> TAKE i \in Window
      <4> HAVE i \notin Window'
      <4>1. i \in Int /\ writeHead \in Int /\ writeHead = i + Capacity
        BY <1>1 DEF Window
      <4>2. i % Capacity = writeHead % Capacity
        BY <4>1, RingBufferAssumption, ModUnique, Zenon
      <4> QED BY <4>2
    <3>3. (\E i \in Window : s = i % Capacity) <=> (\E i \in Window' : s = i % Capacity)
      BY <3>2, <2>2, <1>5
    <3> QED BY <3>1, <3>3, <2>2, <1>3
  <2> QED BY <2>1, <2>2
<1> QED BY <1>6 DEF WindowIsFull, Window

LEMMA ClearRingInv ==
    ASSUME RingInv, Clear
    PROVE  RingInv'
<1>1. /\ writeHead' = 0 /\ size' = 0
      /\ buffer' = [s \in Slots |-> IF \E i \in Window : s = i % Capacity
                                    THEN None ELSE buffer[s]]
  BY DEF Clear, Window
<1>2. \A s \in Slots : (buffer[s] # None) <=> \E i \in Window : s = i % Capacity
  BY DEF RingInv, WindowIsFull, Window
<1>3. \A s \in Slots : buffer'[s] = None
  BY <1>1, <1>2
<1>4. TypeOK'
  BY <1>1, RingBufferAssumption DEF RingInv, TypeOK
<1>5. SizeFollowsHead'
  BY <1>1, RingBufferAssumption DEF SizeFollowsHead
<1>6. ~\E i \in (writeHead' - size')..(writeHead' - 1) : TRUE
  BY <1>1
<1>7. WindowIsFull'
  BY <1>3, <1>6 DEF WindowIsFull
<1> QED BY <1>4, <1>5, <1>7 DEF RingInv

LEMMA NextRingInv ==
    ASSUME RingInv, [Next]_ringVars
    PROVE  RingInv'
<1>1. CASE \E e \in Items : Push(e)
  BY <1>1, PushType, PushWindow DEF RingInv
<1>2. CASE Clear
  BY <1>2, ClearRingInv
<1>3. CASE UNCHANGED ringVars
  BY <1>3 DEF ringVars, RingInv, TypeOK, SizeFollowsHead, WindowIsFull
<1> QED BY <1>1, <1>2, <1>3 DEF Next

(* For every capacity: the slots of the window hold entries and the others   *)
(* are free, however often the write head has gone round.                    *)
THEOREM RingInvariant == Spec => []RingInv
  BY InitRingInv, NextRingInv, PTL DEF Spec

-----------------------------------------------------------------------------
(* The refinement.                                                           *)

LEMMA PushIsLogPush ==
    ASSUME RingInv, NEW e \in Items, Push(e)
    PROVE  GetEntries' = Log!Pushed(GetEntries, e)
<1> DEFINE S == Items \cup {None}
           old == GetEntries
           new == GetEntries'
<1>1. /\ writeHead \in Nat /\ size \in 0..Capacity /\ Capacity \in Nat \ {0}
      /\ writeHead % Capacity \in Slots
      /\ writeHead' = writeHead + 1
      /\ size' = (IF size < Capacity THEN size + 1 ELSE size)
  BY SlotOfHead, RingBufferAssumption DEF RingInv, TypeOK, Push
<1>2. buffer'[writeHead % Capacity] = e
  BY <1>1 DEF RingInv, TypeOK, Push
<1>3. \A j \in Int : j < writeHead /\ writeHead < j + Capacity =>
          buffer'[j % Capacity] = buffer[j % Capacity]
  <2> TAKE j \in Int
  <2> HAVE j < writeHead /\ writeHead < j + Capacity
  <2>0. writeHead \in Int
    BY <1>1
  <2>1. j % Capacity # writeHead % Capacity
    BY <2>0, RingBufferAssumption, ModInjective, Zenon
  <2>2. j % Capacity \in Slots
    BY SlotOfHead DEF RingInv
  <2> QED BY <2>1, <2>2 DEF RingInv, TypeOK, Push
<1>4. old \in Seq(S) /\ Len(old) = size
  <2>1. \A i \in 1..size : buffer[(writeHead - size + i - 1) % Capacity] \in S
    BY SlotOfHead, <1>1 DEF RingInv, TypeOK
  <2> QED BY <2>1, <1>1 DEF GetEntries
<1>5. new \in Seq(S) /\ Len(new) = size'
  <2>1. buffer' \in [Slots -> S]
    BY <1>1 DEF RingInv, TypeOK, Push
  <2>2. \A i \in 1..size' : buffer'[(writeHead' - size' + i - 1) % Capacity] \in S
    BY <2>1, SlotOfHead, <1>1 DEF RingInv
  <2> QED BY <2>2, <1>1 DEF GetEntries
<1>6. \A i \in 1..size : old[i] = buffer[(writeHead - size + i - 1) % Capacity]
  BY DEF GetEntries
<1>7. \A i \in 1..size' : new[i] = buffer'[(writeHead + 1 - size' + i - 1) % Capacity]
  BY <1>1 DEF GetEntries
<1>8. size' \in Nat /\ new[size'] = e
  <2>1. size' \in 1..size' /\ writeHead + 1 - size' + size' - 1 = writeHead
    BY <1>1
  <2> QED BY <2>1, <1>7, <1>2
<1> HIDE DEF old, new, S
<1>9. CASE size < Capacity
  <2>1. \A i \in 1..size : new[i] = old[i]
    <3> TAKE i \in 1..size
    <3> DEFINE j == writeHead - size + i - 1
    <3>1. /\ j \in Int /\ j < writeHead /\ writeHead < j + Capacity
          /\ i \in 1..size' /\ writeHead + 1 - size' + i - 1 = j
      BY <1>1, <1>9
    <3> HIDE DEF j
    <3>2. new[i] = buffer'[j % Capacity]
      BY <3>1, <1>7
    <3>3. old[i] = buffer[j % Capacity]
      BY <1>6 DEF j
    <3> QED BY <3>1, <3>2, <3>3, <1>3
  <2>2. e \in S
    BY DEF S
  <2>3. Len(Append(old, e)) = Len(new) /\ Append(old, e) \in Seq(S)
        /\ \A i \in 1..Len(new) : Append(old, e)[i] = new[i]
    BY <2>1, <2>2, <1>4, <1>5, <1>8, <1>1, <1>9, AppendProperties
  <2>4. new = Append(old, e)
    BY <2>3, <1>5, SeqEqual
  <2> QED BY <2>4, <1>4, <1>9 DEF Log!Pushed, old, new
<1>10. CASE size = Capacity
  <2>0. old # <<>> /\ Tail(old) \in Seq(S) /\ Len(Tail(old)) = size - 1
        /\ \A i \in 1..(size - 1) : Tail(old)[i] = old[i + 1]
    BY <1>4, <1>10, <1>1, HeadTailProperties
  <2>1. \A i \in 1..(size - 1) : new[i] = Tail(old)[i]
    <3> TAKE i \in 1..(size - 1)
    <3> DEFINE j == writeHead - size + i
    <3>1. /\ j \in Int /\ j < writeHead /\ writeHead < j + Capacity
          /\ i \in 1..size' /\ writeHead + 1 - size' + i - 1 = j
          /\ i + 1 \in 1..size /\ writeHead - size + (i + 1) - 1 = j
      BY <1>1, <1>10
    <3> HIDE DEF j
    <3>2. new[i] = buffer'[j % Capacity]
      BY <3>1, <1>7
    <3>3. old[i + 1] = buffer[j % Capacity]
      BY <3>1, <1>6
    <3> QED BY <3>1, <3>2, <3>3, <1>3, <2>0
  <2>2. e \in S
    BY DEF S
  <2>3. Len(Append(Tail(old), e)) = Len(new) /\ Append(Tail(old), e) \in Seq(S)
        /\ \A i \in 1..Len(new) : Append(Tail(old), e)[i] = new[i]
    BY <2>0, <2>1, <2>2, <1>5, <1>8, <1>1, <1>10, AppendProperties
  <2>4. new = Append(Tail(old), e)
    BY <2>3, <1>5, SeqEqual
  <2> QED BY <2>4, <1>4, <1>10 DEF Log!Pushed, old, new
<1> QED BY <1>1, <1>9, <1>10

LEMMA ClearIsLogClear ==
    ASSUME RingInv, Clear
    PROVE  GetEntries' = <<>>
  BY DEF Clear, GetEntries

(* For every capacity, what getEntries returns is the last Capacity entries  *)
(* since the last clear, in the order of their arrival.                      *)
THEOREM RingImplementsLog == Spec => ImplementsBoundedLog
<1>1. Init => Log!Init
  BY DEF Init, Log!Init, GetEntries
<1>2. RingInv /\ [Next]_ringVars => [Log!Next]_GetEntries
  <2> SUFFICES ASSUME RingInv, [Next]_ringVars
               PROVE  [Log!Next]_GetEntries
    OBVIOUS
  <2>1. CASE \E e \in Items : Push(e)
    BY <2>1, PushIsLogPush DEF Log!Next, Log!Push
  <2>2. CASE Clear
    BY <2>2, ClearIsLogClear DEF Log!Next, Log!Clear
  <2>3. CASE UNCHANGED ringVars
    BY <2>3 DEF ringVars, GetEntries
  <2> QED BY <2>1, <2>2, <2>3 DEF Next
<1> QED BY <1>1, <1>2, RingInvariant, PTL DEF Spec, Log!Spec, ImplementsBoundedLog
=============================================================================
