---------------------------- MODULE LogView_proofs ----------------------------
(* The log page for any levels, filters and bounds.                          *)
(*                                                                           *)
(* NothingReturnsAfterAClear and TerminalInOrder hold because everything the *)
(* page shows or may still show is in order and no older than the last clear *)
(* (ViewOrder): of the results under way only that of the newest request is  *)
(* taken, and a clear moves the number of the newest request on.             *)
(*                                                                           *)
(* ListSettles follows from what is promised of the messages under way       *)
(* (Settling): a new filter reaches the worker before the request that is to *)
(* be judged by it, and unless a timer is set the newest request carries the *)
(* ring.                                                                     *)
(*                                                                           *)
(* What the recursive function behind Filtered returns is proved by          *)
(* induction: the set of lengths for which it is known is closed under       *)
(* successor, and the order of the naturals is well-founded.                 *)
EXTENDS LogView, WellFoundedInduction, SequenceTheorems, TLAPS

ViewAssumption ==
    /\ Filters \subseteq [levels : SUBSET Levels, hidden : SUBSET Levels]
    /\ Capacity \in Nat \ {0} /\ MaxEntries \in Nat /\ MaxRequests \in Nat

-----------------------------------------------------------------------------
(* Induction.                                                                *)

LEMMA LeastNatural ==
    ASSUME NEW T, T \subseteq Nat, T # {}
    PROVE  \E x \in T : \A y \in T : ~(y < x)
<1> DEFINE R == OpToRel(<, Nat)
<1>1. IsWellFoundedOn(R, Nat)
  BY NatLessThanWellFounded
<1>2. \A x, y \in Nat : <<y, x>> \in R <=> y < x
  BY DEF OpToRel
<1> HIDE DEF R
<1>3. \E x \in T : \A y \in T : ~ (<<y, x>> \in R)
  BY <1>1, WFMin
<1> QED BY <1>2, <1>3

(* A set that contains 0 and with each number the next one contains them all.*)
LEMMA SetInduction ==
    ASSUME NEW P, 0 \in P, \A n \in Nat : n \in P => n + 1 \in P
    PROVE  Nat \subseteq P
<1> SUFFICES ASSUME Nat \ P # {} PROVE FALSE
  OBVIOUS
<1>1. PICK x \in Nat \ P : \A y \in Nat \ P : ~(y < x)
  BY LeastNatural
<1>2. x # 0 /\ x - 1 \in Nat /\ x - 1 < x
  BY <1>1
<1>3. x - 1 \in P
  BY <1>1, <1>2
<1> QED BY <1>1, <1>2, <1>3

-----------------------------------------------------------------------------
(* What filtering does.                                                      *)

(* The recursion equation of Filtered, for prefixes up to n.                 *)
Keeps(g, n, s, f) ==
    g = [i \in 0 .. n |->
            IF i = 0 THEN <<>>
            ELSE IF Passes(s[i], f) THEN Append(g[i - 1], s[i])
            ELSE g[i - 1]]

LEMMA KeepsExists ==
    ASSUME NEW s, NEW f PROVE \A n \in Nat : \E g : Keeps(g, n, s, f)
<1> DEFINE P == {n \in Nat : \E g : Keeps(g, n, s, f)}
<1>1. 0 \in P
  <2> DEFINE g == [i \in 0 .. 0 |-> <<>>]
  <2>1. Keeps(g, 0, s, f)
    BY DEF Keeps
  <2> QED BY <2>1
<1>2. ASSUME NEW n \in Nat, n \in P PROVE n + 1 \in P
  <2>1. PICK g : Keeps(g, n, s, f)
    BY <1>2
  <2> DEFINE h == [i \in 0 .. n + 1 |->
                      IF i <= n THEN g[i]
                      ELSE IF Passes(s[i], f) THEN Append(g[n], s[i]) ELSE g[n]]
             H == [i \in 0 .. n + 1 |->
                      IF i = 0 THEN <<>>
                      ELSE IF Passes(s[i], f) THEN Append(h[i - 1], s[i])
                      ELSE h[i - 1]]
  <2>2. ASSUME NEW i \in 0 .. n + 1 PROVE h[i] = H[i]
    <3>1. CASE i = 0
      <4>1. h[i] = g[i]
        BY <3>1
      <4>2. g[i] = <<>>
        BY <2>1, <3>1 DEF Keeps
      <4> QED BY <3>1, <4>1, <4>2
    <3>2. CASE i \in 1 .. n
      <4>1. h[i] = g[i] /\ i - 1 \in 0 .. n + 1 /\ h[i - 1] = g[i - 1] /\ i # 0
        BY <3>2
      <4>2. i \in 0 .. n
        BY <3>2
      <4>3. g[i] = IF Passes(s[i], f) THEN Append(g[i - 1], s[i]) ELSE g[i - 1]
        BY <2>1, <4>1, <4>2 DEF Keeps
      <4> QED BY <4>1, <4>3
    <3>3. CASE i = n + 1
      <4>1. i # 0 /\ ~(i <= n) /\ i - 1 = n /\ n \in 0 .. n + 1 /\ n <= n
        BY <3>3
      <4>2. h[n] = g[n]
        BY <4>1
      <4> QED BY <4>1, <4>2
    <3> QED BY <3>1, <3>2, <3>3
  <2>3. h = H
    BY <2>2
  <2>4. Keeps(h, n + 1, s, f)
    BY <2>3 DEF Keeps
  <2> QED BY <2>4
<1> HIDE DEF P
<1>3. Nat \subseteq P
  BY <1>1, <1>2, SetInduction
<1> QED BY <1>3 DEF P

LEMMA FilteredKeeps ==
    ASSUME NEW s \in Seq(Entries), NEW f
    PROVE  \E g : Keeps(g, Len(s), s, f) /\ Filtered(s, f) = g[Len(s)]
<1> DEFINE kept == CHOOSE g : Keeps(g, Len(s), s, f)
<1>1. Filtered(s, f) = kept[Len(s)]
  BY DEF Filtered, Keeps
<1>2. Keeps(kept, Len(s), s, f)
  <2> Len(s) \in Nat
    OBVIOUS
  <2> QED BY KeepsExists
<1> HIDE DEF kept
<1> QED BY <1>1, <1>2

LEMMA FilteredEmpty == ASSUME NEW f PROVE Filtered(<<>>, f) = <<>>
<1>0. <<>> \in Seq(Entries)
  OBVIOUS
<1>1. PICK g : Keeps(g, Len(<<>>), <<>>, f) /\ Filtered(<<>>, f) = g[Len(<<>>)]
  BY <1>0, FilteredKeeps
<1>2. Len(<<>>) = 0 /\ 0 \in 0 .. 0
  OBVIOUS
<1> QED BY <1>1, <1>2 DEF Keeps

(* Entries in the order of their arrival.                                    *)
Rising(s) == \A i, j \in DOMAIN s : i < j => s[i].n < s[j].n

LEMMA FilteredPicks ==
    ASSUME NEW s \in Seq(Entries), NEW f
    PROVE  /\ Filtered(s, f) \in Seq(Entries)
           /\ \A i \in DOMAIN Filtered(s, f) :
                  \E k \in DOMAIN s : Filtered(s, f)[i] = s[k]
           /\ Rising(s) => Rising(Filtered(s, f))
<1>1. PICK g : Keeps(g, Len(s), s, f) /\ Filtered(s, f) = g[Len(s)]
  BY FilteredKeeps
<1> DEFINE Good(t, n) ==
               /\ t \in Seq(Entries)
               /\ \A i \in DOMAIN t : \E k \in 1 .. n : t[i] = s[k]
               /\ Rising(s) => Rising(t)
           P == {n \in Nat : n <= Len(s) => Good(g[n], n)}
<1>2. Len(s) \in Nat /\ DOMAIN s = 1 .. Len(s)
  OBVIOUS
<1>3. 0 \in P
  <2>1. g[0] = <<>>
    BY <1>1, <1>2 DEF Keeps
  <2>2. Good(<<>>, 0)
    BY DEF Rising
  <2> HIDE DEF Good
  <2> QED BY <2>1, <2>2
<1>4. ASSUME NEW n \in Nat, n \in P PROVE n + 1 \in P
  <2> SUFFICES ASSUME n + 1 <= Len(s) PROVE Good(g[n + 1], n + 1)
    OBVIOUS
  <2>1. Good(g[n], n)
    BY <1>2, <1>4
  <2>2. g[n + 1] = IF Passes(s[n + 1], f) THEN Append(g[n], s[n + 1]) ELSE g[n]
    <3>1. n + 1 \in 0 .. Len(s) /\ n + 1 # 0 /\ (n + 1) - 1 = n
      BY <1>2
    <3>2. g[n + 1] = IF Passes(s[n + 1], f) THEN Append(g[(n + 1) - 1], s[n + 1])
                     ELSE g[(n + 1) - 1]
      BY <1>1, <3>1 DEF Keeps
    <3> QED BY <3>1, <3>2
  <2> DEFINE t == g[n]
             e == s[n + 1]
  <2>3. n + 1 \in DOMAIN s /\ e \in Entries
    BY <1>2, ElementOfSeq
  <2>4. t \in Seq(Entries) /\ \A i \in DOMAIN t : \E k \in 1 .. n + 1 : t[i] = s[k]
    BY <2>1
  <2>5. CASE ~Passes(e, f)
    BY <2>1, <2>2, <2>4, <2>5
  <2>6. CASE Passes(e, f)
    <3>1. g[n + 1] = Append(t, e)
      BY <2>2, <2>6
    <3> DEFINE u == Append(t, e)
    <3>2. /\ u \in Seq(Entries) /\ Len(u) = Len(t) + 1 /\ u[Len(t) + 1] = e
          /\ \A i \in 1 .. Len(t) : u[i] = t[i]
          /\ Len(t) \in Nat /\ DOMAIN t = 1 .. Len(t) /\ DOMAIN u = 1 .. Len(t) + 1
      BY <2>3, <2>4, AppendProperties
    <3> HIDE DEF u, t
    <3>3. \A i \in DOMAIN u : \E k \in 1 .. n + 1 : u[i] = s[k]
      <4> SUFFICES ASSUME NEW i \in DOMAIN u PROVE \E k \in 1 .. n + 1 : u[i] = s[k]
        OBVIOUS
      <4>1. CASE i = Len(t) + 1
        BY <3>2, <4>1
      <4>2. CASE i \in DOMAIN t
        BY <2>4, <3>2, <4>2
      <4>3. i = Len(t) + 1 \/ i \in 1 .. Len(t)
        BY <3>2
      <4> QED BY <3>2, <4>1, <4>2, <4>3
    <3>4. ASSUME Rising(s) PROVE Rising(u)
      <4>1. Rising(t) /\ \A i \in DOMAIN t : \E k \in 1 .. n : t[i] = s[k]
        BY <2>1, <3>4 DEF t
      <4>2. \A i \in DOMAIN t : t[i].n < e.n
        <5> TAKE i \in DOMAIN t
        <5>1. PICK k \in 1 .. n : t[i] = s[k]
          BY <4>1
        <5>2. k \in DOMAIN s /\ k < n + 1
          BY <1>2
        <5> QED BY <2>3, <3>4, <5>1, <5>2 DEF Rising
      <4> SUFFICES ASSUME NEW i \in DOMAIN u, NEW j \in DOMAIN u, i < j
                   PROVE  u[i].n < u[j].n
        BY DEF Rising
      <4>3. i \in DOMAIN t /\ u[i] = t[i]
        BY <3>2
      <4>4. CASE j = Len(t) + 1
        BY <3>2, <4>2, <4>3, <4>4
      <4>5. CASE j \in DOMAIN t
        BY <3>2, <4>1, <4>3, <4>5 DEF Rising
      <4> QED BY <3>2, <4>4, <4>5
    <3> QED BY <3>1, <3>2, <3>3, <3>4 DEF u
  <2> QED BY <2>5, <2>6
<1> HIDE DEF P
<1>5. Nat \subseteq P
  BY <1>3, <1>4, SetInduction
<1>6. Good(g[Len(s)], Len(s))
  BY <1>2, <1>5 DEF P
<1> QED BY <1>1, <1>2, <1>6

-----------------------------------------------------------------------------
(* Sequences.                                                                *)

LEMMA AppendElements ==
    ASSUME NEW S, NEW q \in Seq(S), NEW m \in S
    PROVE  /\ Append(q, m) \in Seq(S) /\ Len(Append(q, m)) = Len(q) + 1
           /\ \A i \in DOMAIN Append(q, m) :
                  \/ i \in DOMAIN q /\ Append(q, m)[i] = q[i] /\ i # Len(q) + 1
                  \/ i = Len(q) + 1 /\ Append(q, m)[i] = m
           /\ \A i \in DOMAIN q :
                  i \in DOMAIN Append(q, m) /\ Append(q, m)[i] = q[i] /\ i < Len(q) + 1
           /\ Len(q) + 1 \in DOMAIN Append(q, m) /\ Append(q, m)[Len(q) + 1] = m
<1> DEFINE t == Append(q, m)
<1>1. /\ t \in Seq(S) /\ Len(t) = Len(q) + 1 /\ t[Len(q) + 1] = m
      /\ \A i \in 1 .. Len(q) : t[i] = q[i]
  BY AppendProperties
<1>2. DOMAIN t = 1 .. Len(q) + 1 /\ DOMAIN q = 1 .. Len(q) /\ Len(q) \in Nat
  BY <1>1, LenProperties
<1> HIDE DEF t
<1>3. \A i \in DOMAIN t : i \in 1 .. Len(q) \/ i = Len(q) + 1
  BY <1>2
<1>4. \A i \in 1 .. Len(q) : i \in DOMAIN t /\ i < Len(q) + 1 /\ i # Len(q) + 1
  BY <1>2
<1>5. Len(q) + 1 \in DOMAIN t
  BY <1>2
<1> QED BY <1>1, <1>2, <1>3, <1>4, <1>5 DEF t

LEMMA TailElements ==
    ASSUME NEW S, NEW q \in Seq(S), q # <<>>
    PROVE  /\ Head(q) = q[1] /\ Head(q) \in S /\ 1 \in DOMAIN q
           /\ Tail(q) \in Seq(S) /\ Len(Tail(q)) = Len(q) - 1
           /\ \A i \in DOMAIN Tail(q) : i + 1 \in DOMAIN q /\ Tail(q)[i] = q[i + 1]
           /\ \A i \in DOMAIN q : i # 1 => i - 1 \in DOMAIN Tail(q) /\ Tail(q)[i - 1] = q[i]
<1>1. /\ Head(q) = q[1] /\ Head(q) \in S /\ Tail(q) \in Seq(S)
      /\ Len(Tail(q)) = Len(q) - 1 /\ Len(q) \in Nat /\ Len(q) > 0
      /\ \A i \in 1 .. Len(Tail(q)) : Tail(q)[i] = q[i + 1]
  BY HeadTailProperties, LenProperties, EmptySeq
<1>2. DOMAIN q = 1 .. Len(q) /\ DOMAIN Tail(q) = 1 .. Len(q) - 1
  BY <1>1, LenProperties
<1>3. \A i \in 1 .. Len(q) - 1 : i + 1 \in 1 .. Len(q)
  BY <1>1
<1>4. \A i \in 1 .. Len(q) : i # 1 => i - 1 \in 1 .. Len(q) - 1 /\ (i - 1) + 1 = i
  BY <1>1
<1>5. 1 \in 1 .. Len(q)
  BY <1>1
<1> QED BY <1>1, <1>2, <1>3, <1>4, <1>5

(* Entries in order of arrival, with numbers in a range.                     *)
Within(s, lo, hi) ==
    Rising(s) /\ \A i \in DOMAIN s : lo <= s[i].n /\ s[i].n <= hi

LEMMA EntriesAreNumbered ==
    ASSUME ViewAssumption, NEW s \in Seq(Entries)
    PROVE  \A i \in DOMAIN s : s[i] \in Entries /\ s[i].n \in Nat
<1>1. \A e \in Entries : e.n \in 1 .. MaxEntries
  BY DEF Entries
<1>2. 1 .. MaxEntries \subseteq Nat
  BY DEF ViewAssumption
<1>3. \A i \in DOMAIN s : s[i] \in Entries
  BY LenProperties, ElementOfSeq
<1> QED BY <1>1, <1>2, <1>3

LEMMA EmptyWithin == \A lo, hi : Within(<<>>, lo, hi)
  BY DEF Within, Rising

LEMMA LaterWithin ==
    ASSUME ViewAssumption, NEW s \in Seq(Entries), NEW lo, NEW hi \in Nat, Within(s, lo, hi)
    PROVE  Within(s, lo, hi + 1)
<1>1. \A i \in DOMAIN s : s[i].n \in Nat
  BY EntriesAreNumbered
<1> QED BY <1>1 DEF Within

LEMMA FilteredWithin ==
    ASSUME NEW s \in Seq(Entries), NEW f, NEW lo, NEW hi, Within(s, lo, hi)
    PROVE  Within(Filtered(s, f), lo, hi)
  BY FilteredPicks DEF Within

LEMMA AppendWithin ==
    ASSUME ViewAssumption, NEW s \in Seq(Entries), NEW e \in Entries, NEW lo \in Nat, NEW hi \in Nat,
           Within(s, lo, hi), e.n = hi + 1, lo <= hi + 1
    PROVE  Within(Append(s, e), lo, hi + 1)
<1> DEFINE t == Append(s, e)
<1>1. \A i \in DOMAIN s : s[i].n \in Nat
  BY EntriesAreNumbered
<1>2. \A i \in DOMAIN t : \/ i \in DOMAIN s /\ t[i] = s[i]
                          \/ i = Len(s) + 1 /\ t[i] = e
  BY AppendElements
<1>3. \A i, j \in DOMAIN t : i < j => i \in DOMAIN s /\ t[i] = s[i]
  <2>1. DOMAIN t = 1 .. Len(s) + 1 /\ Len(s) \in Nat
    BY AppendElements, LenProperties
  <2> HIDE DEF t
  <2>2. \A i, j \in 1 .. Len(s) + 1 : i < j => i # Len(s) + 1
    BY <2>1
  <2> QED BY <1>2, <2>1, <2>2
<1> HIDE DEF t
<1>4. \A i \in DOMAIN t : lo <= t[i].n /\ t[i].n <= hi + 1
  BY <1>1, <1>2 DEF Within
<1>5. Rising(t)
  <2> SUFFICES ASSUME NEW i \in DOMAIN t, NEW j \in DOMAIN t, i < j
               PROVE  t[i].n < t[j].n
    BY DEF Rising
  <2>1. i \in DOMAIN s /\ t[i] = s[i] /\ s[i].n <= hi
    BY <1>3 DEF Within
  <2>2. CASE j \in DOMAIN s /\ t[j] = s[j]
    BY <2>1, <2>2 DEF Within, Rising
  <2>3. CASE t[j] = e
    BY <1>1, <2>1, <2>3
  <2> QED BY <1>2, <2>2, <2>3
<1> QED BY <1>4, <1>5 DEF Within, t

LEMMA TailWithin ==
    ASSUME NEW s \in Seq(Entries), s # <<>>, NEW lo, NEW hi, Within(s, lo, hi)
    PROVE  Within(Tail(s), lo, hi)
<1>1. \A i \in DOMAIN Tail(s) : i + 1 \in DOMAIN s /\ Tail(s)[i] = s[i + 1] /\ i \in Int
  <2>1. DOMAIN Tail(s) \subseteq Int
    BY TailElements, LenProperties
  <2> QED BY <2>1, TailElements
<1>2. \A i, j \in Int : i < j => i + 1 < j + 1
  OBVIOUS
<1> QED BY <1>1, <1>2 DEF Within, Rising

(* The first and the second part of a sequence in order are in order.        *)
LEMMA FirstWithin ==
    ASSUME NEW s \in Seq(Entries), NEW t \in Seq(Entries), NEW lo, NEW hi,
           Within(s \o t, lo, hi)
    PROVE  Within(s, lo, hi)
<1>1. /\ Len(s) \in Nat /\ Len(t) \in Nat /\ DOMAIN s = 1 .. Len(s)
      /\ DOMAIN (s \o t) = 1 .. Len(s) + Len(t)
  BY ConcatProperties, LenProperties
<1>2. 1 .. Len(s) \subseteq 1 .. Len(s) + Len(t) /\ \A i \in 1 .. Len(s) : i <= Len(s)
  BY <1>1
<1>3. \A i \in DOMAIN s : i \in DOMAIN (s \o t) /\ (s \o t)[i] = s[i]
  BY <1>1, <1>2, ConcatProperties
<1> QED BY <1>3 DEF Within, Rising

LEMMA RestWithin ==
    ASSUME NEW s \in Seq(Entries), NEW t \in Seq(Entries), NEW lo, NEW hi,
           Within(s \o t, lo, hi)
    PROVE  Within(t, lo, hi)
<1>1. /\ Len(s) \in Nat /\ Len(t) \in Nat /\ DOMAIN t = 1 .. Len(t)
      /\ DOMAIN (s \o t) = 1 .. Len(s) + Len(t)
  BY ConcatProperties, LenProperties
<1>2. ASSUME NEW i \in DOMAIN t
      PROVE  Len(s) + i \in DOMAIN (s \o t) /\ (s \o t)[Len(s) + i] = t[i]
  <2>1. Len(s) + i \in 1 .. Len(s) + Len(t) /\ Len(s) + i > Len(s)
        /\ (Len(s) + i) - Len(s) = i
    BY <1>1
  <2> QED BY <1>1, <2>1, ConcatProperties
<1>3. \A i, j \in DOMAIN t : i < j => Len(s) + i < Len(s) + j
  BY <1>1
<1> QED BY <1>2, <1>3 DEF Within, Rising

-----------------------------------------------------------------------------
(* Types.                                                                    *)

WorkerMessages ==
    [type : {"levels", "hidden"}, value : SUBSET Levels] \cup
    [type : {"filter"}, entries : Seq(Entries), id : Nat]

Results == [entries : Seq(Entries), id : Nat]

ViewTypes ==
    /\ TypeOK
    /\ toWorker \in Seq(WorkerMessages) /\ toPage \in Seq(Results)

Request(s, k) == [type |-> "filter", entries |-> s, id |-> k]

LEMMA MessageTypes ==
    /\ \A s \in Seq(Entries), k \in Nat :
          /\ Request(s, k) \in WorkerMessages /\ Request(s, k).type = "filter"
          /\ Request(s, k).entries = s /\ Request(s, k).id = k
    /\ \A part \in {"levels", "hidden"}, v \in SUBSET Levels :
          [type |-> part, value |-> v] \in WorkerMessages
    /\ \A s \in Seq(Entries), k \in Nat :
          [entries |-> s, id |-> k] \in Results
    /\ \A m \in WorkerMessages :
          /\ m.type = "filter" => m.entries \in Seq(Entries) /\ m.id \in Nat
          /\ m.type \in {"levels", "hidden"} => m.value \in SUBSET Levels
          /\ m.type \in {"filter", "levels", "hidden"}
    /\ \A r \in Results : r.entries \in Seq(Entries) /\ r.id \in Nat
<1> DEFINE S == Seq(Entries)
<1> HIDE DEF S
<1>1. \A s \in S, k \in Nat :
          /\ Request(s, k) \in
                [type : {"levels", "hidden"}, value : SUBSET Levels] \cup
                [type : {"filter"}, entries : S, id : Nat]
          /\ Request(s, k).type = "filter"
          /\ Request(s, k).entries = s /\ Request(s, k).id = k
  BY DEF Request
<1>2. \A m \in [type : {"levels", "hidden"}, value : SUBSET Levels] :
          m.type # "filter" /\ m.value \in SUBSET Levels /\ m.type \in {"levels", "hidden"}
  OBVIOUS
<1>3. \A m \in [type : {"filter"}, entries : S, id : Nat] :
          m.type = "filter" /\ m.entries \in S /\ m.id \in Nat
  OBVIOUS
<1>4. \A part \in {"levels", "hidden"}, v \in SUBSET Levels :
          [type |-> part, value |-> v] \in
             [type : {"levels", "hidden"}, value : SUBSET Levels]
  OBVIOUS
<1>5. \A s \in S, k \in Nat : [entries |-> s, id |-> k] \in [entries : S, id : Nat]
  OBVIOUS
<1>6. \A r \in [entries : S, id : Nat] : r.entries \in S /\ r.id \in Nat
  OBVIOUS
<1>7. \A m \in WorkerMessages :
          \/ m \in [type : {"levels", "hidden"}, value : SUBSET Levels]
          \/ m \in [type : {"filter"}, entries : S, id : Nat]
  BY DEF WorkerMessages, S
<1>8. \A m \in WorkerMessages :
          /\ m.type = "filter" => m.entries \in S /\ m.id \in Nat
          /\ m.type \in {"levels", "hidden"} => m.value \in SUBSET Levels
          /\ m.type \in {"filter", "levels", "hidden"}
  BY <1>2, <1>3, <1>7
<1>9. \A part \in {"levels", "hidden"}, v \in SUBSET Levels :
          [type |-> part, value |-> v] \in WorkerMessages
  BY <1>4 DEF WorkerMessages
<1> QED BY <1>1, <1>5, <1>6, <1>8, <1>9 DEF WorkerMessages, Results, S

LEMMA PushedTypes ==
    ASSUME ViewAssumption, NEW s \in Seq(Entries), Len(s) <= Capacity, NEW e \in Entries
    PROVE  /\ Pushed(s, e) \in Seq(Entries) /\ Len(Pushed(s, e)) <= Capacity
           /\ Pushed(s, e) # <<>>
<1>1. Capacity \in Nat /\ Capacity > 0 /\ Len(s) \in Nat
  BY LenProperties DEF ViewAssumption
<1>2. CASE Len(s) < Capacity
  <2>1. Append(s, e) \in Seq(Entries) /\ Len(Append(s, e)) = Len(s) + 1
    BY AppendProperties
  <2> QED BY <1>1, <1>2, <2>1, EmptySeq DEF Pushed
<1>3. CASE ~(Len(s) < Capacity)
  <2>1. s # <<>>
    BY <1>1, <1>3, EmptySeq
  <2>2. Tail(s) \in Seq(Entries) /\ Len(Tail(s)) = Len(s) - 1
    BY <2>1, TailElements
  <2>3. /\ Append(Tail(s), e) \in Seq(Entries)
        /\ Len(Append(Tail(s), e)) = Len(Tail(s)) + 1
    BY <2>2, AppendProperties
  <2> QED BY <1>1, <1>3, <2>2, <2>3, EmptySeq DEF Pushed
<1> QED BY <1>2, <1>3

(* A request of now, at the end of the queue q.                              *)
LEMMA AskTypes ==
    ASSUME ViewAssumption, ViewTypes, NEW q \in Seq(WorkerMessages), Ask(q)
    PROVE  /\ toWorker' = Append(q, Request(ring, request + 1))
           /\ Request(ring, request + 1) \in WorkerMessages
           /\ toWorker' \in Seq(WorkerMessages)
           /\ request' = request + 1 /\ request' \in 0 .. MaxRequests
           /\ request \in Nat
<1>1. request \in Nat /\ request + 1 \in 0 .. MaxRequests
  BY DEF ViewAssumption, ViewTypes, TypeOK, Ask
<1>2. toWorker' = Append(q, Request(ring, request + 1)) /\ request' = request + 1
  BY DEF Ask, Request
<1>3. Request(ring, request + 1) \in WorkerMessages
  BY <1>1, MessageTypes DEF ViewTypes, TypeOK
<1>4. Append(q, Request(ring, request + 1)) \in Seq(WorkerMessages)
  BY <1>3, AppendProperties
<1> QED BY <1>1, <1>2, <1>3, <1>4

LEMMA RefilterTypes ==
    ASSUME ViewAssumption, ViewTypes, NEW part \in {"levels", "hidden"},
           NEW f \in Filters, NEW left \in SUBSET Timers, Refilter(part, f, left)
    PROVE  /\ [type |-> part, value |-> f[part]] \in WorkerMessages
           /\ Append(toWorker, [type |-> part, value |-> f[part]])
                 \in Seq(WorkerMessages)
           /\ Ask(Append(toWorker, [type |-> part, value |-> f[part]]))
           /\ toWorker' \in Seq(WorkerMessages)
           /\ request' \in 0 .. MaxRequests
           /\ terminal' \in [open : BOOLEAN, lines : Seq(Entries)]
           /\ writes' \in Seq(Entries) /\ timers' \subseteq Timers
<1> DEFINE m == [type |-> part, value |-> f[part]]
<1>1. f[part] \in SUBSET Levels
  BY DEF ViewAssumption
<1>2. m \in WorkerMessages
  BY <1>1, MessageTypes
<1>3. Append(toWorker, m) \in Seq(WorkerMessages)
  BY <1>2, AppendProperties DEF ViewTypes
<1>4. Ask(Append(toWorker, m))
  BY DEF Refilter
<1>5. toWorker' \in Seq(WorkerMessages) /\ request' \in 0 .. MaxRequests
  BY <1>3, <1>4, AskTypes
<1>6. /\ terminal' \in [open : BOOLEAN, lines : Seq(Entries)]
      /\ writes' \in Seq(Entries)
  <2>1. Filtered(ring, f) \in Seq(Entries) /\ <<>> \in Seq(Entries)
    BY FilteredPicks DEF ViewTypes, TypeOK
  <2> QED BY <2>1 DEF Refilter, ViewTypes, TypeOK
<1>7. timers' \subseteq Timers
  BY DEF Refilter, FrameIf, Timers
<1> QED BY <1>2, <1>3, <1>4, <1>5, <1>6, <1>7

LEMMA InitTypes == ASSUME ViewAssumption, Init PROVE ViewTypes
<1>1. <<>> \in Seq(Entries) /\ Len(<<>>) = 0
  OBVIOUS
<1>2. <<>> \in Seq(WorkerMessages) /\ <<>> \in Seq(Results)
  OBVIOUS
<1>3. config \in [levels : SUBSET Levels, hidden : SUBSET Levels]
  BY DEF Init, ViewAssumption
<1>4. ring \in Seq(Entries) /\ Len(ring) <= Capacity /\ list \in Seq(Entries)
      /\ writes \in Seq(Entries)
  BY <1>1 DEF Init, ViewAssumption
<1>5. terminal \in [open : BOOLEAN, lines : Seq(Entries)]
  BY <1>1 DEF Init
<1>6. 0 \in 0..MaxEntries /\ 1 \in 1..(MaxEntries + 1) /\ 0 \in 0..MaxRequests
  BY DEF ViewAssumption
<1>7. received \in 0..MaxEntries /\ epoch \in 1..(MaxEntries + 1)
      /\ live \in BOOLEAN /\ filter \in Filters /\ request \in 0..MaxRequests
  BY <1>6 DEF Init
<1>8. timers \subseteq Timers
  BY DEF Init, Timers
<1> QED BY <1>2, <1>3, <1>4, <1>5, <1>7, <1>8 DEF Init, ViewTypes, TypeOK

LEMMA StepTypes ==
    ASSUME ViewAssumption, ViewTypes, [Next]_viewVars PROVE ViewTypes'
<1> USE DEF ViewTypes, TypeOK
<1>0. /\ <<>> \in Seq(Entries) /\ Len(<<>>) = 0 /\ 0 <= Capacity
      /\ \A f : Filtered(ring, f) \in Seq(Entries)
  BY FilteredPicks DEF ViewAssumption
<1>1. ASSUME NEW l \in Levels, Receive(l) PROVE ViewTypes'
  <2> DEFINE e == [n |-> received + 1, level |-> l]
             shown == terminal.open /\ "ingest" \notin timers /\ Passes(e, filter)
  <2>1. received' = received + 1 /\ received + 1 \in 1 .. MaxEntries
        /\ received + 1 \in 0 .. MaxEntries
    BY <1>1 DEF Receive, ViewAssumption
  <2>2. e \in Entries
    BY <2>1 DEF Entries
  <2>3. /\ ring' = Pushed(ring, e)
        /\ writes' = IF shown THEN Append(writes, e) ELSE writes
        /\ timers' = FrameIf(shown, timers \cup {"flush"})
        /\ UNCHANGED <<epoch, live, filter, list, request, toWorker, config, toPage,
                       terminal>>
    BY <1>1 DEF Receive
  <2> HIDE DEF e, shown
  <2>4. ring' \in Seq(Entries) /\ Len(ring') <= Capacity
    BY <2>2, <2>3, PushedTypes
  <2>5. Append(writes, e) \in Seq(Entries)
    BY <2>2, AppendProperties
  <2>6. timers' \subseteq Timers
    BY <2>3 DEF FrameIf, Timers
  <2> QED BY <2>1, <2>3, <2>4, <2>5, <2>6
<1>2. ASSUME WriteFrame PROVE ViewTypes'
  <2>1. terminal.lines \o writes \in Seq(Entries)
    BY ConcatProperties
  <2>2. terminal' \in [open : BOOLEAN, lines : Seq(Entries)] /\ writes' \in Seq(Entries)
    BY <1>0, <1>2, <2>1 DEF WriteFrame
  <2> QED BY <1>2, <2>2 DEF WriteFrame
<1>3. ASSUME Flush PROVE ViewTypes'
  <2>1. toWorker' \in Seq(WorkerMessages) /\ request' \in 0 .. MaxRequests
    <3>1. CASE ring # <<>>
      BY <1>3, <3>1, AskTypes DEF Flush
    <3>2. CASE ring = <<>>
      BY <1>3, <3>2 DEF Flush
    <3> QED BY <3>1, <3>2
  <2> QED BY <1>3, <2>1 DEF Flush
<1>4. ASSUME TakeResult PROVE ViewTypes'
  <2>1. Head(toPage) \in Results /\ Tail(toPage) \in Seq(Results)
    BY <1>4, HeadTailProperties DEF TakeResult
  <2>2. Head(toPage).entries \in Seq(Entries)
    BY <2>1, MessageTypes
  <2> QED BY <1>4, <2>1, <2>2 DEF TakeResult
<1>5. ASSUME ApplyLevels PROVE ViewTypes'
  <2>1. Refilter("levels", filter, timers \ {"debounce"})
    BY <1>5 DEF ApplyLevels
  <2>2. timers \ {"debounce"} \in SUBSET Timers
    OBVIOUS
  <2>3. /\ toWorker' \in Seq(WorkerMessages) /\ request' \in 0 .. MaxRequests
        /\ terminal' \in [open : BOOLEAN, lines : Seq(Entries)]
        /\ writes' \in Seq(Entries) /\ timers' \subseteq Timers
    BY <2>1, <2>2, RefilterTypes
  <2> QED BY <1>5, <2>3 DEF ApplyLevels
<1>6. ASSUME FillTerminal PROVE ViewTypes'
  <2>1. timers' \subseteq Timers
    BY <1>6 DEF FillTerminal, FrameIf, Timers
  <2>2. terminal' \in [open : BOOLEAN, lines : Seq(Entries)]
    BY <1>0, <1>6 DEF FillTerminal
  <2> QED BY <1>6, <2>1, <2>2 DEF FillTerminal
<1>7. ASSUME StartupReplay PROVE ViewTypes'
  <2>1. timers' \subseteq Timers
    BY <1>7 DEF StartupReplay, FrameIf, Timers
  <2>2. terminal' \in [open : BOOLEAN, lines : Seq(Entries)] /\ writes' \in Seq(Entries)
    BY <1>0, <1>7 DEF StartupReplay
  <2> QED BY <1>7, <2>1, <2>2 DEF StartupReplay
<1>8. ASSUME WorkerStep PROVE ViewTypes'
  <2> DEFINE m == Head(toWorker)
  <2>1. m \in WorkerMessages /\ toWorker' = Tail(toWorker)
        /\ Tail(toWorker) \in Seq(WorkerMessages)
    BY <1>8, HeadTailProperties DEF WorkerStep
  <2>2. /\ \/ /\ m.type = "levels"
              /\ config' = [config EXCEPT !.levels = m.value] /\ UNCHANGED toPage
           \/ /\ m.type = "hidden"
              /\ config' = [config EXCEPT !.hidden = m.value] /\ UNCHANGED toPage
           \/ /\ m.type = "filter"
              /\ toPage' = Append(toPage, [entries |-> Filtered(m.entries, config),
                                           id |-> m.id])
              /\ UNCHANGED config
        /\ UNCHANGED <<ring, received, epoch, live, filter, list, request, terminal,
                       writes, timers>>
    BY <1>8 DEF WorkerStep
  <2> HIDE DEF m
  <2>3. ASSUME m.type = "filter"
        PROVE  Append(toPage, [entries |-> Filtered(m.entries, config), id |-> m.id])
                  \in Seq(Results)
    <3>1. m.entries \in Seq(Entries) /\ m.id \in Nat
      BY <2>1, <2>3, MessageTypes
    <3>2. [entries |-> Filtered(m.entries, config), id |-> m.id] \in Results
      BY <3>1, FilteredPicks, MessageTypes
    <3> QED BY <3>2, AppendProperties
  <2>4. m.type \in {"levels", "hidden"} => m.value \in SUBSET Levels
    BY <2>1, MessageTypes
  <2>5. config' \in [levels : SUBSET Levels, hidden : SUBSET Levels]
        /\ toPage' \in Seq(Results)
    BY <2>2, <2>3, <2>4
  <2> QED BY <2>1, <2>2, <2>5
<1>9. ASSUME NEW f \in Filters, SetLevels(f) PROVE ViewTypes'
  BY <1>9 DEF SetLevels, Timers
<1>10. ASSUME NEW f \in Filters, SetRules(f) PROVE ViewTypes'
  <2>1. Refilter("hidden", f, timers) /\ timers \in SUBSET Timers
    BY <1>10 DEF SetRules
  <2>2. /\ toWorker' \in Seq(WorkerMessages) /\ request' \in 0 .. MaxRequests
        /\ terminal' \in [open : BOOLEAN, lines : Seq(Entries)]
        /\ writes' \in Seq(Entries) /\ timers' \subseteq Timers
    BY <2>1, RefilterTypes
  <2> QED BY <1>10, <2>2 DEF SetRules
<1>11. ASSUME ShowTerminal PROVE ViewTypes'
  BY <1>0, <1>11 DEF ShowTerminal, Timers
<1>12. ASSUME ShowList PROVE ViewTypes'
  BY <1>0, <1>12 DEF ShowList
<1>13. ASSUME NEW left \in SUBSET Timers, Cleared(left), live' \in BOOLEAN
       PROVE  ViewTypes'
  <2>1. received + 1 \in 1 .. (MaxEntries + 1) /\ request + 1 \in 0 .. MaxRequests
    BY <1>13 DEF Cleared, ViewAssumption
  <2>2. terminal' \in [open : BOOLEAN, lines : Seq(Entries)]
    BY <1>0, <1>13 DEF Cleared
  <2> QED BY <1>0, <1>13, <2>1, <2>2 DEF Cleared
<1>14. ASSUME Clear PROVE ViewTypes'
  BY <1>13, <1>14 DEF Clear
<1>15. ASSUME StartStream PROVE ViewTypes'
  <2>1. (timers \ {"frame", "flush"}) \cup {"ingest"} \in SUBSET Timers
    BY DEF Timers
  <2> QED BY <1>13, <1>15, <2>1 DEF StartStream
<1>16. ASSUME Pause PROVE ViewTypes'
  BY <1>16 DEF Pause
<1>17. CASE UNCHANGED viewVars
  BY <1>17 DEF viewVars
<1> QED BY <1>1, <1>2, <1>3, <1>4, <1>5, <1>6, <1>7, <1>8, <1>9, <1>10, <1>11,
           <1>12, <1>14, <1>15, <1>16, <1>17 DEF Next, PageSteps

-----------------------------------------------------------------------------
(* Everything that is shown or may still be shown is in order and no older   *)
(* than the last clear.                                                      *)

(* A request or result m, number k being the newest.                         *)
SoundMessage(m, k, lo, hi) ==
    m.id <= k /\ (m.id = k => Within(m.entries, lo, hi))

SoundRequests(q, k, lo, hi) ==
    \A i \in DOMAIN q : q[i].type = "filter" => SoundMessage(q[i], k, lo, hi)

SoundResults(q, k, lo, hi) == \A i \in DOMAIN q : SoundMessage(q[i], k, lo, hi)

ViewOrder ==
    /\ epoch <= received + 1
    /\ Within(ring, epoch, received) /\ Within(list, epoch, received)
    /\ Within(terminal.lines \o writes, epoch, received)
    /\ ~terminal.open => terminal.lines = <<>>
    /\ SoundRequests(toWorker, request, epoch, received)
    /\ SoundResults(toPage, request, epoch, received)

LEMMA MembersOfQueues ==
    /\ \A q \in Seq(WorkerMessages) : \A i \in DOMAIN q : q[i] \in WorkerMessages
    /\ \A q \in Seq(Results) : \A i \in DOMAIN q : q[i] \in Results
  BY ElementOfSeq, LenProperties

LEMMA LaterMessages ==
    ASSUME ViewAssumption, NEW k, NEW lo, NEW hi \in Nat
    PROVE  /\ \A q \in Seq(WorkerMessages) :
                 SoundRequests(q, k, lo, hi) => SoundRequests(q, k, lo, hi + 1)
           /\ \A q \in Seq(Results) :
                 SoundResults(q, k, lo, hi) => SoundResults(q, k, lo, hi + 1)
<1>1. \A s \in Seq(Entries) : Within(s, lo, hi) => Within(s, lo, hi + 1)
  BY LaterWithin
<1>2. \A m : m.entries \in Seq(Entries) /\ SoundMessage(m, k, lo, hi)
                => SoundMessage(m, k, lo, hi + 1)
  BY <1>1 DEF SoundMessage
<1>3. \A q \in Seq(WorkerMessages) : \A i \in DOMAIN q :
          q[i].type = "filter" => q[i].entries \in Seq(Entries)
  BY MembersOfQueues, MessageTypes
<1>4. \A q \in Seq(Results) : \A i \in DOMAIN q : q[i].entries \in Seq(Entries)
  BY MembersOfQueues, MessageTypes
<1> QED BY <1>2, <1>3, <1>4 DEF SoundRequests, SoundResults

(* A new number makes all messages old.                                      *)
LEMMA OldMessages ==
    ASSUME NEW k \in Nat, NEW lo, NEW hi, NEW low, NEW high
    PROVE  /\ \A q \in Seq(WorkerMessages) :
                 SoundRequests(q, k, lo, hi) => SoundRequests(q, k + 1, low, high)
           /\ \A q \in Seq(Results) :
                 SoundResults(q, k, lo, hi) => SoundResults(q, k + 1, low, high)
<1>1. \A m : m.id \in Nat /\ SoundMessage(m, k, lo, hi)
                => SoundMessage(m, k + 1, low, high)
  BY DEF SoundMessage
<1>2. \A q \in Seq(WorkerMessages) : \A i \in DOMAIN q :
          q[i].type = "filter" => q[i].id \in Nat
  BY MembersOfQueues, MessageTypes
<1>3. \A q \in Seq(Results) : \A i \in DOMAIN q : q[i].id \in Nat
  BY MembersOfQueues, MessageTypes
<1> QED BY <1>1, <1>2, <1>3 DEF SoundRequests, SoundResults

LEMMA AppendRequest ==
    ASSUME NEW k, NEW lo, NEW hi, NEW q \in Seq(WorkerMessages),
           NEW m \in WorkerMessages, SoundRequests(q, k, lo, hi),
           m.type = "filter" => SoundMessage(m, k, lo, hi)
    PROVE  SoundRequests(Append(q, m), k, lo, hi)
  BY AppendElements DEF SoundRequests

LEMMA AppendResult ==
    ASSUME NEW k, NEW lo, NEW hi, NEW q \in Seq(Results),
           NEW m \in Results, SoundResults(q, k, lo, hi), SoundMessage(m, k, lo, hi)
    PROVE  SoundResults(Append(q, m), k, lo, hi)
  BY AppendElements DEF SoundResults

LEMMA TailMessages ==
    ASSUME NEW k, NEW lo, NEW hi
    PROVE  /\ \A q \in Seq(WorkerMessages) :
                 q # <<>> /\ SoundRequests(q, k, lo, hi)
                    => /\ SoundRequests(Tail(q), k, lo, hi)
                       /\ Head(q).type = "filter" => SoundMessage(Head(q), k, lo, hi)
           /\ \A q \in Seq(Results) :
                 q # <<>> /\ SoundResults(q, k, lo, hi)
                    => SoundResults(Tail(q), k, lo, hi) /\ SoundMessage(Head(q), k, lo, hi)
<1>1. ASSUME NEW q \in Seq(WorkerMessages), q # <<>>, SoundRequests(q, k, lo, hi)
      PROVE  /\ SoundRequests(Tail(q), k, lo, hi)
             /\ Head(q).type = "filter" => SoundMessage(Head(q), k, lo, hi)
  BY <1>1, TailElements DEF SoundRequests
<1>2. ASSUME NEW q \in Seq(Results), q # <<>>, SoundResults(q, k, lo, hi)
      PROVE  SoundResults(Tail(q), k, lo, hi) /\ SoundMessage(Head(q), k, lo, hi)
  BY <1>2, TailElements DEF SoundResults
<1> QED BY <1>1, <1>2

LEMMA PushedWithin ==
    ASSUME ViewAssumption, NEW s \in Seq(Entries), Len(s) <= Capacity,
           NEW e \in Entries, NEW lo \in Nat, NEW hi \in Nat,
           Within(s, lo, hi), e.n = hi + 1, lo <= hi + 1
    PROVE  Within(Pushed(s, e), lo, hi + 1)
<1>1. CASE Len(s) < Capacity
  <2>1. Within(Append(s, e), lo, hi + 1)
    BY AppendWithin
  <2> QED BY <1>1, <2>1 DEF Pushed
<1>2. CASE ~(Len(s) < Capacity)
  <2>1. s # <<>>
    BY <1>2, EmptySeq DEF ViewAssumption
  <2>2. Tail(s) \in Seq(Entries) /\ Within(Tail(s), lo, hi)
    BY <2>1, TailElements, TailWithin
  <2>3. Within(Append(Tail(s), e), lo, hi + 1)
    BY <2>2, AppendWithin
  <2> QED BY <1>2, <2>3 DEF Pushed
<1> QED BY <1>1, <1>2

(* Concatenation.                                                            *)
LEMMA Concatenations ==
    /\ \A s \in Seq(Entries) : s \o <<>> = s /\ <<>> \o s = s
    /\ \A s, t \in Seq(Entries), e \in Entries :
          /\ s \o t \in Seq(Entries)
          /\ s \o Append(t, e) = Append(s \o t, e)
  OBVIOUS

LEMMA AskOrder ==
    ASSUME ViewAssumption, ViewTypes, ViewOrder, NEW q \in Seq(WorkerMessages),
           SoundRequests(q, request, epoch, received), Ask(q)
    PROVE  /\ SoundRequests(toWorker', request', epoch, received)
           /\ SoundResults(toPage, request', epoch, received)
<1> DEFINE m == Request(ring, request + 1)
<1>1. /\ toWorker' = Append(q, m) /\ m \in WorkerMessages
      /\ request' = request + 1 /\ request \in Nat
  BY AskTypes
<1>2. m.id = request + 1 /\ m.entries = ring
  BY <1>1, MessageTypes DEF ViewTypes, TypeOK
<1> HIDE DEF m
<1>3. SoundMessage(m, request + 1, epoch, received)
  BY <1>1, <1>2 DEF SoundMessage, ViewOrder
<1>4. SoundRequests(q, request + 1, epoch, received)
  BY <1>1, OldMessages
<1>5. SoundRequests(Append(q, m), request + 1, epoch, received)
  BY <1>1, <1>3, <1>4, AppendRequest
<1>6. SoundResults(toPage, request + 1, epoch, received)
  BY <1>1, OldMessages DEF ViewOrder, ViewTypes
<1> QED BY <1>1, <1>5, <1>6

LEMMA RefilledWithin ==
    ASSUME ViewTypes, ViewOrder, NEW s \in Seq(Entries), Within(s, epoch, received),
           \/ terminal' = [terminal EXCEPT !.lines = <<>>] /\ writes' = s
           \/ UNCHANGED <<terminal, writes>>
    PROVE  /\ Within(terminal'.lines \o writes', epoch, received)
           /\ ~terminal'.open => terminal'.lines = <<>>
<1>1. terminal \in [open : BOOLEAN, lines : Seq(Entries)]
  BY DEF ViewTypes, TypeOK
<1>2. CASE terminal' = [terminal EXCEPT !.lines = <<>>] /\ writes' = s
  <2>1. terminal'.lines = <<>>
    BY <1>1, <1>2
  <2> QED BY <1>2, <2>1, Concatenations
<1>3. CASE UNCHANGED <<terminal, writes>>
  BY <1>3 DEF ViewOrder
<1> QED BY <1>2, <1>3

LEMMA RefilterOrder ==
    ASSUME ViewAssumption, ViewTypes, ViewOrder, NEW part \in {"levels", "hidden"},
           NEW f \in Filters, NEW left \in SUBSET Timers, Refilter(part, f, left)
    PROVE  /\ SoundRequests(toWorker', request', epoch, received)
           /\ SoundResults(toPage, request', epoch, received)
           /\ Within(terminal'.lines \o writes', epoch, received)
           /\ ~terminal'.open => terminal'.lines = <<>>
<1> DEFINE m == [type |-> part, value |-> f[part]]
<1>1. m \in WorkerMessages /\ m.type # "filter"
      /\ Append(toWorker, m) \in Seq(WorkerMessages)
      /\ Ask(Append(toWorker, m))
  BY RefilterTypes
<1> HIDE DEF m
<1>2. SoundRequests(Append(toWorker, m), request, epoch, received)
  BY <1>1, AppendRequest DEF ViewTypes, ViewOrder
<1>3. Within(Filtered(ring, f), epoch, received) /\ Filtered(ring, f) \in Seq(Entries)
  BY FilteredWithin, FilteredPicks DEF ViewTypes, TypeOK, ViewOrder
<1>4. \/ terminal' = [terminal EXCEPT !.lines = <<>>] /\ writes' = Filtered(ring, f)
      \/ UNCHANGED <<terminal, writes>>
  BY DEF Refilter
<1>5. Within(terminal'.lines \o writes', epoch, received)
      /\ (~terminal'.open => terminal'.lines = <<>>)
  BY <1>3, <1>4, RefilledWithin
<1> QED BY <1>1, <1>2, <1>5, AskOrder

LEMMA InitOrder == ASSUME ViewAssumption, Init PROVE ViewOrder
<1>1. <<>> \o <<>> = <<>> /\ DOMAIN <<>> = {}
  OBVIOUS
<1>2. Within(terminal.lines \o writes, epoch, received)
  BY <1>1, EmptyWithin DEF Init
<1>3. SoundRequests(toWorker, request, epoch, received)
      /\ SoundResults(toPage, request, epoch, received)
  BY <1>1 DEF Init, SoundRequests, SoundResults
<1> QED BY <1>2, <1>3, EmptyWithin DEF Init, ViewOrder

LEMMA StepOrder ==
    ASSUME ViewAssumption, ViewTypes, ViewOrder, [Next]_viewVars PROVE ViewOrder'
<1>0. /\ epoch \in Nat /\ received \in Nat /\ request \in Nat
      /\ ring \in Seq(Entries) /\ list \in Seq(Entries) /\ writes \in Seq(Entries)
      /\ terminal \in [open : BOOLEAN, lines : Seq(Entries)]
      /\ toWorker \in Seq(WorkerMessages) /\ toPage \in Seq(Results)
      /\ <<>> \in Seq(Entries) /\ Within(<<>>, epoch, received)
      /\ terminal.lines \in Seq(Entries)
      /\ Within(writes, epoch, received)
  <2>1. terminal.lines \in Seq(Entries)
    BY DEF ViewTypes, TypeOK
  <2>2. Within(writes, epoch, received)
    BY <2>1, RestWithin DEF ViewTypes, TypeOK, ViewOrder
  <2>3. epoch \in Nat /\ received \in Nat /\ request \in Nat
    BY DEF ViewTypes, TypeOK, ViewAssumption
  <2> QED BY <2>1, <2>2, <2>3, EmptyWithin DEF ViewTypes, TypeOK
<1>1. ASSUME NEW l \in Levels, Receive(l) PROVE ViewOrder'
  <2> DEFINE e == [n |-> received + 1, level |-> l]
             shown == terminal.open /\ "ingest" \notin timers /\ Passes(e, filter)
  <2>1. received' = received + 1 /\ received + 1 \in 1 .. MaxEntries
    BY <1>0, <1>1 DEF Receive, ViewAssumption
  <2>2. e \in Entries /\ e.n = received + 1
    BY <2>1 DEF Entries
  <2>3. /\ ring' = Pushed(ring, e)
        /\ writes' = IF shown THEN Append(writes, e) ELSE writes
        /\ UNCHANGED <<epoch, live, filter, list, request, toWorker, config, toPage,
                       terminal>>
    BY <1>1 DEF Receive
  <2> HIDE DEF e, shown
  <2>4. Within(ring', epoch', received')
    BY <1>0, <2>1, <2>2, <2>3, PushedWithin DEF ViewOrder, ViewTypes, TypeOK
  <2>5. Within(list', epoch', received')
    BY <1>0, <2>1, <2>3, LaterWithin DEF ViewOrder
  <2>6. Within(terminal'.lines \o writes', epoch', received')
    <3> DEFINE t == terminal.lines \o writes
    <3>1. t \in Seq(Entries) /\ Within(t, epoch, received)
      BY <1>0, Concatenations DEF ViewOrder
    <3>2. terminal.lines \o Append(writes, e) = Append(t, e)
      BY <1>0, <2>2, Concatenations
    <3> HIDE DEF t
    <3>3. Within(t, epoch, received + 1)
      BY <1>0, <3>1, LaterWithin
    <3>4. Within(Append(t, e), epoch, received + 1)
      BY <1>0, <2>2, <3>1, AppendWithin DEF ViewOrder
    <3> QED BY <2>1, <2>3, <3>2, <3>3, <3>4 DEF t
  <2>7. SoundRequests(toWorker', request', epoch', received')
        /\ SoundResults(toPage', request', epoch', received')
    BY <1>0, <2>1, <2>3, LaterMessages DEF ViewOrder
  <2> QED BY <1>0, <2>1, <2>3, <2>4, <2>5, <2>6, <2>7 DEF ViewOrder
<1>2. ASSUME WriteFrame PROVE ViewOrder'
  <2>1. terminal.lines \o writes \in Seq(Entries)
    BY <1>0, Concatenations
  <2>2. CASE terminal.open
    <3>1. terminal'.lines = terminal.lines \o writes /\ writes' = <<>> /\ terminal'.open
      BY <1>0, <1>2, <2>2 DEF WriteFrame
    <3>2. Within(terminal'.lines \o writes', epoch, received)
      BY <2>1, <3>1, Concatenations DEF ViewOrder
    <3> QED BY <1>2, <3>1, <3>2 DEF WriteFrame, ViewOrder
  <2>3. CASE ~terminal.open
    BY <1>2, <2>3 DEF WriteFrame, ViewOrder
  <2> QED BY <2>2, <2>3
<1>3. ASSUME Flush PROVE ViewOrder'
  <2>1. CASE ring # <<>>
    <3>1. Ask(toWorker)
      BY <1>3, <2>1 DEF Flush
    <3>2. SoundRequests(toWorker', request', epoch, received)
          /\ SoundResults(toPage, request', epoch, received)
      BY <1>0, <3>1, AskOrder DEF ViewOrder
    <3> QED BY <1>3, <3>2 DEF Flush, ViewOrder
  <2>2. CASE ring = <<>>
    BY <1>3, <2>2 DEF Flush, ViewOrder
  <2> QED BY <2>1, <2>2
<1>4. ASSUME TakeResult PROVE ViewOrder'
  <2>1. SoundResults(Tail(toPage), request, epoch, received)
        /\ SoundMessage(Head(toPage), request, epoch, received)
    BY <1>0, <1>4, TailMessages DEF TakeResult, ViewOrder
  <2>2. Within(list', epoch, received)
    BY <1>4, <2>1 DEF TakeResult, SoundMessage, ViewOrder
  <2> QED BY <1>4, <2>1, <2>2 DEF TakeResult, ViewOrder
<1>5. ASSUME ApplyLevels PROVE ViewOrder'
  <2>1. Refilter("levels", filter, timers \ {"debounce"})
        /\ filter \in Filters /\ timers \ {"debounce"} \in SUBSET Timers
    BY <1>5 DEF ApplyLevels, ViewTypes, TypeOK
  <2>2. /\ SoundRequests(toWorker', request', epoch, received)
        /\ SoundResults(toPage, request', epoch, received)
        /\ Within(terminal'.lines \o writes', epoch, received)
        /\ ~terminal'.open => terminal'.lines = <<>>
    BY <2>1, RefilterOrder
  <2> QED BY <1>5, <2>2 DEF ApplyLevels, ViewOrder
<1>6. ASSUME FillTerminal PROVE ViewOrder'
  <2>1. terminal'.lines = <<>> /\ writes' = list
    BY <1>0, <1>6 DEF FillTerminal
  <2>2. Within(terminal'.lines \o writes', epoch, received)
    BY <1>0, <2>1, Concatenations DEF ViewOrder
  <2> QED BY <1>6, <2>1, <2>2 DEF FillTerminal, ViewOrder
<1>7. ASSUME StartupReplay PROVE ViewOrder'
  <2>1. Within(Filtered(ring, filter), epoch, received)
        /\ Filtered(ring, filter) \in Seq(Entries)
    BY <1>0, FilteredWithin, FilteredPicks DEF ViewOrder
  <2>2. \/ terminal' = [terminal EXCEPT !.lines = <<>>]
           /\ writes' = Filtered(ring, filter)
        \/ UNCHANGED <<terminal, writes>>
    BY <1>7 DEF StartupReplay
  <2>3. Within(terminal'.lines \o writes', epoch, received)
        /\ (~terminal'.open => terminal'.lines = <<>>)
    BY <2>1, <2>2, RefilledWithin
  <2> QED BY <1>7, <2>3 DEF StartupReplay, ViewOrder
<1>8. ASSUME WorkerStep PROVE ViewOrder'
  <2> DEFINE m == Head(toWorker)
  <2>1. /\ m \in WorkerMessages /\ toWorker' = Tail(toWorker)
        /\ SoundRequests(Tail(toWorker), request, epoch, received)
        /\ m.type = "filter" => SoundMessage(m, request, epoch, received)
    BY <1>0, <1>8, TailElements, TailMessages DEF WorkerStep, ViewOrder
  <2>2. /\ \/ m.type # "filter" /\ UNCHANGED toPage
           \/ /\ m.type = "filter"
              /\ toPage' = Append(toPage, [entries |-> Filtered(m.entries, config),
                                           id |-> m.id])
        /\ UNCHANGED <<ring, received, epoch, live, filter, list, request, terminal,
                       writes, timers>>
    BY <1>8 DEF WorkerStep
  <2> HIDE DEF m
  <2>3. ASSUME m.type = "filter"
        PROVE  SoundResults(Append(toPage, [entries |-> Filtered(m.entries, config),
                                            id |-> m.id]), request, epoch, received)
    <3> DEFINE r == [entries |-> Filtered(m.entries, config), id |-> m.id]
    <3>1. m.entries \in Seq(Entries) /\ m.id \in Nat
      BY <2>1, <2>3, MessageTypes
    <3>2. r \in Results /\ r.entries = Filtered(m.entries, config) /\ r.id = m.id
      BY <3>1, FilteredPicks, MessageTypes
    <3> HIDE DEF r
    <3>3. SoundMessage(r, request, epoch, received)
      BY <2>1, <2>3, <3>1, <3>2, FilteredWithin DEF SoundMessage
    <3>4. SoundResults(Append(toPage, r), request, epoch, received)
      BY <1>0, <3>2, <3>3, AppendResult DEF ViewOrder
    <3> QED BY <3>4 DEF r
  <2> QED BY <2>1, <2>2, <2>3 DEF ViewOrder
<1>9. ASSUME NEW f \in Filters, SetLevels(f) PROVE ViewOrder'
  BY <1>9 DEF SetLevels, ViewOrder
<1>10. ASSUME NEW f \in Filters, SetRules(f) PROVE ViewOrder'
  <2>1. Refilter("hidden", f, timers) /\ timers \in SUBSET Timers
    BY <1>10 DEF SetRules, ViewTypes, TypeOK
  <2>2. /\ SoundRequests(toWorker', request', epoch, received)
        /\ SoundResults(toPage, request', epoch, received)
        /\ Within(terminal'.lines \o writes', epoch, received)
        /\ ~terminal'.open => terminal'.lines = <<>>
    BY <2>1, RefilterOrder
  <2> QED BY <1>10, <2>2 DEF SetRules, ViewOrder
<1>11. ASSUME ShowTerminal \/ ShowList PROVE ViewOrder'
  <2>1. terminal'.lines = <<>> /\ UNCHANGED <<ring, received, epoch, list, request,
                                              toWorker, toPage, writes>>
    BY <1>11 DEF ShowTerminal, ShowList
  <2>2. Within(terminal'.lines \o writes', epoch, received)
    BY <1>0, <2>1, Concatenations
  <2> QED BY <2>1, <2>2 DEF ViewOrder
<1>12. ASSUME NEW left, Cleared(left) PROVE ViewOrder'
  <2>1. /\ terminal'.lines = <<>> /\ writes' = <<>> /\ ring' = <<>> /\ list' = <<>>
        /\ epoch' = received + 1 /\ request' = request + 1
        /\ UNCHANGED <<received, toWorker, toPage>>
    BY <1>0, <1>12 DEF Cleared
  <2>2. Within(terminal'.lines \o writes', epoch', received')
    BY <1>0, <2>1, Concatenations, EmptyWithin
  <2>3. SoundRequests(toWorker', request', epoch', received')
        /\ SoundResults(toPage', request', epoch', received')
    BY <1>0, <2>1, OldMessages DEF ViewOrder
  <2> QED BY <1>0, <2>1, <2>2, <2>3, EmptyWithin DEF ViewOrder
<1>13. ASSUME Clear \/ StartStream PROVE ViewOrder'
  BY <1>12, <1>13 DEF Clear, StartStream
<1>14. ASSUME Pause PROVE ViewOrder'
  BY <1>14 DEF Pause, ViewOrder
<1>15. CASE UNCHANGED viewVars
  BY <1>15 DEF viewVars, ViewOrder
<1> QED BY <1>1, <1>2, <1>3, <1>4, <1>5, <1>6, <1>7, <1>8, <1>9, <1>10, <1>11,
           <1>13, <1>14, <1>15 DEF Next, PageSteps

-----------------------------------------------------------------------------
(* What was there before the last clear is shown neither by the list nor by  *)
(* the terminal, and is not about to be (clearLogs, useFilterPipeline.ts).   *)

LEMMA OrderedViewForgets ==
    ASSUME ViewAssumption, ViewTypes, ViewOrder PROVE NothingReturnsAfterAClear
<1>1. /\ list \in Seq(Entries) /\ writes \in Seq(Entries)
      /\ terminal.lines \in Seq(Entries)
      /\ epoch \in Nat /\ received \in Nat
  BY DEF ViewTypes, TypeOK, ViewAssumption
<1>2. Within(terminal.lines, epoch, received) /\ Within(writes, epoch, received)
  BY <1>1, FirstWithin, RestWithin DEF ViewOrder
<1>3. ASSUME NEW s \in Seq(Entries), Within(s, epoch, received), NEW e \in ToSet(s)
      PROVE  e.n >= epoch
  <2>1. PICK i \in DOMAIN s : e = s[i]
    BY <1>3 DEF ToSet
  <2>2. s[i].n \in Nat /\ epoch <= s[i].n
    BY <1>3, EntriesAreNumbered DEF Within
  <2> QED BY <1>1, <2>1, <2>2
<1> QED BY <1>1, <1>2, <1>3 DEF NothingReturnsAfterAClear, ViewOrder

LEMMA OrderedViewIsInOrder ==
    ASSUME ViewTypes, ViewOrder PROVE TerminalInOrder
<1>1. CASE terminal.open
  BY <1>1 DEF TerminalInOrder, ViewOrder, Within, Rising
<1>2. CASE ~terminal.open
  <2>1. terminal.lines \o <<>> = <<>> /\ DOMAIN <<>> = {}
    BY <1>2, Concatenations DEF ViewOrder
  <2> QED BY <1>2, <2>1 DEF TerminalInOrder
<1> QED BY <1>1, <1>2

LEMMA ViewInvariance ==
    ASSUME ViewAssumption PROVE Spec => [](ViewTypes /\ ViewOrder)
<1>1. Init => ViewTypes /\ ViewOrder
  BY InitTypes, InitOrder
<1>2. ViewTypes /\ ViewOrder /\ [Next]_viewVars => (ViewTypes /\ ViewOrder)'
  BY StepTypes, StepOrder
<1> QED BY <1>1, <1>2, PTL DEF Spec

(* The variables of the log page have their types; the buffer is bounded.    *)
THEOREM ViewTypeCorrectness == ASSUME ViewAssumption PROVE Spec => []TypeOK
<1>1. ViewTypes => TypeOK
  BY DEF ViewTypes
<1> QED BY <1>1, ViewInvariance, PTL

(* A clear is final: no entry from before it is in the list, in the terminal *)
(* or on its way there, whatever the worker was doing (clearLogs,            *)
(* useFilterPipeline.ts).                                                    *)
THEOREM ClearIsFinal ==
    ASSUME ViewAssumption PROVE Spec => []NothingReturnsAfterAClear
<1>1. ViewTypes /\ ViewOrder => NothingReturnsAfterAClear
  BY OrderedViewForgets
<1> QED BY <1>1, ViewInvariance, PTL

(* The terminal shows no line twice or out of order, however replays, new    *)
(* entries, snapshots and animation frames interleave (useLogStream.ts).     *)
THEOREM TerminalStaysInOrder ==
    ASSUME ViewAssumption PROVE Spec => []TerminalInOrder
<1>1. ViewTypes /\ ViewOrder => TerminalInOrder
  BY OrderedViewIsInOrder
<1> QED BY <1>1, ViewInvariance, PTL

-----------------------------------------------------------------------------
(* The list converges.                                                       *)

(* A part of the worker's filter is v, or will be when it has read q.        *)
WillHave(part, v, q, now) ==
    \/ now = v /\ \A i \in DOMAIN q : q[i].type # part
    \/ \E i \in DOMAIN q :
          /\ q[i].type = part /\ q[i].value = v
          /\ \A j \in DOMAIN q : q[j].type = part => j <= i

IsNewest(m, k) == m.type = "filter" /\ m.id = k

NewestLast(q, k) == \A i \in DOMAIN q : IsNewest(q[i], k) => i = Len(q)

(* The list is what f leaves of r, or a message under way makes it so.       *)
Converging(q, p, k, r, f, l) ==
    /\ \A i \in DOMAIN q : IsNewest(q[i], k) => q[i].entries = r
    /\ \A i \in DOMAIN p : p[i].id = k => p[i].entries = Filtered(r, f)
    /\ \/ l = Filtered(r, f)
       \/ \E i \in DOMAIN q : IsNewest(q[i], k)
       \/ \E i \in DOMAIN p : p[i].id = k

Settling ==
    /\ NewestLast(toWorker, request)
    /\ WillHave("hidden", filter.hidden, toWorker, config.hidden)
    /\ "debounce" \notin timers =>
          WillHave("levels", filter.levels, toWorker, config.levels)
    /\ "flush" \in timers => ring # <<>>
    /\ live /\ "flush" \notin timers /\ "debounce" \notin timers =>
          Converging(toWorker, toPage, request, ring, filter, list)

LEMMA AppendOther ==
    ASSUME NEW part, NEW v, NEW now, NEW q \in Seq(WorkerMessages),
           NEW m \in WorkerMessages, m.type # part, WillHave(part, v, q, now)
    PROVE  WillHave(part, v, Append(q, m), now)
<1> DEFINE t == Append(q, m)
<1>1. /\ \A i \in DOMAIN t : (i \in DOMAIN q /\ t[i] = q[i]) \/ t[i] = m
      /\ \A i \in DOMAIN q : i \in DOMAIN t /\ t[i] = q[i]
  BY AppendElements
<1> HIDE DEF t
<1>2. CASE now = v /\ \A i \in DOMAIN q : q[i].type # part
  BY <1>1, <1>2 DEF WillHave, t
<1>3. CASE \E i \in DOMAIN q :
             /\ q[i].type = part /\ q[i].value = v
             /\ \A j \in DOMAIN q : q[j].type = part => j <= i
  BY <1>1, <1>3 DEF WillHave, t
<1> QED BY <1>2, <1>3 DEF WillHave

LEMMA AppendPart ==
    ASSUME NEW part, NEW v, NEW now, NEW q \in Seq(WorkerMessages),
           NEW m \in WorkerMessages, m.type = part, m.value = v
    PROVE  WillHave(part, v, Append(q, m), now)
<1> DEFINE t == Append(q, m)
           n == Len(q) + 1
<1>1. n \in DOMAIN t /\ t[n] = m /\ \A j \in DOMAIN t : j <= n
  <2>1. DOMAIN t = 1 .. n /\ n \in Nat
    BY AppendElements, LenProperties
  <2>2. n \in DOMAIN t /\ t[n] = m
    BY AppendElements
  <2> HIDE DEF t, n
  <2> QED BY <2>1, <2>2
<1> HIDE DEF t, n
<1>2. WillHave(part, v, t, now)
  BY <1>1 DEF WillHave
<1> QED BY <1>2 DEF t

(* The worker takes a message off; now and later are the part before and     *)
(* after it.                                                                 *)
LEMMA TailHas ==
    ASSUME NEW part, NEW v, NEW now, NEW later, NEW q \in Seq(WorkerMessages),
           q # <<>>, WillHave(part, v, q, now),
           later = IF Head(q).type = part THEN Head(q).value ELSE now
    PROVE  WillHave(part, v, Tail(q), later)
<1> DEFINE t == Tail(q)
<1>1. /\ Head(q) = q[1] /\ 1 \in DOMAIN q
      /\ \A i \in DOMAIN t : i + 1 \in DOMAIN q /\ t[i] = q[i + 1]
      /\ \A i \in DOMAIN q : i # 1 => i - 1 \in DOMAIN t /\ t[i - 1] = q[i]
  BY TailElements
<1>2. DOMAIN q \subseteq Nat /\ DOMAIN t \subseteq Nat
      /\ \A i \in DOMAIN t : i >= 1
  BY TailElements, LenProperties
<1> HIDE DEF t
<1>3. CASE now = v /\ \A i \in DOMAIN q : q[i].type # part
  BY <1>1, <1>3 DEF WillHave, t
<1>4. ASSUME NEW i \in DOMAIN q, q[i].type = part, q[i].value = v,
             \A j \in DOMAIN q : q[j].type = part => j <= i
      PROVE  WillHave(part, v, t, later)
  <2>1. CASE i = 1
    <3>1. later = v
      BY <1>1, <1>4, <2>1
    <3>2. \A j \in DOMAIN t : t[j].type # part
      BY <1>1, <1>2, <1>4, <2>1
    <3> QED BY <3>1, <3>2 DEF WillHave
  <2>2. CASE i # 1
    <3>1. i - 1 \in DOMAIN t /\ t[i - 1] = q[i]
      BY <1>1, <2>2
    <3>2. \A j \in DOMAIN t : t[j].type = part => j <= i - 1
      BY <1>1, <1>2, <1>4
    <3> QED BY <1>4, <3>1, <3>2 DEF WillHave
  <2> QED BY <2>1, <2>2
<1> QED BY <1>3, <1>4 DEF WillHave, t

LEMMA AskConverges ==
    ASSUME ViewAssumption, ViewTypes, ViewOrder, NEW q \in Seq(WorkerMessages),
           SoundRequests(q, request, epoch, received), Ask(q), NEW f, NEW l
    PROVE  /\ NewestLast(toWorker', request')
           /\ Converging(toWorker', toPage, request', ring, f, l)
<1> DEFINE m == Request(ring, request + 1)
           t == Append(q, m)
<1>1. /\ toWorker' = t /\ m \in WorkerMessages
      /\ request' = request + 1 /\ request \in Nat
  BY AskTypes
<1>2. m.id = request + 1 /\ m.entries = ring /\ m.type = "filter"
  BY <1>1, MessageTypes DEF ViewTypes, TypeOK
<1> HIDE DEF m
<1>3. /\ Len(t) \in DOMAIN t /\ t[Len(t)] = m
      /\ \A i \in DOMAIN t :
            (i \in DOMAIN q /\ t[i] = q[i]) \/ (i = Len(t) /\ t[i] = m)
  BY <1>1, AppendElements
<1> HIDE DEF t
<1>4. \A i \in DOMAIN q : ~IsNewest(q[i], request + 1)
  <2>1. \A i \in DOMAIN q : q[i].type = "filter" =>
                               q[i].id \in Nat /\ q[i].id <= request
    BY MembersOfQueues, MessageTypes DEF SoundRequests, SoundMessage
  <2> QED BY <1>1, <2>1 DEF IsNewest
<1>5. \A i \in DOMAIN toPage : toPage[i].id # request + 1
  <2>1. \A i \in DOMAIN toPage : toPage[i].id \in Nat /\ toPage[i].id <= request
    BY MembersOfQueues, MessageTypes
       DEF ViewTypes, ViewOrder, SoundResults, SoundMessage
  <2> QED BY <1>1, <2>1
<1>6. \A i \in DOMAIN t : IsNewest(t[i], request + 1) <=> i = Len(t)
  BY <1>2, <1>3, <1>4 DEF IsNewest
<1> QED BY <1>1, <1>2, <1>3, <1>5, <1>6 DEF NewestLast, Converging

LEMMA RefilterConverges ==
    ASSUME ViewAssumption, ViewTypes, ViewOrder, NEW part \in {"levels", "hidden"},
           NEW f \in Filters, NEW left \in SUBSET Timers, Refilter(part, f, left)
    PROVE  /\ NewestLast(toWorker', request')
           /\ \A g, l : Converging(toWorker', toPage, request', ring, g, l)
           /\ \A now : WillHave(part, f[part], toWorker', now)
           /\ \A other \in {"levels", "hidden"} : \A v, now :
                 other # part /\ WillHave(other, v, toWorker, now)
                    => WillHave(other, v, toWorker', now)
           /\ "flush" \in timers' <=> "flush" \in left
           /\ "debounce" \in timers' <=> "debounce" \in left
<1> DEFINE m == [type |-> part, value |-> f[part]]
           q == Append(toWorker, m)
           n == Request(ring, request + 1)
<1>1. /\ m \in WorkerMessages /\ q \in Seq(WorkerMessages) /\ Ask(q)
      /\ m.type = part /\ m.value = f[part] /\ m.type # "filter"
  BY RefilterTypes
<1> HIDE DEF m
<1>2. SoundRequests(q, request, epoch, received)
  BY <1>1, AppendRequest DEF ViewTypes, ViewOrder
<1>3. /\ n \in WorkerMessages /\ toWorker' = Append(q, n) /\ n.type = "filter"
  <2> HIDE DEF q
  <2>1. n \in WorkerMessages /\ toWorker' = Append(q, n) /\ request \in Nat
    BY <1>1, AskTypes
  <2>2. request + 1 \in Nat
    BY <2>1
  <2>3. n.type = "filter"
    BY <2>2, MessageTypes DEF ViewTypes, TypeOK
  <2> QED BY <2>1, <2>3
<1> HIDE DEF n
<1>4. \A now : WillHave(part, f[part], Append(q, n), now)
  <2> TAKE now
  <2>1. WillHave(part, f[part], q, now)
    BY <1>1, AppendPart DEF ViewTypes
  <2> HIDE DEF q
  <2> QED BY <1>1, <1>3, <2>1, AppendOther
<1>5. ASSUME NEW other \in {"levels", "hidden"}, NEW v, NEW now,
             other # part, WillHave(other, v, toWorker, now)
      PROVE  WillHave(other, v, Append(q, n), now)
  <2>1. WillHave(other, v, q, now)
    BY <1>1, <1>5, AppendOther DEF ViewTypes
  <2> HIDE DEF q
  <2> QED BY <1>1, <1>3, <1>5, <2>1, AppendOther
<1>6. NewestLast(toWorker', request')
      /\ \A g, l : Converging(toWorker', toPage, request', ring, g, l)
  <2> HIDE DEF q
  <2> QED BY <1>1, <1>2, AskConverges
<1>7. /\ "flush" \in timers' <=> "flush" \in left
      /\ "debounce" \in timers' <=> "debounce" \in left
  BY DEF Refilter, FrameIf
<1> QED BY <1>3, <1>4, <1>5, <1>6, <1>7

(* The worker takes a message: what the page waits for goes on.              *)
LEMMA WorkerSettles ==
    ASSUME ViewAssumption, ViewTypes, ViewOrder, Settling, WorkerStep
    PROVE  Settling'
<1> DEFINE m == Head(toWorker)
           t == Tail(toWorker)
<1>1. /\ toWorker # <<>> /\ toWorker' = t /\ m \in WorkerMessages
      /\ toWorker \in Seq(WorkerMessages) /\ toPage \in Seq(Results)
      /\ UNCHANGED <<ring, filter, live, list, request, timers>>
  BY TailElements DEF WorkerStep, ViewTypes
<1>2. \/ /\ m.type = "levels"
         /\ config' = [config EXCEPT !.levels = m.value] /\ UNCHANGED toPage
      \/ /\ m.type = "hidden"
         /\ config' = [config EXCEPT !.hidden = m.value] /\ UNCHANGED toPage
      \/ /\ m.type = "filter"
         /\ toPage' = Append(toPage, [entries |-> Filtered(m.entries, config),
                                      id |-> m.id])
         /\ UNCHANGED config
  BY DEF WorkerStep
<1>3. /\ m = toWorker[1] /\ 1 \in DOMAIN toWorker /\ Len(t) = Len(toWorker) - 1
      /\ \A i \in DOMAIN t : i + 1 \in DOMAIN toWorker /\ t[i] = toWorker[i + 1]
      /\ \A i \in DOMAIN toWorker : i # 1 => i - 1 \in DOMAIN t /\ t[i - 1] = toWorker[i]
  BY <1>1, TailElements
<1>4. /\ DOMAIN toWorker = 1 .. Len(toWorker) /\ Len(toWorker) \in Nat
      /\ DOMAIN t \subseteq Nat
  BY <1>1, TailElements, LenProperties
<1>5. config \in [levels : SUBSET Levels, hidden : SUBSET Levels]
      /\ filter \in [levels : SUBSET Levels, hidden : SUBSET Levels]
  BY DEF ViewTypes, TypeOK, ViewAssumption
<1> HIDE DEF m, t
<1>6. NewestLast(toWorker', request')
  <2> SUFFICES ASSUME NEW i \in DOMAIN t, IsNewest(t[i], request) PROVE i = Len(t)
    BY <1>1 DEF NewestLast
  <2>1. i + 1 \in DOMAIN toWorker /\ IsNewest(toWorker[i + 1], request)
    BY <1>3
  <2>2. i + 1 = Len(toWorker)
    BY <2>1 DEF Settling, NewestLast
  <2> QED BY <1>3, <1>4, <2>2
<1>7. /\ config'.hidden = IF m.type = "hidden" THEN m.value ELSE config.hidden
      /\ config'.levels = IF m.type = "levels" THEN m.value ELSE config.levels
  BY <1>2, <1>5
<1>8. WillHave("hidden", filter'.hidden, toWorker', config'.hidden)
  BY <1>1, <1>7, TailHas DEF Settling, m, t
<1>9. "debounce" \notin timers' =>
         WillHave("levels", filter'.levels, toWorker', config'.levels)
  BY <1>1, <1>7, TailHas DEF Settling, m, t
<1>10. ASSUME live, "flush" \notin timers, "debounce" \notin timers
       PROVE  Converging(t, toPage', request, ring, filter, list)
  <2>1. Converging(toWorker, toPage, request, ring, filter, list)
    BY <1>10 DEF Settling
  <2>2. \A i \in DOMAIN t : IsNewest(t[i], request) => t[i].entries = ring
    BY <1>3, <2>1 DEF Converging
  <2>3. CASE ~IsNewest(m, request)
    <3>1. \A i \in DOMAIN toPage' : toPage'[i].id = request =>
              i \in DOMAIN toPage /\ toPage'[i] = toPage[i]
      <4>1. CASE m.type # "filter"
        BY <1>2, <4>1
      <4>2. CASE m.type = "filter"
        <5> DEFINE r == [entries |-> Filtered(m.entries, config), id |-> m.id]
        <5>1. r \in Results /\ r.id # request
          <6>1. m.entries \in Seq(Entries) /\ m.id \in Nat
            BY <1>1, <4>2, MessageTypes
          <6>2. Filtered(m.entries, config) \in Seq(Entries)
            BY <6>1, FilteredPicks
          <6>3. m.id # request
            BY <2>3, <4>2 DEF IsNewest
          <6> QED BY <6>1, <6>2, <6>3, MessageTypes
        <5>2. toPage' = Append(toPage, r)
          BY <1>2, <4>2
        <5> HIDE DEF r
        <5> QED BY <1>1, <5>1, <5>2, AppendElements
      <4> QED BY <4>1, <4>2
    <3>2. \A i \in DOMAIN toPage : i \in DOMAIN toPage' /\ toPage'[i] = toPage[i]
      <4>1. CASE m.type # "filter"
        BY <1>2, <4>1
      <4>2. CASE m.type = "filter"
        <5> DEFINE r == [entries |-> Filtered(m.entries, config), id |-> m.id]
        <5>1. r \in Results
          BY <1>1, <4>2, MessageTypes, FilteredPicks
        <5>2. toPage' = Append(toPage, r)
          BY <1>2, <4>2
        <5> HIDE DEF r
        <5> QED BY <1>1, <5>1, <5>2, AppendElements
      <4> QED BY <4>1, <4>2
    <3>3. ASSUME NEW i \in DOMAIN toWorker, IsNewest(toWorker[i], request)
          PROVE  \E j \in DOMAIN t : IsNewest(t[j], request)
      <4>1. i # 1
        BY <1>3, <2>3, <3>3
      <4> QED BY <1>3, <3>3, <4>1
    <3> QED BY <2>1, <2>2, <3>1, <3>2, <3>3 DEF Converging
  <2>4. CASE IsNewest(m, request)
    <3>1. Len(toWorker) = 1 /\ DOMAIN toWorker = {1} /\ m.type = "filter"
      <4>1. 1 = Len(toWorker)
        BY <1>3, <2>4 DEF Settling, NewestLast
      <4>2. 1 .. 1 = {1}
        OBVIOUS
      <4> QED BY <1>4, <2>4, <4>1, <4>2 DEF IsNewest
    <3>2. config.hidden = filter.hidden /\ config.levels = filter.levels
      BY <1>3, <1>10, <3>1 DEF Settling, WillHave
    <3>3. config = filter
      BY <1>5, <3>2
    <3>4. m.entries = ring /\ m.id = request
      BY <1>3, <2>1, <2>4 DEF Converging, IsNewest
    <3> DEFINE r == [entries |-> Filtered(ring, filter), id |-> request]
    <3>5. r \in Results /\ r.id = request /\ r.entries = Filtered(ring, filter)
      <4>1. Filtered(ring, filter) \in Seq(Entries) /\ request \in Nat
        BY FilteredPicks DEF ViewTypes, TypeOK, ViewAssumption
      <4> QED BY <4>1, MessageTypes
    <3>6. toPage' = Append(toPage, r)
      BY <1>2, <3>1, <3>3, <3>4
    <3> HIDE DEF r
    <3>7. /\ \A i \in DOMAIN toPage' :
                (i \in DOMAIN toPage /\ toPage'[i] = toPage[i]) \/ toPage'[i] = r
          /\ \E i \in DOMAIN toPage' : toPage'[i] = r
      BY <1>1, <3>5, <3>6, AppendElements
    <3> QED BY <2>1, <2>2, <3>5, <3>7 DEF Converging
  <2> QED BY <2>3, <2>4
<1> QED BY <1>1, <1>6, <1>8, <1>9, <1>10 DEF Settling

LEMMA InitSettles == ASSUME Init PROVE Settling
<1>1. DOMAIN <<>> = {}
  OBVIOUS
<1>2. filter.hidden = config.hidden
  BY DEF Init
<1>3. NewestLast(toWorker, request)
  BY <1>1 DEF Init, NewestLast
<1>4. WillHave("hidden", filter.hidden, toWorker, config.hidden)
  BY <1>1, <1>2 DEF Init, WillHave
<1>5. ~live /\ "debounce" \in timers /\ "flush" \notin timers
  BY DEF Init
<1> QED BY <1>3, <1>4, <1>5 DEF Settling

LEMMA StepSettles ==
    ASSUME ViewAssumption, ViewTypes, ViewOrder, Settling, [Next]_viewVars
    PROVE  Settling'
<1>1. ASSUME NEW l \in Levels, Receive(l) PROVE Settling'
  <2> DEFINE e == [n |-> received + 1, level |-> l]
             shown == terminal.open /\ "ingest" \notin timers /\ Passes(e, filter)
  <2>1. /\ ring' = Pushed(ring, e) /\ timers' = FrameIf(shown, timers \cup {"flush"})
        /\ UNCHANGED <<filter, request, toWorker, config>>
    BY <1>1 DEF Receive
  <2>2. e \in Entries
    BY <1>1 DEF Receive, Entries, ViewTypes, TypeOK, ViewAssumption
  <2> HIDE DEF e, shown
  <2>3. ring' # <<>>
    BY <2>1, <2>2, PushedTypes DEF ViewTypes, TypeOK
  <2>4. "flush" \in timers' /\ ("debounce" \in timers' <=> "debounce" \in timers)
    BY <2>1 DEF FrameIf
  <2> QED BY <2>1, <2>3, <2>4 DEF Settling
<1>2. ASSUME WriteFrame PROVE Settling'
  BY <1>2 DEF WriteFrame, Settling
<1>3. ASSUME Flush PROVE Settling'
  <2>1. Ask(toWorker)
    BY <1>3 DEF Flush, Settling
  <2>2. /\ NewestLast(toWorker', request')
        /\ Converging(toWorker', toPage, request', ring, filter, list)
    BY <2>1, AskConverges DEF ViewTypes, ViewOrder
  <2> DEFINE n == Request(ring, request + 1)
  <2>3. /\ n \in WorkerMessages /\ toWorker' = Append(toWorker, n)
        /\ request \in Nat
    BY <2>1, AskTypes DEF ViewTypes
  <2>4. n.type = "filter"
    BY <2>3, MessageTypes DEF ViewTypes, TypeOK
  <2> HIDE DEF n
  <2>5. ASSUME NEW part \in {"levels", "hidden"}, NEW v, NEW now,
               WillHave(part, v, toWorker, now)
        PROVE  WillHave(part, v, toWorker', now)
    BY <2>3, <2>4, <2>5, AppendOther DEF ViewTypes
  <2> QED BY <1>3, <2>2, <2>5 DEF Flush, Settling
<1>4. ASSUME TakeResult PROVE Settling'
  <2> DEFINE h == Head(toPage)
             t == Tail(toPage)
  <2>1. /\ toPage # <<>> /\ toPage' = t
        /\ list' = IF h.id = request THEN h.entries ELSE list
        /\ UNCHANGED <<ring, live, filter, request, toWorker, config, timers>>
    BY <1>4 DEF TakeResult
  <2>2. /\ h = toPage[1] /\ 1 \in DOMAIN toPage
        /\ \A i \in DOMAIN t : i + 1 \in DOMAIN toPage /\ t[i] = toPage[i + 1]
        /\ \A i \in DOMAIN toPage : i # 1 => i - 1 \in DOMAIN t /\ t[i - 1] = toPage[i]
    BY <2>1, TailElements DEF ViewTypes
  <2> HIDE DEF h, t
  <2>3. ASSUME Converging(toWorker, toPage, request, ring, filter, list)
        PROVE  Converging(toWorker, t, request, ring, filter, list')
    <3>1. CASE h.id = request
      BY <2>1, <2>2, <2>3, <3>1 DEF Converging
    <3>2. CASE h.id # request
      BY <2>1, <2>2, <2>3, <3>2 DEF Converging
    <3> QED BY <3>1, <3>2
  <2> QED BY <2>1, <2>3 DEF Settling
<1>5. ASSUME ApplyLevels PROVE Settling'
  <2>1. /\ Refilter("levels", filter, timers \ {"debounce"})
        /\ filter \in Filters /\ timers \ {"debounce"} \in SUBSET Timers
        /\ UNCHANGED <<ring, live, filter, list, config, toPage>>
    BY <1>5 DEF ApplyLevels, ViewTypes, TypeOK
  <2>2. /\ NewestLast(toWorker', request')
        /\ Converging(toWorker', toPage, request', ring, filter, list)
        /\ WillHave("levels", filter["levels"], toWorker', config.levels)
        /\ WillHave("hidden", filter.hidden, toWorker, config.hidden)
              => WillHave("hidden", filter.hidden, toWorker', config.hidden)
        /\ "flush" \in timers' <=> "flush" \in timers \ {"debounce"}
    BY <2>1, RefilterConverges
  <2> QED BY <2>1, <2>2 DEF Settling
<1>6. ASSUME FillTerminal PROVE Settling'
  BY <1>6 DEF FillTerminal, FrameIf, Settling
<1>7. ASSUME StartupReplay PROVE Settling'
  BY <1>7 DEF StartupReplay, FrameIf, Settling
<1>8. ASSUME WorkerStep PROVE Settling'
  BY <1>8, WorkerSettles
<1>9. ASSUME NEW f \in Filters, SetLevels(f) PROVE Settling'
  <2>1. /\ filter'.hidden = filter.hidden /\ timers' = timers \cup {"debounce"}
        /\ UNCHANGED <<ring, live, list, request, toWorker, config, toPage>>
    BY <1>9 DEF SetLevels
  <2> QED BY <2>1 DEF Settling
<1>10. ASSUME NEW f \in Filters, SetRules(f) PROVE Settling'
  <2>1. /\ Refilter("hidden", f, timers) /\ timers \in SUBSET Timers
        /\ filter' = f /\ f.levels = filter.levels
        /\ UNCHANGED <<ring, live, list, config, toPage>>
    BY <1>10 DEF SetRules, ViewTypes, TypeOK
  <2>2. /\ NewestLast(toWorker', request')
        /\ Converging(toWorker', toPage, request', ring, f, list)
        /\ WillHave("hidden", f["hidden"], toWorker', config.hidden)
        /\ WillHave("levels", filter.levels, toWorker, config.levels)
              => WillHave("levels", filter.levels, toWorker', config.levels)
        /\ "flush" \in timers' <=> "flush" \in timers
        /\ "debounce" \in timers' <=> "debounce" \in timers
    BY <2>1, RefilterConverges
  <2> QED BY <2>1, <2>2 DEF Settling
<1>11. ASSUME ShowTerminal PROVE Settling'
  BY <1>11 DEF ShowTerminal, Settling
<1>12. ASSUME ShowList PROVE Settling'
  BY <1>12 DEF ShowList, Settling
<1>13. ASSUME NEW left, Cleared(left), "flush" \notin left,
              "debounce" \in left <=> "debounce" \in timers
       PROVE  Settling'
  <2>1. /\ ring' = <<>> /\ list' = <<>> /\ request' = request + 1 /\ timers' = left
        /\ UNCHANGED <<filter, toWorker, config, toPage>>
        /\ request \in Nat
    BY <1>13 DEF Cleared, ViewTypes, TypeOK, ViewAssumption
  <2>2. \A i \in DOMAIN toWorker : ~IsNewest(toWorker[i], request + 1)
    <3>1. \A i \in DOMAIN toWorker : toWorker[i].type = "filter" =>
              toWorker[i].id \in Nat /\ toWorker[i].id <= request
      BY MembersOfQueues, MessageTypes
         DEF ViewTypes, ViewOrder, SoundRequests, SoundMessage
    <3> QED BY <2>1, <3>1 DEF IsNewest
  <2>3. \A i \in DOMAIN toPage : toPage[i].id # request + 1
    <3>1. \A i \in DOMAIN toPage : toPage[i].id \in Nat /\ toPage[i].id <= request
      BY MembersOfQueues, MessageTypes
         DEF ViewTypes, ViewOrder, SoundResults, SoundMessage
    <3> QED BY <2>1, <3>1
  <2>4. <<>> = Filtered(<<>>, filter)
    BY FilteredEmpty
  <2>5. NewestLast(toWorker, request + 1)
        /\ Converging(toWorker, toPage, request + 1, <<>>, filter, <<>>)
    BY <2>2, <2>3, <2>4 DEF NewestLast, Converging
  <2> QED BY <1>13, <2>1, <2>5 DEF Settling
<1>14. ASSUME Clear PROVE Settling'
  BY <1>13, <1>14 DEF Clear
<1>15. ASSUME StartStream PROVE Settling'
  BY <1>13, <1>15 DEF StartStream
<1>16. ASSUME Pause PROVE Settling'
  BY <1>16 DEF Pause, Settling
<1>17. CASE UNCHANGED viewVars
  BY <1>17 DEF viewVars, Settling
<1> QED BY <1>1, <1>2, <1>3, <1>4, <1>5, <1>6, <1>7, <1>8, <1>9, <1>10, <1>11,
           <1>12, <1>14, <1>15, <1>16, <1>17 DEF Next, PageSteps

LEMMA SettledList == ASSUME Settling PROVE ListSettles
<1> SUFFICES ASSUME AtRest PROVE list = Filtered(ring, filter)
  BY DEF ListSettles
<1>1. Converging(toWorker, toPage, request, ring, filter, list)
  BY DEF Settling, AtRest
<1>2. DOMAIN toWorker = {} /\ DOMAIN toPage = {}
  BY DEF AtRest
<1> QED BY <1>1, <1>2 DEF Converging

(* When every timer has fired and every message is taken, the list is what   *)
(* the filter of now leaves of the ring: no flush, new config or result is   *)
(* lost or applied out of order (useFilterPipeline.ts and its worker).       *)
THEOREM FilteredListSettles ==
    ASSUME ViewAssumption PROVE Spec => []ListSettles
<1>1. Settling => ListSettles
  BY SettledList
<1>2. Init => Settling
  BY InitSettles
<1>3. ViewTypes /\ ViewOrder /\ Settling /\ [Next]_viewVars => Settling'
  BY StepSettles
<1> QED BY <1>1, <1>2, <1>3, ViewInvariance, PTL DEF Spec
=============================================================================
