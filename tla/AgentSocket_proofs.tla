------------------------- MODULE AgentSocket_proofs -------------------------
(***************************************************************************)
(* Theorems about AgentSocket, for any number of messages, any bound of    *)
(* the queue and any descriptors.  Typing is proved action by action.  A   *)
(* step then either leaves the messages alone or moves one of them in one  *)
(* of five ways (StepsMoveMessages); the invariants about messages follow  *)
(* from those five.                                                        *)
(***************************************************************************)
EXTENDS AgentSocket, SequenceTheorems, FiniteSetTheorems, TLAPS

\* A stop that has returned left no thread behind, so that the next start
\* finds both program counters off; a stop in progress bars the next start.
ThreadsAreJoined ==
    /\ running => stopper = "idle"
    /\ ~running /\ stopper = "idle" => sender.pc = "off" /\ reader.pc = "off"

\* The descriptor -1 is no descriptor and no message.
LEMMA NoneIsNothing == None \notin Messages /\ None \notin Sockets
  BY NoSocketAssumption, SizeAssumption DEF Messages

\* A wake-up changes only the program counter, from waiting to take.
LEMMA WokenSender ==
    ASSUME TypeOK
    PROVE  /\ Woken(sender).msg = sender.msg
           /\ Woken(sender).pc = IF sender.pc = "waiting" THEN "take" ELSE sender.pc
           /\ Woken(sender) \in [pc: {"off", "top", "connecting", "take", "block",
                                      "waiting", "send", "drop link", "requeue"},
                                 msg: Messages \cup {None}]
  BY DEF TypeOK, Woken

LEMMA HandedTyped ==
    ASSUME TypeOK
    PROVE  handed \in Nat /\ handed \in 0 .. MaxMessages
<1>1. handed \in 0 .. MaxMessages
  BY DEF TypeOK
<1> QED
  BY <1>1, SizeAssumption

-----------------------------------------------------------------------------
(* Typing.                                                                 *)

LEMMA SendMessageTyped ==
    ASSUME TypeOK, ThreadsAreJoined, SendMessage
    PROVE  TypeOK' /\ ThreadsAreJoined'
<1> USE DEF SendMessage, SendMessageWhen, link
<1>1. handed' = handed + 1 /\ handed + 1 \in Messages /\ handed' \in 0 .. MaxMessages
  <2>1. handed \in 0 .. MaxMessages /\ handed < MaxMessages /\ handed' = handed + 1
    BY DEF TypeOK
  <2> QED
    BY <2>1, SizeAssumption DEF Messages
<1>2. queue' \in Seq(Messages) /\ dropped' \subseteq Messages
  <2>0. PICK m \in Messages : m = handed + 1
    BY <1>1
  <2>1. queue \in Seq(Messages) /\ dropped \subseteq Messages
    BY DEF TypeOK
  <2>2. CASE Len(queue) >= MaxQueue
    <3>1. queue # <<>>
      BY <2>2, SizeAssumption
    <3>2. Head(queue) \in Messages /\ Tail(queue) \in Seq(Messages)
      BY <2>1, <3>1, HeadTailProperties
    <3>3. queue' = Append(Tail(queue), m) /\ dropped' = dropped \cup {Head(queue)}
      BY <2>0, <2>2
    <3>4. queue' \in Seq(Messages)
      BY <3>2, <3>3, AppendProperties
    <3>5. dropped' \subseteq Messages
      BY <2>1, <3>2, <3>3
    <3> QED
      BY <3>4, <3>5
  <2>3. CASE ~(Len(queue) >= MaxQueue)
    <3>1. queue' = Append(queue, m) /\ dropped' = dropped
      BY <2>0, <2>3
    <3>2. Append(queue, m) \in Seq(Messages)
      BY <2>1, AppendProperties
    <3> QED
      BY <2>1, <3>1, <3>2
  <2> QED
    BY <2>2, <2>3
<1> QED
  BY <1>1, <1>2, WokenSender DEF TypeOK, ThreadsAreJoined

LEMMA ControlTyped ==
    ASSUME TypeOK, ThreadsAreJoined,
           StartBackgroundThreads \/ StopBackgroundThreads
               \/ StopNotifies \/ StopJoins
    PROVE  TypeOK' /\ ThreadsAreJoined'
<1> USE DEF TypeOK, ThreadsAreJoined, link, messages, SenderAt, ReaderAt
<1>1. CASE StartBackgroundThreads
  BY <1>1 DEF StartBackgroundThreads
<1>2. CASE StopBackgroundThreads
  BY <1>2 DEF StopBackgroundThreads
<1>3. CASE StopNotifies
  BY <1>3, WokenSender DEF StopNotifies
<1>4. CASE StopJoins
  BY <1>4 DEF StopJoins, DisconnectInternal
<1> QED
  BY <1>1, <1>2, <1>3, <1>4

LEMMA SendingTyped ==
    ASSUME TypeOK, ThreadsAreJoined, Sending
    PROVE  TypeOK' /\ ThreadsAreJoined'
<1> USE NoneIsNothing DEF ThreadsAreJoined, link, messages, SenderAt
<1>1. CASE SenderTop
  BY <1>1 DEF SenderTop, TypeOK
<1>2. CASE Connect
  BY <1>2 DEF Connect, TypeOK
<1>3. CASE ConnectFails
  BY <1>3 DEF ConnectFails, TypeOK
<1>4. CASE TakeMessage
  <2>1. CASE running /\ connected /\ queue # <<>>
    <3>1. Head(queue) \in Messages /\ Tail(queue) \in Seq(Messages)
      BY <2>1, HeadTailProperties DEF TypeOK
    <3>2. /\ sender' = [pc |-> "send", msg |-> Head(queue)] /\ queue' = Tail(queue)
          /\ UNCHANGED <<running, link, hostUp, handed, sent, dropped, reader, stopper>>
          /\ sender.pc = "take"
      BY <1>4, <2>1 DEF TakeMessage, TakeMessageOr
    <3> QED
      BY <3>1, <3>2 DEF TypeOK
  <2>2. CASE ~(running /\ connected /\ queue # <<>>)
    BY <1>4, <2>2 DEF TakeMessage, TakeMessageOr, TypeOK
  <2> QED
    BY <2>1, <2>2
<1>5. CASE Block
  BY <1>5 DEF Block, TypeOK
<1>6. CASE SendSucceeds
  <2>1. sender.msg \in Messages
    BY <1>6 DEF SendSucceeds, TypeOK
  <2>2. sent' \in Seq(Messages)
    BY <1>6, <2>1, AppendProperties DEF SendSucceeds, TypeOK
  <2> QED
    BY <1>6, <2>2 DEF SendSucceeds, TypeOK
<1>7. CASE SendFails
  BY <1>7 DEF SendFails, TypeOK
<1>8. CASE DropLink
  BY <1>8 DEF DropLink, DisconnectInternal, TypeOK
<1>9. CASE Requeue
  <2>1. sender.msg \in Messages
    BY <1>9 DEF Requeue, RequeueAs, TypeOK
  <2>2. queue' = <<sender.msg>> \o queue /\ queue \in Seq(Messages)
    BY <1>9 DEF Requeue, RequeueAs, TypeOK
  <2>3. <<sender.msg>> \in Seq(Messages)
    BY <2>1
  <2>4. queue' \in Seq(Messages)
    BY <2>2, <2>3, ConcatProperties
  <2> QED
    BY <1>9, <2>4 DEF Requeue, RequeueAs, TypeOK
<1> QED
  BY <1>1, <1>2, <1>3, <1>4, <1>5, <1>6, <1>7, <1>8, <1>9 DEF Sending

LEMMA ReadingTyped ==
    ASSUME TypeOK, ThreadsAreJoined, Reading
    PROVE  TypeOK' /\ ThreadsAreJoined'
<1> USE NoneIsNothing DEF TypeOK, ThreadsAreJoined, link, messages, ReaderAt
<1>1. CASE ReaderTop
  BY <1>1 DEF ReaderTop
<1>2. CASE ReaderCopies
  BY <1>2 DEF ReaderCopies, ReaderCopiesIf
<1>3. CASE ReaderSelects
  <2>1. CASE reader.fd = socket /\ ReaderAt("recv")
    BY <1>3, <2>1 DEF ReaderSelects
  <2>2. CASE reader' = [pc |-> "top", fd |-> None]
    BY <1>3, <2>2 DEF ReaderSelects
  <2> QED
    BY <1>3, <2>1, <2>2 DEF ReaderSelects
<1>4. CASE ReaderReceives
  <2>1. PICK pc \in {"hang up", "top"} : reader' = [pc |-> pc, fd |-> None]
    BY <1>4 DEF ReaderReceives
  <2>2. reader.pc = "recv"
        /\ UNCHANGED <<running, link, hostUp, messages, sender, stopper>>
    BY <1>4 DEF ReaderReceives
  <2>3. /\ reader' \in [pc: {"off", "top", "copy", "select", "recv", "hang up", "notify"},
                        fd: Sockets \cup {None}]
        /\ reader'.fd = None /\ reader'.pc \in {"hang up", "top"}
    BY <2>1
  <2> QED
    BY <2>2, <2>3
<1>5. CASE ReaderHangsUp
  BY <1>5 DEF ReaderHangsUp, DisconnectInternal
<1>6. CASE ReaderNotifies
  <2>1. sender' = Woken(sender) /\ reader' = [reader EXCEPT !.pc = "top"]
        /\ reader.pc = "notify"
        /\ UNCHANGED <<running, link, hostUp, messages, stopper>>
    BY <1>6 DEF ReaderNotifies
  <2> HIDE DEF TypeOK
  <2>2. /\ sender' \in [pc: {"off", "top", "connecting", "take", "block", "waiting",
                            "send", "drop link", "requeue"},
                       msg: Messages \cup {None}]
        /\ sender'.msg = sender.msg
        /\ sender'.pc = IF sender.pc = "waiting" THEN "take" ELSE sender.pc
    BY <2>1, WokenSender
  <2> QED
    BY <2>1, <2>2 DEF TypeOK
<1> QED
  BY <1>1, <1>2, <1>3, <1>4, <1>5, <1>6 DEF Reading

LEMMA HostTyped ==
    ASSUME TypeOK, ThreadsAreJoined, HostStarts \/ HostStops \/ HostHangsUp
    PROVE  TypeOK' /\ ThreadsAreJoined'
<1> USE DEF TypeOK, ThreadsAreJoined, link, messages
<1>1. CASE HostStarts
  BY <1>1 DEF HostStarts
<1>2. CASE HostStops
  BY <1>2 DEF HostStops
<1>3. CASE HostHangsUp
  BY <1>3 DEF HostHangsUp
<1> QED
  BY <1>1, <1>2, <1>3

LEMMA InitTyped ==
    ASSUME Init
    PROVE  TypeOK /\ ThreadsAreJoined
<1>1. queue \in Seq(Messages) /\ sent \in Seq(Messages)
  BY EmptySeq DEF Init
<1>2. handed \in 0 .. MaxMessages
  BY SizeAssumption DEF Init
<1> QED
  BY <1>1, <1>2 DEF Init, TypeOK, ThreadsAreJoined

\* Typing is inductive.
LEMMA StepTyped ==
    ASSUME TypeOK, ThreadsAreJoined, [Next]_vars
    PROVE  TypeOK' /\ ThreadsAreJoined'
<1>1. CASE UNCHANGED vars
  BY <1>1 DEF vars, TypeOK, ThreadsAreJoined
<1> QED
  BY <1>1, SendMessageTyped, ControlTyped, SendingTyped, ReadingTyped, HostTyped
     DEF Next
-----------------------------------------------------------------------------
(* What a step does to the messages.                                       *)

\* The message in hand, as a set and as a sequence, and all that was sent or
\* waits.
Held(m) == IF m = None THEN {} ELSE {m}
Hand(m) == IF m = None THEN <<>> ELSE <<m>>
Pipeline == sent \o Hand(sender.msg) \o queue

MessagesStay ==
    /\ UNCHANGED <<queue, handed, sent, dropped>>
    /\ sender'.msg = sender.msg

MessageIsTaken ==
    /\ queue # <<>> /\ sender.msg = None
    /\ queue' = Tail(queue) /\ sender'.msg = Head(queue)
    /\ UNCHANGED <<handed, sent, dropped>>

MessageIsSent ==
    /\ sender.msg \in Messages /\ sender'.msg = None
    /\ sent' = Append(sent, sender.msg)
    /\ UNCHANGED <<queue, handed, dropped>>

MessageIsGivenBack ==
    /\ sender.msg \in Messages /\ sender'.msg = None
    /\ queue' = <<sender.msg>> \o queue
    /\ UNCHANGED <<handed, sent, dropped>>

MessageIsAdded ==
    /\ Len(queue) < MaxQueue
    /\ handed' = handed + 1 /\ queue' = Append(queue, handed')
    /\ handed' \in Messages
    /\ sender'.msg = sender.msg
    /\ UNCHANGED <<sent, dropped>>

MessageIsExchanged ==
    /\ queue # <<>>
    /\ handed' = handed + 1 /\ queue' = Append(Tail(queue), handed')
    /\ handed' \in Messages
    /\ sender'.msg = sender.msg
    /\ dropped' = dropped \cup {Head(queue)}
    /\ UNCHANGED sent

\* Every step of the agent and of Hadice is one of these.
LEMMA StepsMoveMessages ==
    ASSUME TypeOK, [Next]_vars
    PROVE  \/ MessagesStay \/ MessageIsTaken \/ MessageIsSent
           \/ MessageIsGivenBack \/ MessageIsAdded \/ MessageIsExchanged
<1> USE DEF link, messages
<1>1. CASE UNCHANGED vars
  BY <1>1 DEF vars, MessagesStay
<1>2. CASE SendMessage
  <2>1. /\ handed' = handed + 1 /\ handed' \in Messages
        /\ sender'.msg = sender.msg /\ UNCHANGED sent
    <3>1. handed \in 0 .. MaxMessages /\ handed < MaxMessages /\ handed' = handed + 1
      BY <1>2 DEF SendMessage, SendMessageWhen, TypeOK
    <3>2. handed' \in Messages
      BY <3>1, SizeAssumption DEF Messages
    <3> QED
      BY <1>2, <3>1, <3>2, WokenSender DEF SendMessage, SendMessageWhen
  <2>2. CASE Len(queue) >= MaxQueue
    <3>1. queue # <<>>
      BY <2>2, SizeAssumption
    <3> QED
      BY <1>2, <2>1, <2>2, <3>1 DEF SendMessage, SendMessageWhen, MessageIsExchanged
  <2>3. CASE ~(Len(queue) >= MaxQueue)
    <3>1. queue \in Seq(Messages)
      BY DEF TypeOK
    <3>2. Len(queue) < MaxQueue
      BY <2>3, <3>1, SizeAssumption
    <3> QED
      BY <1>2, <2>1, <2>3, <3>2 DEF SendMessage, SendMessageWhen, MessageIsAdded
  <2> QED
    BY <2>2, <2>3
<1>3. CASE StartBackgroundThreads \/ StopBackgroundThreads \/ StopNotifies \/ StopJoins
  BY <1>3, WokenSender
     DEF StartBackgroundThreads, StopBackgroundThreads, StopNotifies, StopJoins,
         SenderAt, MessagesStay, TypeOK
<1>4. CASE SenderTop \/ Connect \/ ConnectFails \/ Block \/ SendFails \/ DropLink
  BY <1>4 DEF SenderTop, Connect, ConnectFails, Block, SendFails, DropLink,
              SenderAt, MessagesStay, TypeOK
<1>5. CASE TakeMessage
  <2>1. sender.msg = None
    BY <1>5 DEF TakeMessage, TakeMessageOr, TypeOK
  <2>2. CASE running /\ connected /\ queue # <<>>
    BY <1>5, <2>1, <2>2 DEF TakeMessage, TakeMessageOr, MessageIsTaken
  <2>3. CASE ~(running /\ connected /\ queue # <<>>)
    <3>1. sender'.msg = sender.msg
      BY <1>5, <2>3 DEF TakeMessage, TakeMessageOr, SenderAt, TypeOK
    <3> QED
      BY <1>5, <2>3, <3>1 DEF TakeMessage, TakeMessageOr, MessagesStay
  <2> QED
    BY <2>2, <2>3
<1>6. CASE SendSucceeds
  BY <1>6 DEF SendSucceeds, MessageIsSent, TypeOK
<1>7. CASE Requeue
  BY <1>7 DEF Requeue, RequeueAs, MessageIsGivenBack, TypeOK
<1>8. CASE Reading
  BY <1>8, WokenSender
     DEF Reading, ReaderTop, ReaderCopies, ReaderCopiesIf, ReaderSelects,
         ReaderReceives, ReaderHangsUp, ReaderNotifies, MessagesStay
<1>9. CASE HostStarts \/ HostStops \/ HostHangsUp
  BY <1>9 DEF HostStarts, HostStops, HostHangsUp, MessagesStay
<1> QED
  BY <1>1, <1>2, <1>3, <1>4, <1>5, <1>6, <1>7, <1>8, <1>9 DEF Next, Sending

-----------------------------------------------------------------------------
(* The bound of the queue.                                                 *)

\* At most one message is in hand.
LEMMA HandCounts ==
    Cardinality(InHand) = IF sender.msg = None THEN 0 ELSE 1
  BY FS_EmptySet, FS_Singleton DEF InHand

LEMMA StepKeepsBound ==
    ASSUME TypeOK, TypeOK', QueueBounded, [Next]_vars
    PROVE  QueueBounded'
<1> DEFINE held(m) == IF m = None THEN 0 ELSE 1
<1>1. QueueBounded <=> Len(queue) + held(sender.msg) <= MaxQueue + 1
  BY HandCounts DEF QueueBounded
<1>2. QueueBounded' <=> Len(queue)' + held(sender'.msg) <= MaxQueue + 1
  <2>1. InHand' = IF sender'.msg = None THEN {} ELSE {sender'.msg}
    BY DEF InHand
  <2>2. Cardinality(InHand') = held(sender'.msg)
    BY <2>1, FS_EmptySet, FS_Singleton
  <2> QED
    BY <2>2 DEF QueueBounded
<1>3. queue \in Seq(Messages) /\ queue' \in Seq(Messages) /\ MaxQueue \in Nat \ {0}
  BY SizeAssumption DEF TypeOK
<1>4. CASE MessagesStay
  BY <1>1, <1>2, <1>4 DEF MessagesStay
<1>5. CASE MessageIsTaken
  <2>1. Head(queue) # None /\ Len(queue)' = Len(queue) - 1
    BY <1>3, <1>5, HeadTailProperties, NoneIsNothing DEF MessageIsTaken
  <2> QED
    BY <1>1, <1>2, <1>3, <1>5, <2>1 DEF MessageIsTaken
<1>6. CASE MessageIsSent
  BY <1>1, <1>2, <1>3, <1>6, NoneIsNothing DEF MessageIsSent
<1>7. CASE MessageIsGivenBack
  <2>1. Len(queue)' = Len(queue) + 1
    BY <1>3, <1>7 DEF MessageIsGivenBack
  <2> QED
    BY <1>1, <1>2, <1>3, <1>7, <2>1, NoneIsNothing DEF MessageIsGivenBack
<1>8. CASE MessageIsAdded
  <2>1. Len(queue)' = Len(queue) + 1 /\ Len(queue) < MaxQueue
    BY <1>3, <1>8 DEF MessageIsAdded
  <2>2. held(sender'.msg) <= 1 /\ held(sender'.msg) \in Nat
    OBVIOUS
  <2> QED
    BY <1>2, <1>3, <2>1, <2>2
<1>9. CASE MessageIsExchanged
  <2>1. Len(queue)' = Len(queue)
    BY <1>3, <1>9, HeadTailProperties DEF MessageIsExchanged
  <2> QED
    BY <1>1, <1>2, <1>3, <1>9, <2>1 DEF MessageIsExchanged
<1> QED
  BY <1>4, <1>5, <1>6, <1>7, <1>8, <1>9, StepsMoveMessages
-----------------------------------------------------------------------------
(* Sequences of messages: their elements, and their order.                 *)

\* The elements of two sequences joined, and of one whose first or last
\* element is split off.
LEMMA RangeOfConcat ==
    ASSUME NEW S, NEW s \in Seq(S), NEW t \in Seq(S)
    PROVE  Range(s \o t) = Range(s) \cup Range(t)
<1> DEFINE u == s \o t
<1>1. /\ Len(s) \in Nat /\ Len(t) \in Nat
      /\ DOMAIN s = 1 .. Len(s) /\ DOMAIN t = 1 .. Len(t)
      /\ DOMAIN u = 1 .. Len(s) + Len(t)
  OBVIOUS
<1>2. /\ \A i \in 1 .. Len(s) : u[i] = s[i] /\ i \in DOMAIN u
      /\ \A j \in 1 .. Len(t) : u[Len(s) + j] = t[j] /\ Len(s) + j \in DOMAIN u
      /\ \A k \in DOMAIN u : \/ k \in DOMAIN s
                             \/ \E j \in DOMAIN t : k = Len(s) + j
  <2>1. \A i \in 1 .. Len(s) : u[i] = s[i] /\ i \in DOMAIN u
    BY <1>1
  <2>2. \A j \in 1 .. Len(t) : u[Len(s) + j] = t[j] /\ Len(s) + j \in DOMAIN u
    BY <1>1
  <2>3. ASSUME NEW k \in DOMAIN u
        PROVE  k \in DOMAIN s \/ \E j \in DOMAIN t : k = Len(s) + j
    <3> SUFFICES ASSUME k \notin DOMAIN s
                 PROVE  \E j \in DOMAIN t : k = Len(s) + j
      OBVIOUS
    <3>1. k - Len(s) \in DOMAIN t /\ k = Len(s) + (k - Len(s))
      BY <1>1
    <3> QED
      BY <3>1
  <2> QED
    BY <2>1, <2>2, <2>3
<1> HIDE DEF u
<1>3. Range(u) = Range(s) \cup Range(t)
  BY <1>1, <1>2 DEF Range
<1> QED
  BY <1>3 DEF u

\* The elements of a sequence of one.
LEMMA RangeOfOne ==
    ASSUME NEW m
    PROVE  Range(<<m>>) = {m}
  BY DEF Range

\* Appending adds one element.
LEMMA RangeOfAppend ==
    ASSUME NEW S, NEW s \in Seq(S), NEW m \in S
    PROVE  Range(Append(s, m)) = Range(s) \cup {m}
<1>1. <<m>> \in Seq(S)
  OBVIOUS
<1>2. Append(s, m) = s \o <<m>>
  BY AppendIsConcat
<1>3. Range(s \o <<m>>) = Range(s) \cup Range(<<m>>)
  BY <1>1, RangeOfConcat
<1> QED
  BY <1>2, <1>3, RangeOfOne

\* The head split off.
LEMMA HeadAndTail ==
    ASSUME NEW S, NEW s \in Seq(S), s # <<>>
    PROVE  /\ Head(s) \in S /\ Tail(s) \in Seq(S)
           /\ s = <<Head(s)>> \o Tail(s)
           /\ Range(s) = {Head(s)} \cup Range(Tail(s))
<1>1. Head(s) \in S /\ Tail(s) \in Seq(S)
  BY HeadTailProperties
<1>2. s = <<Head(s)>> \o Tail(s)
  OBVIOUS
<1>3. <<Head(s)>> \in Seq(S)
  BY <1>1
<1>4. Tail(s) \in Seq(S)
  BY <1>1
<1>5. Range(<<Head(s)>> \o Tail(s)) = Range(<<Head(s)>>) \cup Range(Tail(s))
  BY <1>3, <1>4, RangeOfConcat
<1> QED
  BY <1>1, <1>2, <1>5, RangeOfOne

Increasing(s) == \A i, j \in DOMAIN s : i < j => s[i] < s[j]

\* A larger number at the end keeps the order.
LEMMA IncreasingAppend ==
    ASSUME NEW s \in Seq(Nat), Increasing(s), NEW m \in Nat,
           \A k \in Range(s) : k < m
    PROVE  Increasing(Append(s, m))
<1> DEFINE t == Append(s, m)
<1>1. DOMAIN t = 1 .. Len(s) + 1 /\ DOMAIN s = 1 .. Len(s) /\ Len(s) \in Nat
  OBVIOUS
<1>2. t[Len(s) + 1] = m /\ \A i \in 1 .. Len(s) : t[i] = s[i] /\ s[i] < m
  BY DEF Range
<1> HIDE DEF t
<1>3. ASSUME NEW i \in DOMAIN t, NEW j \in DOMAIN t, i < j
      PROVE  t[i] < t[j]
  <2>1. i \in 1 .. Len(s) /\ (j \in 1 .. Len(s) \/ j = Len(s) + 1)
    BY <1>1, <1>3
  <2> QED
    BY <1>1, <1>2, <1>3, <2>1 DEF Increasing
<1>4. Increasing(t)
  BY <1>3 DEF Increasing
<1> QED
  BY <1>4 DEF t

\* Leaving out the head of the second part keeps the order, and that head is
\* nowhere else.
LEMMA IncreasingWithout ==
    ASSUME NEW s \in Seq(Nat), NEW t \in Seq(Nat), t # <<>>, Increasing(s \o t)
    PROVE  /\ Increasing(s \o Tail(t))
           /\ Head(t) \notin Range(s \o Tail(t))
<1> DEFINE u == s \o t
           v == s \o Tail(t)
           f(i) == IF i <= Len(s) THEN i ELSE i + 1
           h == Len(s) + 1
<1>1. /\ Len(s) \in Nat /\ Len(t) \in Nat /\ Len(t) > 0
      /\ DOMAIN u = 1 .. Len(s) + Len(t)
      /\ DOMAIN v = 1 .. Len(s) + Len(t) - 1
  OBVIOUS
<1>2. \A i \in DOMAIN v : v[i] = u[f(i)]
  <2>1. ASSUME NEW i \in DOMAIN v, i <= Len(s)
        PROVE  v[i] = s[i] /\ u[i] = s[i]
    BY <1>1, <2>1
  <2>2. ASSUME NEW i \in DOMAIN v, ~(i <= Len(s))
        PROVE  v[i] = Tail(t)[i - Len(s)] /\ u[i + 1] = t[i + 1 - Len(s)]
    <3>1. Tail(t) \in Seq(Nat) /\ Len(Tail(t)) = Len(t) - 1
      BY HeadTailProperties
    <3>2. i \in 1 .. Len(s) + Len(Tail(t)) /\ i + 1 \in 1 .. Len(s) + Len(t)
      BY <1>1, <3>1, <2>2
    <3>3. v[i] = Tail(t)[i - Len(s)]
      BY <2>2, <3>1, <3>2, ConcatProperties
    <3>4. u[i + 1] = t[i + 1 - Len(s)]
      BY <1>1, <2>2, <3>2, ConcatProperties
    <3> QED
      BY <3>3, <3>4
  <2>3. ASSUME NEW i \in DOMAIN v, ~(i <= Len(s))
        PROVE  Tail(t)[i - Len(s)] = t[i - Len(s) + 1] /\ i + 1 - Len(s) = i - Len(s) + 1
    BY <1>1, <2>3
  <2> QED
    BY <2>1, <2>2, <2>3
<1>3. Head(t) = u[h]
  BY <1>1
<1>4. \A i \in DOMAIN u : u[i] \in Nat
  BY <1>1, ConcatProperties, ElementOfSeq
<1>5. /\ \A i, j \in DOMAIN v : /\ f(i) \in DOMAIN u /\ f(j) \in DOMAIN u
                                /\ i < j => f(i) < f(j)
      /\ h \in DOMAIN u
      /\ \A i \in DOMAIN v : f(i) \in DOMAIN u /\ (f(i) < h \/ h < f(i))
  <2> DEFINE l == Len(s)
             n == Len(s) + Len(t) - 1
  <2>1. l \in Nat /\ n \in Nat /\ l <= n
    BY <1>1
  <2>2. DOMAIN u = 1 .. n + 1 /\ DOMAIN v = 1 .. n
    BY <1>1
  <2> HIDE DEF l, n, u, v
  <2>3. \A i \in 1 .. n : i \in 1 .. n + 1 /\ i + 1 \in 1 .. n + 1
    BY <2>1
  <2>4. \A i \in 1 .. n : (i <= l /\ f(i) = i) \/ (i > l /\ f(i) = i + 1)
    <3> TAKE i \in 1 .. n
    <3>1. f(i) = IF i <= l THEN i ELSE i + 1
      BY DEF l
    <3>2. i \in Nat
      BY <2>1
    <3> HIDE DEF f
    <3> QED
      BY <2>1, <3>1, <3>2
  <2>5. h = l + 1
    BY DEF l
  <2> HIDE DEF f, h
  <2>6. \A i \in 1 .. n : f(i) \in 1 .. n + 1 /\ (f(i) < h \/ h < f(i))
    BY <2>1, <2>3, <2>4, <2>5
  <2>7. ASSUME NEW i \in 1 .. n, NEW j \in 1 .. n, i < j PROVE f(i) < f(j)
    BY <2>1, <2>4, <2>7
  <2>8. h \in 1 .. n + 1
    BY <2>1, <2>5
  <2> QED
    BY <2>2, <2>6, <2>7, <2>8
<1>6. Increasing(u)
  OBVIOUS
<1> HIDE DEF u, v, f, h
<1>7. ASSUME NEW i \in DOMAIN v, NEW j \in DOMAIN v, i < j
      PROVE  v[i] < v[j]
  <2>1. f(i) \in DOMAIN u /\ f(j) \in DOMAIN u /\ f(i) < f(j)
    BY <1>5, <1>7
  <2>2. u[f(i)] < u[f(j)]
    BY <1>6, <2>1 DEF Increasing
  <2> QED
    BY <1>2, <2>2
<1>8. ASSUME NEW i \in DOMAIN v
      PROVE  v[i] # u[h]
  <2>1. u[f(i)] < u[h] \/ u[h] < u[f(i)]
    BY <1>5, <1>6 DEF Increasing
  <2>2. u[f(i)] \in Nat /\ u[h] \in Nat
    BY <1>4, <1>5
  <2> QED
    BY <1>2, <2>1, <2>2
<1>9. Increasing(v)
  BY <1>7 DEF Increasing
<1>10. u[h] \notin Range(v)
  BY <1>8 DEF Range
<1> QED
  BY <1>3, <1>9, <1>10 DEF v

-----------------------------------------------------------------------------
(* The elements of the queue and of the pipeline after a step.             *)

LEMMA RangeWhenTaken ==
    ASSUME TypeOK, MessageIsTaken
    PROVE  /\ Head(queue) \in Messages
           /\ Range(queue) = {Head(queue)} \cup Range(queue')
<1>1. queue \in Seq(Messages) /\ queue # <<>> /\ queue' = Tail(queue)
  BY DEF TypeOK, MessageIsTaken
<1> QED
  BY <1>1, HeadAndTail

LEMMA RangeWhenSent ==
    ASSUME TypeOK, MessageIsSent
    PROVE  Range(sent') = Range(sent) \cup {sender.msg}
<1>1. sent \in Seq(Messages) /\ sender.msg \in Messages /\ sent' = Append(sent, sender.msg)
  BY DEF TypeOK, MessageIsSent
<1> QED
  BY <1>1, RangeOfAppend

LEMMA RangeWhenGivenBack ==
    ASSUME TypeOK, MessageIsGivenBack
    PROVE  Range(queue') = {sender.msg} \cup Range(queue)
<1>1. queue \in Seq(Messages) /\ sender.msg \in Messages
  BY DEF TypeOK, MessageIsGivenBack
<1>2. <<sender.msg>> \in Seq(Messages)
  BY <1>1
<1>3. Range(<<sender.msg>> \o queue) = Range(<<sender.msg>>) \cup Range(queue)
  BY <1>1, <1>2, RangeOfConcat
<1> QED
  BY <1>3, RangeOfOne DEF MessageIsGivenBack

LEMMA RangeWhenAdded ==
    ASSUME TypeOK, MessageIsAdded
    PROVE  Range(queue') = Range(queue) \cup {handed'}
<1>1. queue \in Seq(Messages) /\ handed' \in Messages /\ queue' = Append(queue, handed')
  BY DEF TypeOK, MessageIsAdded
<1> QED
  BY <1>1, RangeOfAppend

LEMMA RangeWhenExchanged ==
    ASSUME TypeOK, MessageIsExchanged
    PROVE  /\ Head(queue) \in Messages /\ Tail(queue) \in Seq(Messages)
           /\ Range(queue) = {Head(queue)} \cup Range(Tail(queue))
           /\ Range(queue') = Range(Tail(queue)) \cup {handed'}
<1>1. queue \in Seq(Messages) /\ queue # <<>>
  BY DEF TypeOK, MessageIsExchanged
<1>2. /\ Head(queue) \in Messages /\ Tail(queue) \in Seq(Messages)
      /\ Range(queue) = {Head(queue)} \cup Range(Tail(queue))
  BY <1>1, HeadAndTail
<1>3. handed' \in Messages /\ queue' = Append(Tail(queue), handed')
  BY DEF MessageIsExchanged
<1>4. Range(Append(Tail(queue), handed')) = Range(Tail(queue)) \cup {handed'}
  <2>1. PICK m \in Messages : m = handed'
    BY <1>3
  <2>2. PICK t \in Seq(Messages) : t = Tail(queue)
    BY <1>2
  <2>3. Range(Append(t, m)) = Range(t) \cup {m}
    BY RangeOfAppend
  <2> QED
    BY <2>1, <2>2, <2>3
<1> QED
  BY <1>2, <1>3, <1>4

LEMMA HandTyped ==
    ASSUME NEW m \in Messages \cup {None}
    PROVE  /\ Hand(m) \in Seq(Messages)
           /\ Range(Hand(m)) = Held(m)
<1>1. CASE m = None
  BY <1>1, EmptySeq DEF Hand, Held, Range
<1>2. CASE m # None
  <2>1. Hand(m) = <<m>> /\ Held(m) = {m} /\ m \in Messages
    BY <1>2 DEF Hand, Held
  <2> QED
    BY <2>1, RangeOfOne
<1> QED
  BY <1>1, <1>2

\* What is joined to a pipeline's three parts is made of messages.
LEMMA PartsTyped ==
    ASSUME NEW s \in Seq(Messages), NEW m \in Messages \cup {None},
           NEW q \in Seq(Messages)
    PROVE  /\ s \o Hand(m) \in Seq(Messages)
           /\ s \o Hand(m) \o q \in Seq(Messages)
           /\ Range(s \o Hand(m) \o q) = Range(s) \cup Held(m) \cup Range(q)
<1>1. Hand(m) \in Seq(Messages)
  BY HandTyped
<1>2. s \o Hand(m) \in Seq(Messages)
  BY <1>1, ConcatProperties
<1>3. s \o Hand(m) \o q \in Seq(Messages)
  BY <1>2, ConcatProperties
<1>4. Range((s \o Hand(m)) \o q) = Range(s \o Hand(m)) \cup Range(q)
  BY <1>2, RangeOfConcat
<1>5. Range(s \o Hand(m)) = Range(s) \cup Range(Hand(m))
  BY <1>1, RangeOfConcat
<1> QED
  BY <1>2, <1>3, <1>4, <1>5, HandTyped

\* The types of the parts, one by one.
LEMMA PipelineTyped ==
    ASSUME TypeOK
    PROVE  /\ sent \in Seq(Messages) /\ sender.msg \in Messages \cup {None}
           /\ queue \in Seq(Messages)
           /\ Range(Pipeline) = Range(sent) \cup Held(sender.msg) \cup Range(queue)
<1>1. /\ sent \in Seq(Messages) /\ sender.msg \in Messages \cup {None}
      /\ queue \in Seq(Messages)
  BY DEF TypeOK
<1> QED
  BY <1>1, PartsTyped DEF Pipeline

\* None is no message: the two forms of Held.
LEMMA HeldForms == Held(None) = {} /\ \A m \in Messages : Held(m) = {m}
  BY NoneIsNothing DEF Held

-----------------------------------------------------------------------------
(* Nothing vanishes.                                                       *)

LEMMA StepKeepsMessages ==
    ASSUME TypeOK, NothingVanishes, [Next]_vars
    PROVE  NothingVanishes'
<1> DEFINE All == Range(sent) \cup (Range(queue) \cup Held(sender.msg)) \cup dropped
<1>1. /\ NothingVanishes <=> 1 .. handed = All
      /\ NothingVanishes' <=> 1 .. handed' = All'
  BY DEF NothingVanishes, Waiting, InHand, Held
<1>2. handed' = handed + 1 => 1 .. handed' = 1 .. handed \cup {handed'}
  BY HandedTyped
<1>3. CASE MessagesStay
  BY <1>1, <1>3 DEF MessagesStay
<1>4. CASE MessageIsTaken
  BY <1>1, <1>4, RangeWhenTaken, HeldForms DEF MessageIsTaken
<1>5. CASE MessageIsSent
  BY <1>1, <1>5, RangeWhenSent, HeldForms DEF MessageIsSent
<1>6. CASE MessageIsGivenBack
  BY <1>1, <1>6, RangeWhenGivenBack, HeldForms DEF MessageIsGivenBack
<1>7. CASE MessageIsAdded
  BY <1>1, <1>2, <1>7, RangeWhenAdded DEF MessageIsAdded
<1>8. CASE MessageIsExchanged
  BY <1>1, <1>2, <1>8, RangeWhenExchanged DEF MessageIsExchanged
<1> QED
  BY <1>3, <1>4, <1>5, <1>6, <1>7, <1>8, StepsMoveMessages

-----------------------------------------------------------------------------
(* The order in which messages leave, and what was dropped.                *)

\* A message that the full queue dropped is neither sent nor waiting.
DroppedForGood == dropped \cap Range(Pipeline) = {}

LEMMA OrderOfPipeline ==
    /\ SentInOrder <=> Increasing(Pipeline)
    /\ SentInOrder' <=> Increasing(Pipeline')
  BY DEF SentInOrder, Increasing, Pipeline, Hand

\* A new message is larger than all that were sent or wait.
LEMMA NewIsLargest ==
    ASSUME TypeOK, NothingVanishes
    PROVE  /\ \A k \in Range(Pipeline) : k < handed + 1
           /\ handed + 1 \notin dropped
<1>1. Range(Pipeline) \subseteq 1 .. handed /\ dropped \subseteq 1 .. handed
  BY PipelineTyped DEF NothingVanishes, Waiting, InHand, Held
<1> QED
  BY <1>1, HandedTyped

\* Taking a message, sending it and giving it back move the border between
\* the parts of the pipeline.
LEMMA PipelineStays ==
    ASSUME TypeOK, MessagesStay \/ MessageIsTaken \/ MessageIsSent \/ MessageIsGivenBack
    PROVE  Pipeline' = Pipeline
<1>1. Pipeline' = sent' \o Hand(sender'.msg) \o queue'
  BY DEF Pipeline, Hand
<1>2. /\ sent \in Seq(Messages) /\ queue \in Seq(Messages)
      /\ Hand(None) = <<>> /\ \A m \in Messages : Hand(m) = <<m>>
  BY PipelineTyped, NoneIsNothing DEF Hand
<1>3. CASE MessagesStay
  BY <1>1, <1>3 DEF MessagesStay, Pipeline
<1>4. CASE MessageIsTaken
  <2>1. /\ Head(queue) \in Messages /\ Tail(queue) \in Seq(Messages)
        /\ queue = <<Head(queue)>> \o Tail(queue)
    BY <1>2, <1>4, HeadAndTail DEF MessageIsTaken
  <2>2. <<Head(queue)>> \in Seq(Messages)
    BY <2>1
  <2>3. (sent \o <<Head(queue)>>) \o Tail(queue)
            = sent \o (<<Head(queue)>> \o Tail(queue))
    BY <1>2, <2>1, <2>2, ConcatAssociative
  <2>4. Pipeline = sent \o queue
    BY <1>2, <1>4, ConcatEmptySeq DEF Pipeline, MessageIsTaken
  <2>5. Pipeline' = (sent \o <<Head(queue)>>) \o Tail(queue)
    BY <1>1, <1>2, <1>4, <2>1 DEF MessageIsTaken
  <2> QED
    BY <2>1, <2>3, <2>4, <2>5
<1>5. CASE MessageIsSent
  <2>1. sent' = sent \o <<sender.msg>>
    BY <1>2, <1>5, AppendIsConcat DEF MessageIsSent
  <2>2. sent' \in Seq(Messages)
    BY <1>2, <1>5, AppendProperties DEF MessageIsSent
  <2>3. Pipeline' = sent' \o queue
    BY <1>1, <1>2, <1>5, <2>2, ConcatEmptySeq DEF MessageIsSent
  <2> QED
    BY <1>2, <1>5, <2>1, <2>3 DEF MessageIsSent, Pipeline
<1>6. CASE MessageIsGivenBack
  <2>1. <<sender.msg>> \in Seq(Messages)
    BY <1>6 DEF MessageIsGivenBack
  <2>2. (sent \o <<sender.msg>>) \o queue = sent \o (<<sender.msg>> \o queue)
    BY <1>2, <2>1, ConcatAssociative
  <2>3. Pipeline' = sent \o queue'
    BY <1>1, <1>2, <1>6, ConcatEmptySeq DEF MessageIsGivenBack
  <2> QED
    BY <1>2, <1>6, <2>2, <2>3 DEF MessageIsGivenBack, Pipeline
<1> QED
  BY <1>3, <1>4, <1>5, <1>6

\* A new message joins the end of the pipeline; it may take the place of the
\* head of the queue.
LEMMA PipelineGrows ==
    ASSUME TypeOK, NEW q \in Seq(Messages),
           handed' \in Messages, queue' = Append(q, handed'),
           UNCHANGED sent, sender'.msg = sender.msg
    PROVE  Pipeline' = Append(sent \o Hand(sender.msg) \o q, handed')
<1>1. Pipeline' = sent \o Hand(sender.msg) \o Append(q, handed')
  BY DEF Pipeline, Hand
<1>2. PICK s \in Seq(Messages) : s = sent \o Hand(sender.msg)
  BY PipelineTyped, PartsTyped
<1>3. s \o Append(q, handed') = Append(s \o q, handed')
  <2>1. PICK m \in Messages : m = handed'
    OBVIOUS
  <2>2. <<m>> \in Seq(Messages) /\ s \o q \in Seq(Messages)
    BY ConcatProperties
  <2>3. Append(q, m) = q \o <<m>>
    BY AppendIsConcat
  <2>4. Append(s \o q, m) = (s \o q) \o <<m>>
    BY <2>2, AppendIsConcat
  <2>5. (s \o q) \o <<m>> = s \o (q \o <<m>>)
    BY <2>2, ConcatAssociative
  <2> QED
    BY <2>1, <2>3, <2>4, <2>5
<1> QED
  BY <1>1, <1>2, <1>3

LEMMA StepKeepsOrder ==
    ASSUME TypeOK, NothingVanishes, SentInOrder, DroppedForGood, [Next]_vars
    PROVE  SentInOrder' /\ DroppedForGood'
<1>0. Messages \subseteq Nat
  BY DEF Messages
<1>1. CASE MessagesStay \/ MessageIsTaken \/ MessageIsSent \/ MessageIsGivenBack
  <2>1. UNCHANGED dropped
    BY <1>1 DEF MessagesStay, MessageIsTaken, MessageIsSent, MessageIsGivenBack
  <2> QED
    BY <1>1, <2>1, PipelineStays, OrderOfPipeline DEF DroppedForGood
<1>2. CASE MessageIsAdded
  <2>1. /\ queue' = Append(queue, handed') /\ handed' = handed + 1
        /\ handed' \in Messages /\ UNCHANGED <<sent, dropped>>
        /\ sender'.msg = sender.msg
    BY <1>2 DEF MessageIsAdded
  <2>2. Pipeline' = Append(Pipeline, handed')
    BY <2>1, PipelineTyped, PipelineGrows DEF Pipeline
  <2>3. Pipeline \in Seq(Messages)
    BY PipelineTyped, PartsTyped DEF Pipeline
  <2>4. Pipeline \in Seq(Nat) /\ handed' \in Nat
    BY <1>0, <2>1, <2>3, SeqMonotonic
  <2>5. Increasing(Append(Pipeline, handed'))
    BY <2>1, <2>4, NewIsLargest, IncreasingAppend, OrderOfPipeline
  <2>6. Range(Append(Pipeline, handed')) = Range(Pipeline) \cup {handed'}
    BY <2>4, RangeOfAppend
  <2> QED
    BY <2>1, <2>2, <2>5, <2>6, NewIsLargest, OrderOfPipeline DEF DroppedForGood
<1>3. CASE MessageIsExchanged
  <2> DEFINE front == sent \o Hand(sender.msg)
             rest == front \o Tail(queue)
  <2>1. /\ queue' = Append(Tail(queue), handed') /\ handed' = handed + 1
        /\ handed' \in Messages /\ UNCHANGED sent /\ sender'.msg = sender.msg
        /\ dropped' = dropped \cup {Head(queue)} /\ queue # <<>>
    BY <1>3 DEF MessageIsExchanged
  <2>2. /\ Tail(queue) \in Seq(Messages) /\ Head(queue) \in Messages
        /\ Range(queue) = {Head(queue)} \cup Range(Tail(queue))
    BY <1>3, RangeWhenExchanged
  <2>3. Pipeline' = Append(rest, handed')
    BY <2>1, <2>2, PipelineGrows
  <2>4. rest \in Seq(Messages) /\ front \in Seq(Messages)
    BY <2>2, PipelineTyped, PartsTyped
  <2>5. /\ rest \in Seq(Nat) /\ front \in Seq(Nat) /\ queue \in Seq(Nat)
        /\ handed' \in Nat
    BY <1>0, <2>1, <2>4, PipelineTyped, SeqMonotonic
  <2>6. Range(rest) \subseteq Range(Pipeline) /\ Head(queue) \in Range(Pipeline)
    <3>1. Range(rest) = Range(sent) \cup Held(sender.msg) \cup Range(Tail(queue))
      <4>1. PICK t \in Seq(Messages) : t = Tail(queue)
        BY <2>2
      <4>2. PICK m \in Messages \cup {None} : m = sender.msg
        BY PipelineTyped
      <4>3. Range(sent \o Hand(m) \o t) = Range(sent) \cup Held(m) \cup Range(t)
        BY PipelineTyped, PartsTyped
      <4> QED
        BY <4>1, <4>2, <4>3
    <3> QED
      BY <2>2, <3>1, PipelineTyped
  <2>7. Increasing(rest) /\ Head(queue) \notin Range(rest)
    <3>1. Increasing(front \o queue)
      BY OrderOfPipeline DEF Pipeline
    <3> QED
      BY <2>1, <2>5, <3>1, IncreasingWithout
  <2> HIDE DEF rest, front
  <2>8. Increasing(Append(rest, handed'))
    BY <2>1, <2>5, <2>6, <2>7, NewIsLargest, IncreasingAppend
  <2>9. Range(Append(rest, handed')) = Range(rest) \cup {handed'}
    <3>1. PICK m \in Nat : m = handed'
      BY <2>5
    <3>2. Range(Append(rest, m)) = Range(rest) \cup {m}
      BY <2>5, RangeOfAppend
    <3> QED
      BY <3>1, <3>2
  <2>10. handed' \notin dropped /\ handed' # Head(queue)
    <3>1. Head(queue) < handed + 1 /\ Head(queue) \in Nat
      BY <1>0, <2>2, <2>6, NewIsLargest
    <3> QED
      BY <2>1, <3>1, NewIsLargest, HandedTyped
  <2> QED
    BY <2>1, <2>3, <2>6, <2>7, <2>8, <2>9, <2>10, OrderOfPipeline DEF DroppedForGood
<1> QED
  BY <1>1, <1>2, <1>3, StepsMoveMessages

-----------------------------------------------------------------------------
(* The theorems.                                                           *)

\* The inductive invariant.
Inv ==
    /\ TypeOK /\ ThreadsAreJoined
    /\ QueueBounded /\ NothingVanishes /\ SentInOrder /\ DroppedForGood

LEMMA InitInv == Init => Inv
<1> SUFFICES ASSUME Init PROVE Inv
  OBVIOUS
<1>1. sender.msg = None /\ queue = <<>> /\ sent = <<>> /\ dropped = {} /\ handed = 0
  BY DEF Init
<1>2. TypeOK /\ ThreadsAreJoined
  BY InitTyped
<1>3. QueueBounded
  BY <1>1, HandCounts, SizeAssumption DEF QueueBounded
<1>4. Range(sent) = {} /\ Range(queue) = {}
  BY <1>1 DEF Range
<1>5. NothingVanishes
  BY <1>1, <1>4 DEF NothingVanishes, Waiting, InHand
<1>6. SentInOrder
  BY <1>1 DEF SentInOrder
<1>7. DroppedForGood
  BY <1>1 DEF DroppedForGood
<1> QED
  BY <1>2, <1>3, <1>5, <1>6, <1>7 DEF Inv

LEMMA StepInv == Inv /\ [Next]_vars => Inv'
<1> SUFFICES ASSUME Inv, [Next]_vars PROVE Inv'
  OBVIOUS
<1>1. TypeOK' /\ ThreadsAreJoined'
  BY StepTyped DEF Inv
<1>2. QueueBounded' /\ NothingVanishes'
  BY <1>1, StepKeepsBound, StepKeepsMessages DEF Inv
<1>3. SentInOrder' /\ DroppedForGood'
  BY <1>1, StepKeepsOrder DEF Inv
<1> QED
  BY <1>1, <1>2, <1>3 DEF Inv

\* The inductive invariant holds in every reachable state of the agent's
\* socket client, however its threads, its start and stop and Hadice
\* interleave.
THEOREM Invariance == Spec => []Inv
  BY InitInv, StepInv, PTL DEF Spec

\* Type correctness: in particular the sender holds a message just where it
\* sends it or gives it back, and a start finds both threads joined.
THEOREM TypeCorrectness == Spec => []TypeOK
<1>1. Inv => TypeOK
  BY DEF Inv
<1> QED
  BY <1>1, Invariance, PTL

\* sendMessage keeps the queue within MAX_QUEUE_SIZE, and what senderLoop
\* gives back after a failed send() exceeds it by one message at most.
THEOREM QueueStaysBounded == Spec => []QueueBounded
<1>1. Inv => QueueBounded
  BY DEF Inv
<1> QED
  BY <1>1, Invariance, PTL

\* Over any number of connections, messages leave in the order in which the
\* interceptors handed them over, and none twice.
THEOREM MessagesLeaveInOrder == Spec => []SentInOrder
<1>1. Inv => SentInOrder
  BY DEF Inv
<1> QED
  BY <1>1, Invariance, PTL

\* A message handed over is sent, waits, or was dropped by a full queue.
THEOREM MessagesAreAccountedFor == Spec => []NothingVanishes
<1>1. Inv => NothingVanishes
  BY DEF Inv
<1> QED
  BY <1>1, Invariance, PTL

\* What a full queue dropped is neither waiting nor sent, at no later time:
\* with the theorem above, every message has one fate.
THEOREM DroppedStaysDropped == Spec => []DroppedForGood
<1>1. Inv => DroppedForGood
  BY DEF Inv
<1> QED
  BY <1>1, Invariance, PTL
=============================================================================
