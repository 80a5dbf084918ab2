----------------------------- MODULE AgentSocket -----------------------------
(***************************************************************************)
(* agent/src/socket_client.cpp: how the agent inside an Android app sends  *)
(* what it captured to Hadice.  Interceptor threads put messages into a    *)
(* bounded queue and never wait; senderLoop keeps a connection and sends,  *)
(* readerLoop receives and notices that the connection was closed.         *)
(*                                                                         *)
(* Messages are numbered as they are handed over.  An action is what a     *)
(* thread does under one lock, or between two reads of shared fields.      *)
(***************************************************************************)
EXTENDS Naturals, Sequences, FiniteSets, Functions

CONSTANTS MaxMessages,  \* messages handed over (bounds them)
          MaxQueue,     \* MAX_QUEUE_SIZE
          Sockets,      \* descriptors, reused when closed
          None          \* descriptor -1, no message

ASSUME SizeAssumption == MaxMessages \in Nat /\ MaxQueue \in Nat \ {0}
ASSUME NoSocketAssumption == None \notin Sockets \cup Nat

Messages == 1 .. MaxMessages

VARIABLES
    running,     \* running_
    connected,   \* connected_
    socket,      \* socket_fd_
    peer,        \* the other end of the current connection is there
    hostUp,      \* Hadice accepts connections
    queue,       \* message_queue_
    handed,      \* how many messages sendMessage was given
    sender,      \* senderLoop: program counter, message in hand
    reader,      \* readerLoop: program counter, its copy of the descriptor
    stopper,     \* stopBackgroundThreads
    sent,        \* the messages send() took, in order
    dropped      \* the messages a full queue dropped

vars == <<running, connected, socket, peer, hostUp, queue, handed, sender,
          reader, stopper, sent, dropped>>

link == <<connected, socket, peer>>
messages == <<queue, handed, sent, dropped>>

TypeOK ==
    /\ {running, connected, peer, hostUp} \subseteq BOOLEAN
    /\ socket \in Sockets \cup {None}
    /\ queue \in Seq(Messages)
    /\ handed \in 0 .. MaxMessages
    /\ sender \in [pc: {"off", "top", "connecting", "take", "block", "waiting",
                        "send", "drop link", "requeue"},
                   msg: Messages \cup {None}]
    /\ reader \in [pc: {"off", "top", "copy", "select", "recv", "hang up", "notify"},
                   fd: Sockets \cup {None}]
    /\ sender.msg # None <=> sender.pc \in {"send", "drop link", "requeue"}
    /\ reader.fd # None <=> reader.pc \in {"select", "recv"}
    /\ stopper \in {"idle", "notify", "join"}
    /\ sent \in Seq(Messages)
    /\ dropped \subseteq Messages

Init ==
    /\ running = FALSE /\ connected = FALSE /\ hostUp = FALSE
    /\ socket = None /\ peer = FALSE
    /\ queue = <<>>
    /\ handed = 0
    /\ sender = [pc |-> "off", msg |-> None]
    /\ reader = [pc |-> "off", fd |-> None]
    /\ stopper = "idle"
    /\ sent = <<>>
    /\ dropped = {}

\* senderLoop holds queue_mutex_ between its last look at the condition and
\* going to sleep.
QueueLocked == sender.pc = "block"

SenderAt(pc) == sender' = [sender EXCEPT !.pc = pc]
ReaderAt(pc) == reader' = [reader EXCEPT !.pc = pc]

\* notify_one, notify_all: a sender that is not asleep yet hears nothing.
Woken(s) == IF s.pc = "waiting" THEN [s EXCEPT !.pc = "take"] ELSE s

\* disconnectInternal closes whatever descriptor the field holds by now.
DisconnectInternal ==
    /\ socket' = None /\ peer' = FALSE
    /\ connected' = FALSE

-----------------------------------------------------------------------------
(* Interceptor threads, and the start and stop of the agent.               *)

\* sendMessage, where a full queue gives up its oldest message.
SendMessageWhen(full) ==
    /\ handed < MaxMessages
    /\ ~QueueLocked
    /\ handed' = handed + 1
    /\ queue' = Append(IF full THEN Tail(queue) ELSE queue, handed + 1)
    /\ dropped' = IF full THEN dropped \cup {Head(queue)} ELSE dropped
    /\ sender' = Woken(sender)
    /\ UNCHANGED <<running, link, hostUp, reader, stopper, sent>>

\* Mutant: the bound is off by one.
SendMessageUnbounded == SendMessageWhen(Len(queue) > MaxQueue)

SendMessage == SendMessageWhen(Len(queue) >= MaxQueue)

StartBackgroundThreads ==
    /\ ~running /\ stopper = "idle"
    /\ running' = TRUE
    /\ SenderAt("top")
    /\ ReaderAt("top")
    /\ UNCHANGED <<link, hostUp, messages, stopper>>

StopBackgroundThreads ==
    /\ running
    /\ running' = FALSE
    /\ stopper' = "notify"
    /\ UNCHANGED <<link, hostUp, messages, sender, reader>>

StopNotifies ==
    /\ stopper = "notify"
    /\ stopper' = "join"
    /\ sender' = Woken(sender)
    /\ UNCHANGED <<running, link, hostUp, messages, reader>>

StopJoins ==
    /\ stopper = "join" /\ sender.pc = "off" /\ reader.pc = "off"
    /\ stopper' = "idle"
    /\ DisconnectInternal
    /\ UNCHANGED <<running, hostUp, messages, sender, reader>>

-----------------------------------------------------------------------------
(* senderLoop.                                                             *)

\* The loop condition, and connectInternal up to the new descriptor, which
\* the field holds before the connection is there.  No other descriptor is
\* open then, so the number may be the one the reader still remembers.
SenderTop ==
    /\ sender.pc = "top"
    /\ \/ /\ ~running
          /\ SenderAt("off")
          /\ UNCHANGED <<socket, peer>>
       \/ /\ running
          /\ connected /\ socket # None
          /\ SenderAt("take")
          /\ UNCHANGED <<socket, peer>>
       \/ /\ running
          /\ ~connected \/ socket = None
          /\ socket' \in Sockets /\ peer' = TRUE
          /\ SenderAt("connecting")
    /\ UNCHANGED <<running, connected, hostUp, messages, reader, stopper>>

\* Success sets connected_, whatever has become of the descriptor meanwhile.
Connect ==
    /\ sender.pc = "connecting"
    /\ hostUp
    /\ connected' = TRUE
    /\ SenderAt("take")
    /\ UNCHANGED <<running, socket, peer, hostUp, messages, reader, stopper>>

\* Refused, or no answer within 500 ms: back off and try again.
ConnectFails ==
    /\ sender.pc = "connecting"
    /\ ~hostUp \/ socket = None
    /\ socket' = None /\ peer' = FALSE
    /\ SenderAt("top")
    /\ UNCHANGED <<running, connected, hostUp, messages, reader, stopper>>

\* The wait for work, and what follows it under the same lock; without a
\* connection the thread goes to lost.
TakeMessageOr(lost) ==
    /\ sender.pc = "take"
    /\ IF running /\ connected /\ queue # <<>>
       THEN /\ sender' = [pc |-> "send", msg |-> Head(queue)]
            /\ queue' = Tail(queue)
       ELSE /\ SenderAt(IF ~running THEN "off"
                        ELSE IF connected THEN "block" ELSE lost)
            /\ UNCHANGED queue
    /\ UNCHANGED <<running, link, hostUp, handed, sent, dropped, reader, stopper>>

\* Mutant: a lost connection does not end the wait for work.
TakeMessageConnected == TakeMessageOr("block")

TakeMessage == TakeMessageOr("top")

\* The thread goes to sleep and releases queue_mutex_.
Block ==
    /\ sender.pc = "block"
    /\ SenderAt("waiting")
    /\ UNCHANGED <<running, link, hostUp, messages, reader, stopper>>

\* send() took the message, or only its beginning: the code does not look.
SendSucceeds ==
    /\ sender.pc = "send" /\ socket # None
    /\ sent' = Append(sent, sender.msg)
    /\ sender' = [pc |-> "top", msg |-> None]
    /\ UNCHANGED <<running, link, hostUp, queue, handed, dropped, reader, stopper>>

\* No descriptor, a reset connection, or a full window for 3 seconds.
SendFails ==
    /\ sender.pc = "send"
    /\ SenderAt("drop link")
    /\ UNCHANGED <<running, link, hostUp, messages, reader, stopper>>

DropLink ==
    /\ sender.pc = "drop link"
    /\ DisconnectInternal
    /\ SenderAt("requeue")
    /\ UNCHANGED <<running, hostUp, messages, reader, stopper>>

RequeueAs(newQueue) ==
    /\ sender.pc = "requeue"
    /\ queue' = newQueue
    /\ sender' = [pc |-> "top", msg |-> None]
    /\ UNCHANGED <<running, link, hostUp, handed, sent, dropped, reader, stopper>>

\* Mutants: the message goes to the back of the queue, or is not given back.
RequeueAtBack == RequeueAs(Append(queue, sender.msg))
RequeueNothing == RequeueAs(queue)

\* The message goes back to the front of the queue, full or not.
Requeue == RequeueAs(<<sender.msg>> \o queue)

-----------------------------------------------------------------------------
(* readerLoop.                                                             *)

\* connected_ is read before the descriptor, and under no lock.
ReaderTop ==
    /\ reader.pc = "top"
    /\ \/ ~running /\ ReaderAt("off")
       \/ running /\ connected /\ ReaderAt("copy")
    /\ UNCHANGED <<running, link, hostUp, messages, sender, stopper>>

ReaderCopiesIf(usable) ==
    /\ reader.pc = "copy"
    /\ reader' = IF usable THEN [pc |-> "select", fd |-> socket]
                           ELSE [pc |-> "top", fd |-> None]
    /\ UNCHANGED <<running, link, hostUp, messages, sender, stopper>>

\* Mutant: the descriptor is used although there is none.
ReaderCopiesUnchecked == ReaderCopiesIf(TRUE)

ReaderCopies == ReaderCopiesIf(socket # None)

\* select: something to read (lines, or the end of the link), or 200 ms
\* without, or a descriptor that was closed.
ReaderSelects ==
    /\ reader.pc = "select"
    /\ \/ /\ reader.fd = socket
          /\ ReaderAt("recv")
       \/ /\ reader.fd = socket => peer
          /\ reader' = [pc |-> "top", fd |-> None]
    /\ UNCHANGED <<running, link, hostUp, messages, sender, stopper>>

\* recv: lines for the message handler; or the end of the link, or a
\* descriptor that the sender has closed since.
ReaderReceives ==
    /\ reader.pc = "recv"
    /\ \/ /\ reader.fd = socket /\ peer
          /\ reader' = [pc |-> "top", fd |-> None]
       \/ /\ ~(reader.fd = socket /\ peer)
          /\ reader' = [pc |-> IF running THEN "hang up" ELSE "top", fd |-> None]
    /\ UNCHANGED <<running, link, hostUp, messages, sender, stopper>>

ReaderHangsUp ==
    /\ reader.pc = "hang up"
    /\ DisconnectInternal
    /\ ReaderAt("notify")
    /\ UNCHANGED <<running, hostUp, messages, sender, stopper>>

ReaderNotifies ==
    /\ reader.pc = "notify"
    /\ ReaderAt("top")
    /\ sender' = Woken(sender)
    /\ UNCHANGED <<running, link, hostUp, messages, stopper>>

-----------------------------------------------------------------------------
(* Hadice: it comes and goes, and may close a connection at any time.      *)

HostStarts ==
    /\ ~hostUp
    /\ hostUp' = TRUE
    /\ UNCHANGED <<running, link, messages, sender, reader, stopper>>

HostStops ==
    /\ hostUp
    /\ hostUp' = FALSE /\ peer' = FALSE
    /\ UNCHANGED <<running, connected, socket, messages, sender, reader, stopper>>

HostHangsUp ==
    /\ peer
    /\ peer' = FALSE
    /\ UNCHANGED <<running, connected, socket, hostUp, messages, sender, reader,
                   stopper>>

-----------------------------------------------------------------------------
Sending ==
    \/ SenderTop \/ Connect \/ ConnectFails \/ TakeMessage \/ Block
    \/ SendSucceeds \/ SendFails \/ DropLink \/ Requeue

Reading ==
    \/ ReaderTop \/ ReaderCopies \/ ReaderSelects \/ ReaderReceives
    \/ ReaderHangsUp \/ ReaderNotifies

Next ==
    \/ SendMessage
    \/ StartBackgroundThreads \/ StopBackgroundThreads
    \/ StopNotifies \/ StopJoins
    \/ Sending \/ Reading
    \/ HostStarts \/ HostStops \/ HostHangsUp

Spec == Init /\ [][Next]_vars

\* The threads run on, and the window of a connection that lasts does not
\* stay full for ever.
Fairness ==
    /\ WF_vars(Sending) /\ SF_vars(SendSucceeds)
    /\ WF_vars(Reading)
    /\ WF_vars(StopNotifies) /\ WF_vars(StopJoins)

FairSpec == Spec /\ Fairness

-----------------------------------------------------------------------------
(* Properties.                                                             *)

InHand == IF sender.msg = None THEN {} ELSE {sender.msg}

Waiting == Range(queue) \cup InHand

\* A lost connection cannot make the queue outgrow its bound by more than the
\* one message that send() gave back.
QueueBounded == Len(queue) + Cardinality(InHand) <= MaxQueue + 1

\* Messages leave in the order they came, none twice, over however many
\* connections: what was sent is older than what is in hand, and that is
\* older than what is queued.
SentInOrder ==
    LET pipeline == sent \o (IF sender.msg = None THEN <<>> ELSE <<sender.msg>>)
                         \o queue
    IN  \A i, j \in DOMAIN pipeline : i < j => pipeline[i] < pipeline[j]

\* A message handed over is sent, or waits, or was dropped for a newer one.
NothingVanishes == 1 .. handed = Range(sent) \cup Waiting \cup dropped

\* When Hadice stays and keeps its connection, the agent is not stopped, and
\* messages wait, they get through.
BacklogIsDelivered ==
    <>[](running /\ hostUp /\ (socket # None => peer))
        => \A m \in Messages : m \in Waiting ~> m \notin Waiting

\* senderLoop: when the reader found the connection closed, the next turn
\* restores it and does not wait for another message to come.
ReconnectsWithoutMessage ==
    (running /\ hostUp /\ ~connected)
        ~> (connected \/ ~running \/ ~hostUp)
=============================================================================
