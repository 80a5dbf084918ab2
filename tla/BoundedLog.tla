------------------------------ MODULE BoundedLog -----------------------------
(* What the log page expects of its buffer: the last Capacity entries, in    *)
(* the order in which they arrived.                                          *)
EXTENDS Naturals, Sequences

CONSTANTS Items, Capacity

VARIABLE log

(* The newest entry takes the place of the oldest one of a full log.         *)
Pushed(s, e) == IF Len(s) < Capacity THEN Append(s, e) ELSE Append(Tail(s), e)

Init == log = <<>>

Push(e) == log' = Pushed(log, e)

Clear == log' = <<>>

Next == (\E e \in Items : Push(e)) \/ Clear

Spec == Init /\ [][Next]_log
=============================================================================
