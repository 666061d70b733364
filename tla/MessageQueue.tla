---------------------------- MODULE MessageQueue ----------------------------
(***************************************************************************)
(* What the /dev/oclaw ring buffer promises its users: a bounded FIFO of   *)
(* whole messages.  A write either appends one message at the back or, if *)
(* the queue is full, leaves it unchanged; a read removes the message at  *)
(* the front and hands it out.  Nothing is dropped, duplicated or         *)
(* reordered inside it: a message leaves the queue only by being read.    *)
(***************************************************************************)
EXTENDS Naturals, Sequences

CONSTANTS Msgs,      \* the messages that can be written
          Capacity   \* how many messages fit at once

VARIABLES queue,   \* the messages held, oldest first
          removed  \* the messages handed out by reads

TypeOK == /\ queue \in Seq(Msgs) /\ Len(queue) <= Capacity
          /\ removed \subseteq Msgs

Init == queue = <<>> /\ removed = {}

Enqueue(m) == /\ Len(queue) < Capacity
              /\ queue' = Append(queue, m)
              /\ UNCHANGED removed

Dequeue == /\ queue # <<>>
           /\ queue' = Tail(queue)
           /\ removed' = removed \cup {Head(queue)}

Next == (\E m \in Msgs : Enqueue(m)) \/ Dequeue

Spec == Init /\ [][Next]_<<queue, removed>>

=============================================================================
