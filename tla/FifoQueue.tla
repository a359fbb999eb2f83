------------------------------ MODULE FifoQueue ------------------------------
(***************************************************************************)
(* What a MessageQueue promises its callers: an unbounded first-in         *)
(* first-out queue whose operations are atomic.  An enqueue appends, a     *)
(* dequeue hands the oldest message to one consumer, and a message that    *)
(* is in the queue does not stay there forever.                            *)
(***************************************************************************)
EXTENDS Sequences

CONSTANTS Consumers,   \* threads that may call dequeue
          Messages,    \* the messages that may be enqueued
          Null         \* "no message"

VARIABLES queue,       \* messages accepted and not yet handed out, oldest first
          hand         \* hand[c]: the message dequeue has handed to c

vars == <<queue, hand>>

Init ==
  /\ queue = <<>>
  /\ hand = [c \in Consumers |-> Null]

Put(m) ==
  /\ queue' = Append(queue, m)
  /\ UNCHANGED hand

Take(c) ==
  /\ hand[c] = Null
  /\ queue # <<>>
  /\ hand' = [hand EXCEPT ![c] = Head(queue)]
  /\ queue' = Tail(queue)

\* The consumer is done with the message it was handed.
Release(c) ==
  /\ hand[c] # Null
  /\ hand' = [hand EXCEPT ![c] = Null]
  /\ UNCHANGED queue

Next ==
  \/ \E m \in Messages : Put(m)
  \/ \E c \in Consumers : Take(c) \/ Release(c)

\* The part of the promise that is safety only.
SafeSpec == Init /\ [][Next]_vars

\* A queue that is not empty is eventually served.
Spec == SafeSpec /\ WF_vars(\E c \in Consumers : Take(c))
=============================================================================
