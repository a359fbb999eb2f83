---------------------------- MODULE MessageQueue ----------------------------
(***************************************************************************)
(* MessageQueue (message_queue.cpp): a std::deque protected by a mutex,    *)
(* with a counting semaphore that receivers wait on for up to one second.  *)
(*                                                                         *)
(* One action per step another thread can observe.  The two deque          *)
(* operations are not atomic in C++ (a concurrent access is a data race),  *)
(* so each is two steps: the thread reads the deque into its view, then    *)
(* writes the changed view back.  Only m_lock keeps the two together.      *)
(*                                                                         *)
(* The destructor runs when a User is deleted and is modelled there        *)
(* (ChatServer, DeleteUser).                                               *)
(***************************************************************************)
EXTENDS Integers, Sequences, FiniteSets

CONSTANTS Producers,     \* threads that call enqueue
          Consumers,     \* threads that call dequeue in a loop
          MaxMessages,   \* bound: enqueue is called at most this often
          Null           \* nullptr; also "nobody holds the mutex"

Threads == Producers \cup Consumers

\* Messages are told apart by their address: the n-th one allocated is n.
Messages == 1 .. MaxMessages

ASSUME QueueAssumption ==
  /\ Producers \cap Consumers = {}
  /\ IsFiniteSet(Producers) /\ IsFiniteSet(Consumers)
  /\ MaxMessages \in Nat
  /\ Null \notin Threads /\ Null \notin Messages

VARIABLES
  m_lock,       \* the thread that holds the mutex, or Null
  m_avail,      \* value of the semaphore
  m_messages,   \* the deque
  pc,           \* pc[t]: what thread t does next
  view,         \* view[t]: what t has read of the deque
  msg,          \* msg[t]: the local msg of enqueue or dequeue
  allocated     \* number of messages allocated so far

vars == <<m_lock, m_avail, m_messages, pc, view, msg, allocated>>

EnqueuePC == {"idle", "e_lock", "e_read", "e_write", "e_unlock", "e_post"}
DequeuePC == {"idle", "d_wait", "d_lock", "d_read", "d_write", "d_unlock", "d_return"}

TypeOK ==
  /\ m_lock \in Threads \cup {Null}
  /\ m_avail \in Nat
  /\ m_messages \in Seq(Messages)
  /\ pc \in [Threads -> EnqueuePC \cup DequeuePC]
  /\ \A p \in Producers : pc[p] \in EnqueuePC
  /\ \A c \in Consumers : pc[c] \in DequeuePC
  /\ view \in [Threads -> Seq(Messages)]
  /\ msg \in [Threads -> Messages \cup {Null}]
  /\ allocated \in 0 .. MaxMessages

\* MessageQueue::MessageQueue.
Init ==
  /\ m_lock = Null
  /\ m_avail = 0
  /\ m_messages = <<>>
  /\ pc = [t \in Threads |-> "idle"]
  /\ view = [t \in Threads |-> <<>>]
  /\ msg = [t \in Threads |-> Null]
  /\ allocated = 0

Goto(t, from, to) ==
  /\ pc[t] = from
  /\ pc' = [pc EXCEPT ![t] = to]

-----------------------------------------------------------------------------
\* Steps on the mutex and the deque that both operations take.

\* Mutant: the caller does not wait for the mutex.
LockWithoutWaiting(t, from, to) ==
  /\ Goto(t, from, to)
  /\ m_lock' = t
  /\ UNCHANGED <<m_avail, m_messages, view, msg, allocated>>

Lock(t, from, to) ==
  /\ Goto(t, from, to)
  /\ m_lock = Null
  /\ m_lock' = t
  /\ UNCHANGED <<m_avail, m_messages, view, msg, allocated>>

Unlock(t, from, to) ==
  /\ Goto(t, from, to)
  /\ m_lock' = Null
  /\ UNCHANGED <<m_avail, m_messages, view, msg, allocated>>

ReadDeque(t, from, to) ==
  /\ Goto(t, from, to)
  /\ view' = [view EXCEPT ![t] = m_messages]
  /\ UNCHANGED <<m_lock, m_avail, m_messages, msg, allocated>>

-----------------------------------------------------------------------------
\* enqueue(msg): lock, push_back, unlock, sem_post.

EnqueueCall(p) ==
  /\ allocated < MaxMessages
  /\ Goto(p, "idle", "e_lock")
  /\ allocated' = allocated + 1
  /\ msg' = [msg EXCEPT ![p] = allocated + 1]
  /\ UNCHANGED <<m_lock, m_avail, m_messages, view>>

EnqueueLock(p) == Lock(p, "e_lock", "e_read")

EnqueueRead(p) == ReadDeque(p, "e_read", "e_write")

\* Mutant: push_front in place of push_back.
EnqueueWriteFront(p) ==
  /\ Goto(p, "e_write", "e_unlock")
  /\ m_messages' = <<msg[p]>> \o view[p]
  /\ view' = [view EXCEPT ![p] = <<>>]
  /\ UNCHANGED <<m_lock, m_avail, msg, allocated>>

EnqueueWrite(p) ==
  /\ Goto(p, "e_write", "e_unlock")
  /\ m_messages' = Append(view[p], msg[p])
  /\ view' = [view EXCEPT ![p] = <<>>]
  /\ UNCHANGED <<m_lock, m_avail, msg, allocated>>

EnqueueUnlock(p) == Unlock(p, "e_unlock", "e_post")

\* Mutant: the waiting receiver is not notified.
EnqueuePostForgotten(p) ==
  /\ Goto(p, "e_post", "idle")
  /\ msg' = [msg EXCEPT ![p] = Null]
  /\ UNCHANGED <<m_lock, m_avail, m_messages, view, allocated>>

EnqueuePost(p) ==
  /\ Goto(p, "e_post", "idle")
  /\ m_avail' = m_avail + 1
  /\ msg' = [msg EXCEPT ![p] = Null]
  /\ UNCHANGED <<m_lock, m_messages, view, allocated>>

-----------------------------------------------------------------------------
\* dequeue(): sem_timedwait, lock, front and pop_front, unlock, return msg.

DequeueCall(c) ==
  /\ Goto(c, "idle", "d_wait")
  /\ UNCHANGED <<m_lock, m_avail, m_messages, view, msg, allocated>>

\* Mutant: the wait succeeds and leaves the semaphore as it is.
DequeueWaitNoDecrement(c) ==
  /\ Goto(c, "d_wait", "d_lock")
  /\ m_avail > 0
  /\ UNCHANGED <<m_lock, m_avail, m_messages, view, msg, allocated>>

DequeueWait(c) ==
  /\ Goto(c, "d_wait", "d_lock")
  /\ m_avail > 0
  /\ m_avail' = m_avail - 1
  /\ UNCHANGED <<m_lock, m_messages, view, msg, allocated>>

\* Mutant: a failed wait is retried until it succeeds.
DequeueRetries(c) ==
  /\ Goto(c, "d_wait", "d_wait")
  /\ m_avail = 0
  /\ UNCHANGED <<m_lock, m_avail, m_messages, view, msg, allocated>>

\* sem_timedwait fails only while the semaphore cannot be decremented: the
\* deadline has passed (or a signal came), and dequeue returns nullptr.
DequeueTimeout(c) ==
  /\ Goto(c, "d_wait", "idle")
  /\ m_avail = 0
  /\ UNCHANGED <<m_lock, m_avail, m_messages, view, msg, allocated>>

DequeueLock(c) == Lock(c, "d_lock", "d_read")

DequeueRead(c) == ReadDeque(c, "d_read", "d_write")

\* An empty deque is left alone and msg stays nullptr.
DequeueWrite(c) ==
  /\ Goto(c, "d_write", "d_unlock")
  /\ IF view[c] # <<>>
     THEN /\ msg' = [msg EXCEPT ![c] = Head(view[c])]
          /\ m_messages' = Tail(view[c])
     ELSE UNCHANGED <<msg, m_messages>>
  /\ view' = [view EXCEPT ![c] = <<>>]
  /\ UNCHANGED <<m_lock, m_avail, allocated>>

DequeueUnlock(c) == Unlock(c, "d_unlock", "d_return")

\* dequeue has returned; its caller is done with the message and deletes it.
DequeueReturn(c) ==
  /\ Goto(c, "d_return", "idle")
  /\ msg' = [msg EXCEPT ![c] = Null]
  /\ UNCHANGED <<m_lock, m_avail, m_messages, view, allocated>>

-----------------------------------------------------------------------------
\* What a producer does once it has called enqueue.
Enqueue(p) ==
  \/ EnqueueLock(p)
  \/ EnqueueRead(p)
  \/ EnqueueWrite(p)
  \/ EnqueueUnlock(p)
  \/ EnqueuePost(p)

Dequeue(c) ==
  \/ DequeueCall(c)
  \/ DequeueWait(c)
  \/ DequeueTimeout(c)
  \/ DequeueLock(c)
  \/ DequeueRead(c)
  \/ DequeueWrite(c)
  \/ DequeueUnlock(c)
  \/ DequeueReturn(c)

Next ==
  \/ \E p \in Producers : EnqueueCall(p) \/ Enqueue(p)
  \/ \E c \in Consumers : Dequeue(c)

\* Every thread keeps running; nothing obliges a producer to call enqueue.
\* The deadline of sem_timedwait is what makes the wait itself fair.
Fairness ==
  /\ \A p \in Producers : WF_vars(Enqueue(p))
  /\ \A c \in Consumers : WF_vars(Dequeue(c))

SafeSpec == Init /\ [][Next]_vars

Spec == SafeSpec /\ Fairness

-----------------------------------------------------------------------------
\* Producers that have pushed and not yet posted.
Posting == {p \in Producers : pc[p] \in {"e_unlock", "e_post"}}

\* Consumers whose wait succeeded and that have not yet popped.
Popping == {c \in Consumers : pc[c] \in {"d_lock", "d_read", "d_write"}}

\* "The semaphore keeps a count of how many messages are currently in the
\* queue" (message_queue.h): exact up to the operations that are under way.
SemaphoreCountsMessages ==
  Len(m_messages) = m_avail + Cardinality(Posting) + Cardinality(Popping)

InDeque(t) == pc[t] \in {"e_read", "e_write", "e_unlock", "d_read", "d_write", "d_unlock"}

\* No two threads are between lock and unlock at the same time, so push_back
\* and pop_front never race.
NoDequeRace == \A t, u \in Threads : InDeque(t) /\ InDeque(u) => t = u

\* A dequeue whose wait succeeded finds a message: the empty() test of
\* dequeue never saves it, and nullptr only ever means a timeout.
WaitedMeansMessage ==
  \A c \in Consumers : pc[c] \in {"d_unlock", "d_return"} => msg[c] # Null

\* The inductive invariant behind these.  A thread holds the mutex exactly
\* while it is between lock and unlock; what it has read of the deque is then
\* still what the deque holds; a thread's msg is set exactly in the steps that
\* need it.
LockInv == \A t \in Threads : InDeque(t) <=> m_lock = t

ViewInv == \A t \in Threads : pc[t] \in {"e_write", "d_write"} => view[t] = m_messages

HandInv ==
  /\ \A p \in Producers : pc[p] # "idle" => msg[p] # Null
  /\ \A c \in Consumers : pc[c] \notin {"d_unlock", "d_return"} => msg[c] = Null

TypesAndRanges == TypeOK /\ HandInv

IndInv ==
  /\ TypesAndRanges
  /\ LockInv
  /\ ViewInv
  /\ SemaphoreCountsMessages
  /\ WaitedMeansMessage

\* enqueue "will not block" and dequeue "blocks for at most a finite amount
\* of time" (message_queue.h): every call returns.
EveryCallReturns == \A t \in Threads : (pc[t] # "idle") ~> (pc[t] = "idle")

\* Every message given to enqueue is handed to a consumer in the end (it may
\* be handed over, and deleted, before the producer's sem_post).
EveryMessageHandedOver ==
  \A m \in Messages :
    (\E p \in Producers : pc[p] = "e_lock" /\ msg[p] = m)
      ~> (\E c \in Consumers : msg[c] = m)

\* The queue implements an atomic FIFO queue: the deque is the queue, and a
\* consumer's msg is what it was handed.
Fifo == INSTANCE FifoQueue
          WITH queue <- m_messages, hand <- [c \in Consumers |-> msg[c]]

FifoSpec == Fifo!Spec
=============================================================================
