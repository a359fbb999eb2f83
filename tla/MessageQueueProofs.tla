------------------------- MODULE MessageQueueProofs -------------------------
(***************************************************************************)
(* MessageQueue is correct for any number of producers, consumers and      *)
(* messages: its safety properties, and that it implements a FifoQueue.    *)
(***************************************************************************)
EXTENDS MessageQueue, FiniteSetTheorems, SequenceTheorems, TLAPS

USE QueueAssumption

\* A thread is a producer or a consumer and never both.
LEMMA ThreadKinds ==
  /\ \A p \in Producers : p \in Threads /\ p \notin Consumers /\ p # Null
  /\ \A c \in Consumers : c \in Threads /\ c \notin Producers /\ c # Null
BY DEF Threads

-----------------------------------------------------------------------------
(***************************************************************************)
(* Types.                                                                  *)
(***************************************************************************)

\* A new queue is empty, its semaphore is 0 and nobody has called it yet.
LEMMA InitTypes == Init => TypesAndRanges
BY ThreadKinds DEF Init, TypesAndRanges, TypeOK, HandInv, EnqueuePC, DequeuePC, Messages

\* Every step of enqueue and dequeue keeps every variable within its type.
LEMMA NextTypes == TypesAndRanges /\ [Next]_vars => TypesAndRanges'
<1> SUFFICES ASSUME TypesAndRanges, [Next]_vars PROVE TypesAndRanges'
  OBVIOUS
<1> USE ThreadKinds DEF TypesAndRanges, TypeOK, HandInv, EnqueuePC, DequeuePC, Goto
<1>1. ASSUME NEW p \in Producers, EnqueueCall(p) PROVE TypesAndRanges'
  BY <1>1 DEF EnqueueCall, Messages
<1>2. ASSUME NEW p \in Producers, EnqueueLock(p) PROVE TypesAndRanges'
  BY <1>2 DEF EnqueueLock, Lock
<1>3. ASSUME NEW p \in Producers, EnqueueRead(p) PROVE TypesAndRanges'
  BY <1>3 DEF EnqueueRead, ReadDeque
<1>4. ASSUME NEW p \in Producers, EnqueueWrite(p) PROVE TypesAndRanges'
  <2>1. m_messages' \in Seq(Messages)
    BY <1>4 DEF EnqueueWrite
  <2>2. view' \in [Threads -> Seq(Messages)]
    BY <1>4, EmptySeq DEF EnqueueWrite
  <2> QED  BY <1>4, <2>1, <2>2 DEF EnqueueWrite
<1>5. ASSUME NEW p \in Producers, EnqueueUnlock(p) PROVE TypesAndRanges'
  BY <1>5 DEF EnqueueUnlock, Unlock
<1>6. ASSUME NEW p \in Producers, EnqueuePost(p) PROVE TypesAndRanges'
  BY <1>6 DEF EnqueuePost
<1>7. ASSUME NEW c \in Consumers, DequeueCall(c) PROVE TypesAndRanges'
  BY <1>7 DEF DequeueCall
<1>8. ASSUME NEW c \in Consumers, DequeueWait(c) PROVE TypesAndRanges'
  BY <1>8 DEF DequeueWait
<1>9. ASSUME NEW c \in Consumers, DequeueTimeout(c) PROVE TypesAndRanges'
  BY <1>9 DEF DequeueTimeout
<1>10. ASSUME NEW c \in Consumers, DequeueLock(c) PROVE TypesAndRanges'
  BY <1>10 DEF DequeueLock, Lock
<1>11. ASSUME NEW c \in Consumers, DequeueRead(c) PROVE TypesAndRanges'
  BY <1>11 DEF DequeueRead, ReadDeque
<1>12. ASSUME NEW c \in Consumers, DequeueWrite(c) PROVE TypesAndRanges'
  <2>1. view[c] \in Seq(Messages)
    OBVIOUS
  <2>2. view[c] # <<>> => Head(view[c]) \in Messages /\ Tail(view[c]) \in Seq(Messages)
    BY <2>1, HeadTailProperties
  <2>3. m_messages' \in Seq(Messages)
    BY <1>12, <2>2 DEF DequeueWrite
  <2>4. \E m \in Messages \cup {Null} : msg' = [msg EXCEPT ![c] = m]
    <3>1. CASE view[c] # <<>>
      BY <1>12, <2>2, <3>1 DEF DequeueWrite
    <3>2. CASE view[c] = <<>>
      BY <1>12, <3>2 DEF DequeueWrite
    <3> QED  BY <3>1, <3>2
  <2>5. view' \in [Threads -> Seq(Messages)]
    BY <1>12, EmptySeq DEF DequeueWrite
  <2>6. pc' = [pc EXCEPT ![c] = "d_unlock"] /\ UNCHANGED <<m_lock, m_avail, allocated>>
    BY <1>12 DEF DequeueWrite
  <2> QED  BY <2>3, <2>4, <2>5, <2>6
<1>13. ASSUME NEW c \in Consumers, DequeueUnlock(c) PROVE TypesAndRanges'
  BY <1>13 DEF DequeueUnlock, Unlock
<1>14. ASSUME NEW c \in Consumers, DequeueReturn(c) PROVE TypesAndRanges'
  BY <1>14 DEF DequeueReturn
<1>15. CASE UNCHANGED vars
  BY <1>15 DEF vars
<1> QED
  BY <1>1, <1>2, <1>3, <1>4, <1>5, <1>6, <1>7, <1>8, <1>9, <1>10, <1>11, <1>12,
     <1>13, <1>14, <1>15 DEF Next, Enqueue, Dequeue

-----------------------------------------------------------------------------
(***************************************************************************)
(* The mutex: who holds it, and what the holder has read.                  *)
(***************************************************************************)

\* The mutex of a new queue is free, and nobody is inside the critical section.
LEMMA InitLock == Init => LockInv /\ ViewInv
BY ThreadKinds DEF Init, LockInv, ViewInv, InDeque

\* The steps as seen from the mutex: t waits for it and takes it, t gives it
\* back, t writes the deque while it holds it, or nothing happens to it.
LEMMA NextLock == TypeOK /\ LockInv /\ ViewInv /\ [Next]_vars => LockInv' /\ ViewInv'
<1> SUFFICES ASSUME TypeOK, LockInv, ViewInv, [Next]_vars PROVE LockInv' /\ ViewInv'
  OBVIOUS
<1> USE ThreadKinds DEF TypeOK, LockInv, ViewInv, InDeque, Goto
<1>1. ASSUME NEW p \in Producers, EnqueueCall(p) PROVE LockInv' /\ ViewInv'
  BY <1>1 DEF EnqueueCall
<1>2. ASSUME NEW p \in Producers, EnqueueLock(p) PROVE LockInv' /\ ViewInv'
  BY <1>2 DEF EnqueueLock, Lock
<1>3. ASSUME NEW p \in Producers, EnqueueRead(p) PROVE LockInv' /\ ViewInv'
  BY <1>3 DEF EnqueueRead, ReadDeque
<1>4. ASSUME NEW p \in Producers, EnqueueWrite(p) PROVE LockInv' /\ ViewInv'
  <2>1. \A t \in Threads : pc[t] \in {"e_write", "d_write"} => t = p
    BY <1>4 DEF EnqueueWrite
  <2> QED  BY <1>4, <2>1 DEF EnqueueWrite
<1>5. ASSUME NEW p \in Producers, EnqueueUnlock(p) PROVE LockInv' /\ ViewInv'
  BY <1>5 DEF EnqueueUnlock, Unlock
<1>6. ASSUME NEW p \in Producers, EnqueuePost(p) PROVE LockInv' /\ ViewInv'
  BY <1>6 DEF EnqueuePost
<1>7. ASSUME NEW c \in Consumers, DequeueCall(c) PROVE LockInv' /\ ViewInv'
  BY <1>7 DEF DequeueCall
<1>8. ASSUME NEW c \in Consumers, DequeueWait(c) PROVE LockInv' /\ ViewInv'
  BY <1>8 DEF DequeueWait
<1>9. ASSUME NEW c \in Consumers, DequeueTimeout(c) PROVE LockInv' /\ ViewInv'
  BY <1>9 DEF DequeueTimeout
<1>10. ASSUME NEW c \in Consumers, DequeueLock(c) PROVE LockInv' /\ ViewInv'
  BY <1>10 DEF DequeueLock, Lock
<1>11. ASSUME NEW c \in Consumers, DequeueRead(c) PROVE LockInv' /\ ViewInv'
  BY <1>11 DEF DequeueRead, ReadDeque
<1>12. ASSUME NEW c \in Consumers, DequeueWrite(c) PROVE LockInv' /\ ViewInv'
  <2>1. \A t \in Threads : pc[t] \in {"e_write", "d_write"} => t = c
    BY <1>12 DEF DequeueWrite
  <2>2. /\ pc' = [pc EXCEPT ![c] = "d_unlock"]
        /\ pc[c] = "d_write"
        /\ m_lock' = m_lock
    BY <1>12 DEF DequeueWrite
  <2> QED  BY <2>1, <2>2
<1>13. ASSUME NEW c \in Consumers, DequeueUnlock(c) PROVE LockInv' /\ ViewInv'
  BY <1>13 DEF DequeueUnlock, Unlock
<1>14. ASSUME NEW c \in Consumers, DequeueReturn(c) PROVE LockInv' /\ ViewInv'
  BY <1>14 DEF DequeueReturn
<1>15. CASE UNCHANGED vars
  BY <1>15 DEF vars
<1> QED
  BY <1>1, <1>2, <1>3, <1>4, <1>5, <1>6, <1>7, <1>8, <1>9, <1>10, <1>11, <1>12,
     <1>13, <1>14, <1>15 DEF Next, Enqueue, Dequeue

-----------------------------------------------------------------------------
(***************************************************************************)
(* The semaphore.                                                          *)
(***************************************************************************)

\* The sets SemaphoreCountsMessages counts are finite.
LEMMA CountedSetsFinite == IsFiniteSet(Posting) /\ IsFiniteSet(Popping)
<1>1. Posting \in SUBSET Producers /\ Popping \in SUBSET Consumers
  BY DEF Posting, Popping
<1> QED  BY <1>1, FS_Subset

\* A thread that enters a counted set raises its count by one.
LEMMA OneMore ==
  ASSUME NEW S, IsFiniteSet(S), NEW x, x \notin S
  PROVE  Cardinality(S \cup {x}) = Cardinality(S) + 1
BY FS_AddElement

\* A thread that leaves a counted set lowers its count by one.
LEMMA OneLess ==
  ASSUME NEW S, IsFiniteSet(S), NEW x \in S
  PROVE  Cardinality(S \ {x}) = Cardinality(S) - 1
BY FS_RemoveElement

\* The counts of a new queue are all 0.
LEMMA InitCount == Init => SemaphoreCountsMessages /\ WaitedMeansMessage
<1> SUFFICES ASSUME Init PROVE SemaphoreCountsMessages /\ WaitedMeansMessage
  OBVIOUS
<1>1. Posting = {} /\ Popping = {}
  BY ThreadKinds DEF Init, Posting, Popping
<1> QED
  BY <1>1, FS_EmptySet, ThreadKinds DEF Init, SemaphoreCountsMessages, WaitedMeansMessage

\* A consumer about to pop finds the deque non-empty: the semaphore says so.
LEMMA PopFindsMessage ==
  ASSUME TypesAndRanges, SemaphoreCountsMessages, NEW c \in Consumers, pc[c] = "d_write"
  PROVE  m_messages # <<>>
<1>1. c \in Popping
  BY DEF Popping
<1>2. Cardinality(Popping) # 0
  BY <1>1, CountedSetsFinite, FS_EmptySet
<1>3. Cardinality(Posting) \in Nat /\ Cardinality(Popping) \in Nat /\ m_avail \in Nat
  BY CountedSetsFinite, FS_CardinalityType DEF TypesAndRanges, TypeOK
<1>4. Len(m_messages) # 0
  BY <1>2, <1>3 DEF SemaphoreCountsMessages
<1> QED  BY <1>4, EmptySeq

\* A step that moves no thread into or out of the counted sets and touches
\* neither the deque nor the semaphore keeps the count.
LEMMA CountKept ==
  ASSUME SemaphoreCountsMessages, Posting' = Posting, Popping' = Popping,
         m_messages' = m_messages, m_avail' = m_avail
  PROVE  SemaphoreCountsMessages'
BY DEF SemaphoreCountsMessages

\* The steps that do change one of the four, and their common arithmetic.
LEMMA NextCount ==
  TypesAndRanges /\ ViewInv /\ SemaphoreCountsMessages /\ [Next]_vars
    => SemaphoreCountsMessages'
<1> SUFFICES ASSUME TypesAndRanges, ViewInv, SemaphoreCountsMessages, [Next]_vars
             PROVE  SemaphoreCountsMessages'
  OBVIOUS
<1> USE ThreadKinds DEF TypesAndRanges, TypeOK, Goto
<1>a. /\ Cardinality(Posting) \in Nat
      /\ Cardinality(Popping) \in Nat
      /\ Len(m_messages) = m_avail + Cardinality(Posting) + Cardinality(Popping)
  BY CountedSetsFinite, FS_CardinalityType DEF SemaphoreCountsMessages
<1>1. ASSUME NEW p \in Producers,
             EnqueueCall(p) \/ EnqueueLock(p) \/ EnqueueRead(p) \/ EnqueueUnlock(p)
      PROVE  SemaphoreCountsMessages'
  <2>1. /\ Posting' = Posting
        /\ Popping' = Popping
        /\ m_messages' = m_messages
        /\ m_avail' = m_avail
    BY <1>1 DEF EnqueueCall, EnqueueLock, EnqueueRead, EnqueueUnlock, Lock, Unlock,
                ReadDeque, Posting, Popping
  <2> QED  BY <2>1, CountKept
<1>2. ASSUME NEW p \in Producers, EnqueueWrite(p) PROVE SemaphoreCountsMessages'
  <2>1. p \notin Posting /\ Posting' = Posting \cup {p} /\ Popping' = Popping
    BY <1>2 DEF EnqueueWrite, Posting, Popping
  <2>2. Cardinality(Posting') = Cardinality(Posting) + 1
    BY <2>1, OneMore, CountedSetsFinite
  <2>3. m_messages' = Append(m_messages, msg[p]) /\ m_avail' = m_avail
    BY <1>2 DEF EnqueueWrite, ViewInv
  <2>4. Len(m_messages') = Len(m_messages) + 1
    BY <2>3
  <2> QED  BY <1>a, <2>1, <2>2, <2>3, <2>4 DEF SemaphoreCountsMessages
<1>3. ASSUME NEW p \in Producers, EnqueuePost(p) PROVE SemaphoreCountsMessages'
  <2>1. p \in Posting /\ Posting' = Posting \ {p} /\ Popping' = Popping
    BY <1>3 DEF EnqueuePost, Posting, Popping
  <2>2. Cardinality(Posting') = Cardinality(Posting) - 1
    BY <2>1, OneLess, CountedSetsFinite
  <2>3. m_messages' = m_messages /\ m_avail' = m_avail + 1
    BY <1>3 DEF EnqueuePost
  <2> QED  BY <1>a, <2>1, <2>2, <2>3 DEF SemaphoreCountsMessages
<1>4. ASSUME NEW c \in Consumers,
             \/ DequeueCall(c) \/ DequeueTimeout(c) \/ DequeueLock(c)
             \/ DequeueRead(c) \/ DequeueUnlock(c) \/ DequeueReturn(c)
      PROVE  SemaphoreCountsMessages'
  <2>1. /\ Posting' = Posting
        /\ Popping' = Popping
        /\ m_messages' = m_messages
        /\ m_avail' = m_avail
    BY <1>4 DEF DequeueCall, DequeueTimeout, DequeueLock, DequeueRead, DequeueUnlock,
                DequeueReturn, Lock, Unlock, ReadDeque, Posting, Popping
  <2> QED  BY <2>1, CountKept
<1>5. ASSUME NEW c \in Consumers, DequeueWait(c) PROVE SemaphoreCountsMessages'
  <2>1. c \notin Popping /\ Popping' = Popping \cup {c} /\ Posting' = Posting
    BY <1>5 DEF DequeueWait, Posting, Popping
  <2>2. Cardinality(Popping') = Cardinality(Popping) + 1
    BY <2>1, OneMore, CountedSetsFinite
  <2>3. m_messages' = m_messages /\ m_avail' = m_avail - 1
    BY <1>5 DEF DequeueWait
  <2> QED  BY <1>a, <2>1, <2>2, <2>3 DEF SemaphoreCountsMessages
<1>6. ASSUME NEW c \in Consumers, DequeueWrite(c) PROVE SemaphoreCountsMessages'
  <2>1. c \in Popping /\ Popping' = Popping \ {c} /\ Posting' = Posting
    BY <1>6 DEF DequeueWrite, Posting, Popping
  <2>2. Cardinality(Popping') = Cardinality(Popping) - 1
    BY <2>1, OneLess, CountedSetsFinite
  <2>3. m_messages # <<>> /\ view[c] = m_messages
    BY <1>6, PopFindsMessage DEF DequeueWrite, ViewInv
  <2>4. m_messages' = Tail(m_messages) /\ m_avail' = m_avail
    BY <1>6, <2>3 DEF DequeueWrite
  <2>5. Len(m_messages') = Len(m_messages) - 1
    BY <2>3, <2>4, HeadTailProperties
  <2> QED  BY <1>a, <2>1, <2>2, <2>4, <2>5 DEF SemaphoreCountsMessages
<1>7. CASE UNCHANGED vars
  <2>1. /\ Posting' = Posting
        /\ Popping' = Popping
        /\ m_messages' = m_messages
        /\ m_avail' = m_avail
    BY <1>7 DEF vars, Posting, Popping
  <2> QED  BY <2>1, CountKept
<1> QED
  BY <1>1, <1>2, <1>3, <1>4, <1>5, <1>6, <1>7 DEF Next, Enqueue, Dequeue

\* Only the pop itself brings a consumer to the steps WaitedMeansMessage is
\* about, and it finds a message.
LEMMA NextWaited ==
  TypesAndRanges /\ ViewInv /\ SemaphoreCountsMessages /\ WaitedMeansMessage /\ [Next]_vars
    => WaitedMeansMessage'
<1> SUFFICES ASSUME TypesAndRanges, ViewInv, SemaphoreCountsMessages, WaitedMeansMessage,
                    [Next]_vars,
                    NEW d \in Consumers, pc'[d] \in {"d_unlock", "d_return"}
             PROVE  msg'[d] # Null
  BY DEF WaitedMeansMessage
<1> USE ThreadKinds DEF TypesAndRanges, TypeOK, Goto, WaitedMeansMessage
<1>1. ASSUME NEW p \in Producers, EnqueueCall(p) \/ Enqueue(p) PROVE msg'[d] # Null
  BY <1>1 DEF EnqueueCall, Enqueue, EnqueueLock, EnqueueRead, EnqueueWrite,
              EnqueueUnlock, EnqueuePost, Lock, Unlock, ReadDeque
<1>2. ASSUME NEW c \in Consumers,
             \/ DequeueCall(c) \/ DequeueWait(c) \/ DequeueTimeout(c) \/ DequeueLock(c)
             \/ DequeueRead(c) \/ DequeueUnlock(c) \/ DequeueReturn(c)
      PROVE  msg'[d] # Null
  BY <1>2 DEF DequeueCall, DequeueWait, DequeueTimeout, DequeueLock, DequeueRead,
              DequeueUnlock, DequeueReturn, Lock, Unlock, ReadDeque
<1>3. ASSUME NEW c \in Consumers, DequeueWrite(c) PROVE msg'[d] # Null
  <2>1. view[c] \in Seq(Messages) /\ view[c] # <<>>
    BY <1>3, PopFindsMessage DEF DequeueWrite, ViewInv
  <2>2. Head(view[c]) \in Messages
    BY <2>1, HeadTailProperties
  <2>3. msg' = [msg EXCEPT ![c] = Head(view[c])] /\ pc' = [pc EXCEPT ![c] = "d_unlock"]
    BY <1>3, <2>1 DEF DequeueWrite
  <2> QED  BY <2>2, <2>3
<1>4. CASE UNCHANGED vars
  BY <1>4 DEF vars
<1> QED
  BY <1>1, <1>2, <1>3, <1>4 DEF Next, Dequeue

-----------------------------------------------------------------------------
(***************************************************************************)
(* The theorems.                                                           *)
(***************************************************************************)

\* IndInv holds at first, every step keeps it, and so it always holds.
THEOREM Invariance == SafeSpec => []IndInv
<1>1. Init => IndInv
  BY InitTypes, InitLock, InitCount DEF IndInv
<1>2. IndInv /\ [Next]_vars => IndInv'
  BY NextTypes, NextLock, NextCount, NextWaited DEF IndInv, TypesAndRanges
<1> QED  BY <1>1, <1>2, PTL DEF SafeSpec

\* Every variable of the queue stays within its type.
THEOREM TypeCorrect == SafeSpec => []TypeOK
<1>1. IndInv => TypeOK
  BY DEF IndInv, TypesAndRanges
<1> QED  BY <1>1, Invariance, PTL

\* push_back and pop_front never overlap, however many threads call them.
THEOREM MutualExclusion == SafeSpec => []NoDequeRace
<1>1. IndInv => NoDequeRace
  BY DEF IndInv, LockInv, NoDequeRace
<1> QED  BY <1>1, Invariance, PTL

\* The semaphore counts the messages, up to the operations that are under way.
THEOREM SemaphoreExact == SafeSpec => []SemaphoreCountsMessages
<1>1. IndInv => SemaphoreCountsMessages
  BY DEF IndInv
<1> QED  BY <1>1, Invariance, PTL

\* A dequeue that was let through by the semaphore returns a message.
THEOREM DequeueFindsMessage == SafeSpec => []WaitedMeansMessage
<1>1. IndInv => WaitedMeansMessage
  BY DEF IndInv
<1> QED  BY <1>1, Invariance, PTL

-----------------------------------------------------------------------------
(***************************************************************************)
(* The refinement: EnqueueWrite is Put, DequeueWrite is Take, a consumer   *)
(* that returns does Release, and no other step changes queue or hand.     *)
(***************************************************************************)

\* Every step of the queue is a step of the abstract queue or leaves it as it is.
LEMMA QueueStep == IndInv /\ [Next]_vars => [Fifo!Next]_(Fifo!vars)
<1> SUFFICES ASSUME IndInv, [Next]_vars PROVE [Fifo!Next]_(Fifo!vars)
  OBVIOUS
<1> DEFINE hand == [c \in Consumers |-> msg[c]]
<1> USE ThreadKinds DEF IndInv, TypesAndRanges, TypeOK, HandInv, Goto
<1>a. ASSUME m_messages' = m_messages, \A c \in Consumers : msg'[c] = msg[c]
      PROVE  UNCHANGED Fifo!vars
  BY <1>a DEF Fifo!vars
<1>1. ASSUME NEW p \in Producers,
             \/ EnqueueCall(p) \/ EnqueueLock(p) \/ EnqueueRead(p)
             \/ EnqueueUnlock(p) \/ EnqueuePost(p)
      PROVE  UNCHANGED Fifo!vars
  <2>1. m_messages' = m_messages /\ \A c \in Consumers : msg'[c] = msg[c]
    BY <1>1 DEF EnqueueCall, EnqueueLock, EnqueueRead, EnqueueUnlock, EnqueuePost,
                Lock, Unlock, ReadDeque
  <2> QED  BY <1>a, <2>1
<1>2. ASSUME NEW p \in Producers, EnqueueWrite(p) PROVE Fifo!Put(msg[p]) /\ msg[p] \in Messages
  BY <1>2 DEF EnqueueWrite, ViewInv, Fifo!Put
<1>3. ASSUME NEW c \in Consumers,
             \/ DequeueCall(c) \/ DequeueWait(c) \/ DequeueTimeout(c)
             \/ DequeueLock(c) \/ DequeueRead(c) \/ DequeueUnlock(c)
      PROVE  UNCHANGED Fifo!vars
  <2>1. m_messages' = m_messages /\ \A d \in Consumers : msg'[d] = msg[d]
    BY <1>3 DEF DequeueCall, DequeueWait, DequeueTimeout, DequeueLock, DequeueRead,
                DequeueUnlock, Lock, Unlock, ReadDeque
  <2> QED  BY <1>a, <2>1
<1>4. ASSUME NEW c \in Consumers, DequeueWrite(c) PROVE Fifo!Take(c)
  <2>1. m_messages # <<>> /\ view[c] = m_messages /\ msg[c] = Null
    BY <1>4, PopFindsMessage DEF DequeueWrite, ViewInv
  <2>2. /\ m_messages' = Tail(m_messages)
        /\ msg' = [msg EXCEPT ![c] = Head(m_messages)]
    BY <1>4, <2>1 DEF DequeueWrite
  <2>3. hand' = [hand EXCEPT ![c] = Head(m_messages)]
    BY <2>2
  <2> QED  BY <2>1, <2>2, <2>3 DEF Fifo!Take
<1>5. ASSUME NEW c \in Consumers, DequeueReturn(c) PROVE Fifo!Release(c)
  <2>1. msg[c] # Null
    BY <1>5 DEF DequeueReturn, WaitedMeansMessage
  <2> QED  BY <1>5, <2>1 DEF DequeueReturn, Fifo!Release
<1>6. CASE UNCHANGED vars
  BY <1>6 DEF vars, Fifo!vars
<1> QED
  BY <1>1, <1>2, <1>3, <1>4, <1>5, <1>6 DEF Next, Enqueue, Dequeue, Fifo!Next

\* The queue is an atomic first-in first-out queue (the safety part of
\* FifoSpec, which a run checks together with its fairness).
THEOREM ImplementsFifo == SafeSpec => Fifo!SafeSpec
<1>1. Init => Fifo!Init
  BY ThreadKinds DEF Init, Fifo!Init
<1> QED  BY <1>1, QueueStep, Invariance, PTL DEF SafeSpec, Fifo!SafeSpec

=============================================================================
