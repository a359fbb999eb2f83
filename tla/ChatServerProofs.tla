------------------------- MODULE ChatServerProofs --------------------------
(***************************************************************************)
(* The chat server is correct for any number of connections, rooms, names  *)
(* and lines: Rooms are unique, membership is what the threads believe it  *)
(* to be, no User is used once it is deleted, a sendall is atomic for      *)
(* everybody in its room, and all users see it in one order.               *)
(*                                                                         *)
(* IndInv is proved one conjunct at a time, each lemma with one step per   *)
(* action of Next.  The last two parts are about Told(u), what u was given *)
(* and what a broadcast has yet to give it: hardly a step changes it, and  *)
(* both the refinement of ChatRooms and the order of the messages follow   *)
(* from the few that do.                                                   *)
(***************************************************************************)
EXTENDS ChatServer, SequenceTheorems, FiniteSetTheorems, Functions, TLAPS

USE ServerAssumption

\* The line counter stays within its bound.
LEMMA ReadLineType ==
  ASSUME TypeOK, NEW c \in Conns, ReadLine(c)
  PROVE  lines' \in [Conns -> 0 .. MaxLines]
<1>1. lines[c] \in 0 .. MaxLines /\ lines[c] < MaxLines
  BY DEF TypeOK, ReadLine
<1>2. lines[c] + 1 \in 0 .. MaxLines
  BY <1>1
<1> QED  BY <1>2 DEF TypeOK, ReadLine

\* What a sendall broadcasts is a message.
LEMMA SendAllMessage ==
  ASSUME TypeOK, NEW c \in Conns, CommandSendAll(c)
  PROVE  \E m \in Messages : msg' = [msg EXCEPT ![c] = m]
<1>1. PICK fits \in TextFits :
        msg' = [msg EXCEPT ![c] = [room |-> NameOf(room[c]), from |-> c,
                                   id |-> lines[c] + 1, fits |-> fits]]
  BY DEF CommandSendAll
<1>2. NameOf(room[c]) \in RoomNames
  BY DEF CommandSendAll, TypeOK, NameOf, Rooms
<1>3. lines[c] + 1 \in 1 .. MaxLines
  BY DEF CommandSendAll, Command, ReadLine, TypeOK
<1>4. [room |-> NameOf(room[c]), from |-> c, id |-> lines[c] + 1, fits |-> fits] \in Messages
  BY <1>2, <1>3 DEF Messages
<1> QED  BY <1>1, <1>4

\* A command that is not valid is answered with an error, or without one when
\* its line could not be read, and changes nothing a client or a thread shares.
LEMMA InvalidStep ==
  ASSUME TypeOK, NEW c \in Conns, CommandInvalid(c)
  PROVE  \E to \in {"reply", "command"} : \E k \in 0 .. MaxLines :
           /\ pc[c] = "command"
           /\ pc' = [pc EXCEPT ![c] = to]
           /\ lines' = [lines EXCEPT ![c] = k]
           /\ UNCHANGED <<peer, sharedVars, localVars, log>>
<1>1. \E to \in {"reply", "command"} : Goto(c, "command", to)
  BY DEF CommandInvalid, Command
<1>2. lines[c] + 1 \in 0 .. MaxLines
  BY DEF CommandInvalid, Command, ReadLine, TypeOK
<1>3. lines' = [lines EXCEPT ![c] = lines[c] + 1]
  BY DEF CommandInvalid, Command, ReadLine
<1>4. UNCHANGED <<peer, sharedVars, localVars, log>>
  BY DEF CommandInvalid
<1> QED  BY <1>1, <1>2, <1>3, <1>4 DEF Goto

\* After a reply the thread reads the next command or cleans up, and it goes on
\* to the delete without the clean-up only when it is in no room.
LEMMA ReplyStep ==
  ASSUME NEW c \in Conns, Reply(c)
  PROVE  \E to \in {"command", "cleanup", "delete"} :
           /\ pc[c] = "reply"
           /\ pc' = [pc EXCEPT ![c] = to]
           /\ to = "cleanup" => room[c] # Null
           /\ to = "delete" => room[c] = Null
           /\ UNCHANGED <<clientVars, sharedVars, localVars, log>>
BY DEF Reply, Silent, Goto, AfterLoop

\* A dequeue takes the head of the queue for its own thread and touches no other.
LEMMA PopStep ==
  ASSUME TypeOK, NEW c \in Conns, Pop(c)
  PROVE  \E to \in {"deliver", "wait"} : \E m \in Messages \cup {Null} :
         \E q \in Seq(Messages) :
           /\ pc[c] = "pop"
           /\ pc' = [pc EXCEPT ![c] = to]
           /\ msg' = [msg EXCEPT ![c] = m]
           /\ to = "deliver" => m # Null
           /\ m_messages' = [m_messages EXCEPT ![c] = q]
<1>1. CASE m_messages[c] # <<>>
  <2>1. Head(m_messages[c]) \in Messages /\ Tail(m_messages[c]) \in Seq(Messages)
    BY <1>1, HeadTailProperties DEF TypeOK
  <2>2. /\ pc[c] = "pop"
        /\ pc' = [pc EXCEPT ![c] = "deliver"]
        /\ msg' = [msg EXCEPT ![c] = Head(m_messages[c])]
        /\ m_messages' = [m_messages EXCEPT ![c] = Tail(m_messages[c])]
    BY <1>1 DEF Pop, Goto
  <2> QED  BY <2>1, <2>2
<1>2. CASE m_messages[c] = <<>>
  <2>1. /\ pc[c] = "pop"
        /\ pc' = [pc EXCEPT ![c] = "wait"]
        /\ UNCHANGED <<msg, m_messages>>
    BY <1>2 DEF Pop, Goto, LoopHead, IsOpen
  <2>2. /\ msg' = [msg EXCEPT ![c] = msg[c]] /\ msg[c] \in Messages \cup {Null}
        /\ m_messages' = [m_messages EXCEPT ![c] = m_messages[c]]
        /\ m_messages[c] \in Seq(Messages)
    BY <2>1 DEF TypeOK
  <2> QED  BY <2>1, <2>2
<1> QED  BY <1>1, <1>2

-----------------------------------------------------------------------------
\* Every step keeps every variable within its type.
LEMMA NextTypes ==
  TypeOK /\ LocalInv /\ [Next]_vars => TypeOK'
<1> SUFFICES ASSUME TypeOK, LocalInv, [Next]_vars PROVE TypeOK'
  OBVIOUS
<1> USE DEF clientVars, sharedVars, serverVars, roomVars, userVars, queueVars, localVars, castVars, Goto,
        TypeOK, LocalInv, PC
<1>1. ASSUME NEW c \in Conns, Hangup(c) PROVE TypeOK'
  BY <1>1 DEF Hangup
<1>2. ASSUME NEW c \in Conns, LogIn(c) PROVE TypeOK'
  <2>1. PICK l \in Logins[c] : username' = [username EXCEPT ![c] = l.user]
    BY <1>2 DEF LogIn
  <2>2. l.user \in Usernames
    BY DEF Login
  <2>3. username' \in [Conns -> Usernames \cup {Null}]
    BY <2>1, <2>2
  <2>4. pc' \in [Conns -> PC] /\ role' \in [Conns -> {"none", "sender", "receiver"}]
    <3>1. \/ pc' = [pc EXCEPT ![c] = "command"] /\ role' = [role EXCEPT ![c] = "sender"]
          \/ pc' = [pc EXCEPT ![c] = "join"] /\ role' = [role EXCEPT ![c] = "receiver"]
      BY <1>2 DEF LogIn
    <3> QED  BY <3>1
  <2> QED  BY <1>2, <2>3, <2>4 DEF LogIn
<1>3. ASSUME NEW c \in Conns, LoginRefused(c) PROVE TypeOK'
  BY <1>3 DEF LoginRefused, Silent
<1>4. ASSUME NEW c \in Conns, LoginEof(c) PROVE TypeOK'
  BY <1>4 DEF LoginEof, Silent
<1>5. ASSUME NEW c \in Conns, ReceiverJoin(c) PROVE TypeOK'
  <2>1. lines' \in [Conns -> 0 .. MaxLines]
    BY <1>5, ReadLineType DEF ReceiverJoin
  <2>2. pc' \in [Conns -> PC]
    BY <1>5 DEF ReceiverJoin
  <2>3. PICK n \in RoomNames : want' = [want EXCEPT ![c] = n]
    BY <1>5 DEF ReceiverJoin
  <2> QED  BY <1>5, <2>1, <2>2, <2>3 DEF ReceiverJoin
<1>6. ASSUME NEW c \in Conns, ReceiverRefused(c) PROVE TypeOK'
  <2>1. lines' \in [Conns -> 0 .. MaxLines]
    BY <1>6, ReadLineType DEF ReceiverRefused
  <2>2. pc' \in [Conns -> PC]
    BY <1>6 DEF ReceiverRefused, ReceiverGivesUp, ReadLine
  <2> QED  BY <1>6, <2>1, <2>2 DEF ReceiverRefused, ReceiverGivesUp, ReadLine
<1>7. ASSUME NEW c \in Conns, ReceiverEof(c) PROVE TypeOK'
  BY <1>7 DEF ReceiverEof, ReceiverGivesUp
<1>8. ASSUME NEW c \in Conns, CommandJoin(c) PROVE TypeOK'
  <2>1. lines' \in [Conns -> 0 .. MaxLines]
    BY <1>8, ReadLineType DEF CommandJoin, Command
  <2>2. pc' \in [Conns -> PC]
    BY <1>8 DEF CommandJoin, Command
  <2>3. PICK n \in RoomNames : want' = [want EXCEPT ![c] = n]
    BY <1>8 DEF CommandJoin
  <2> QED  BY <1>8, <2>1, <2>2, <2>3 DEF CommandJoin
<1>9. ASSUME NEW c \in Conns, CommandSendAll(c) PROVE TypeOK'
  <2>1. lines' \in [Conns -> 0 .. MaxLines]
    BY <1>9, ReadLineType DEF CommandSendAll, Command
  <2>2. pc' \in [Conns -> PC]
    BY <1>9 DEF CommandSendAll, Command
  <2>3. PICK m \in Messages : msg' = [msg EXCEPT ![c] = m]
    BY <1>9, SendAllMessage
  <2> QED  BY <1>9, <2>1, <2>2, <2>3 DEF CommandSendAll
<1>10. ASSUME NEW c \in Conns, CommandLeave(c) PROVE TypeOK'
  <2>1. lines' \in [Conns -> 0 .. MaxLines]
    BY <1>10, ReadLineType DEF CommandLeave, Command
  <2>2. pc' \in [Conns -> PC]
    BY <1>10 DEF CommandLeave, Command, ReadLine
  <2> QED  BY <1>10, <2>1, <2>2 DEF CommandLeave, Command, ReadLine
<1>11. ASSUME NEW c \in Conns, CommandQuit(c) PROVE TypeOK'
  <2>1. lines' \in [Conns -> 0 .. MaxLines]
    BY <1>11, ReadLineType DEF CommandQuit, Command
  <2>2. pc' \in [Conns -> PC]
    BY <1>11 DEF CommandQuit, Command, ReadLine, AfterLoop
  <2> QED  BY <1>11, <2>1, <2>2 DEF CommandQuit, Command, ReadLine, AfterLoop
<1>12. ASSUME NEW c \in Conns, CommandInvalid(c) PROVE TypeOK'
  <2>1. PICK to \in {"reply", "command"}, k \in 0 .. MaxLines :
             /\ pc[c] = "command"
             /\ pc' = [pc EXCEPT ![c] = to]
             /\ lines' = [lines EXCEPT ![c] = k]
             /\ UNCHANGED <<peer, sharedVars, localVars, log>>
    BY <1>12, InvalidStep
  <2> QED  BY <2>1
<1>13. ASSUME NEW c \in Conns, CommandEof(c) PROVE TypeOK'
  BY <1>13 DEF CommandEof, Silent, AfterLoop
<1>14. ASSUME NEW c \in Conns, Reply(c) PROVE TypeOK'
  <2>1. PICK to \in {"command", "cleanup", "delete"} :
             /\ pc[c] = "reply"
             /\ pc' = [pc EXCEPT ![c] = to]
             /\ to = "cleanup" => room[c] # Null
             /\ to = "delete" => room[c] = Null
             /\ UNCHANGED <<clientVars, sharedVars, localVars, log>>
    BY <1>14, ReplyStep
  <2> QED  BY <2>1
<1>15. ASSUME NEW c \in Conns, Deliver(c) PROVE TypeOK'
  <2>1. msg[c] \in Messages
    BY <1>15 DEF Deliver
  <2>2. PICK sent \in BOOLEAN : log' = [log EXCEPT ![c] = Append(@, [m |-> msg[c], sent |-> sent])]
    BY <1>15 DEF Deliver
  <2>3. Append(log[c], [m |-> msg[c], sent |-> sent]) \in Seq([m : Messages, sent : BOOLEAN])
    <3>1. [m |-> msg[c], sent |-> sent] \in [m : Messages, sent : BOOLEAN]
      BY <2>1
    <3>2. log[c] \in Seq([m : Messages, sent : BOOLEAN])
      OBVIOUS
    <3> QED  BY <3>1, <3>2, AppendProperties
  <2>4. log' \in [Conns -> Seq([m : Messages, sent : BOOLEAN])]
    BY <2>2, <2>3
  <2> QED  BY <1>15, <2>4 DEF Deliver, LoopHead, IsOpen
<1>16. ASSUME NEW c \in Conns, FindLock(c) PROVE TypeOK'
  BY <1>16 DEF FindLock
<1>17. ASSUME NEW c \in Conns, FindHit(c) PROVE TypeOK'
  BY <1>17 DEF FindHit
<1>18. ASSUME NEW c \in Conns, FindMiss(c) PROVE TypeOK'
  BY <1>18 DEF FindMiss, Silent
<1>19. ASSUME NEW c \in Conns, InsertRoom(c) PROVE TypeOK'
  <2>1. <<want[c], c>> \in Rooms /\ want[c] \in RoomNames
    BY <1>19 DEF InsertRoom, Rooms
  <2> QED  BY <1>19, <2>1 DEF InsertRoom
<1>20. ASSUME NEW c \in Conns, FindUnlock(c) PROVE TypeOK'
  BY <1>20 DEF FindUnlock
<1>21. ASSUME NEW c \in Conns, Add(c) PROVE TypeOK'
  BY <1>21 DEF Add, AddMember
<1>22. ASSUME NEW c \in Conns, LeaveOld(c) PROVE TypeOK'
  BY <1>22 DEF LeaveOld, RemoveMember
<1>23. ASSUME NEW c \in Conns, Leave(c) PROVE TypeOK'
  BY <1>23 DEF Leave, RemoveMember
<1>24. ASSUME NEW c \in Conns, BroadcastLock(c) PROVE TypeOK'
  BY <1>24 DEF BroadcastLock
<1>25. ASSUME NEW c \in Conns, BroadcastSkip(c) PROVE TypeOK'
  <2>1. PICK u \in Ahead(c) : visited' = [visited EXCEPT ![c] = @ \cup {u}]
    BY <1>25 DEF BroadcastSkip
  <2>2. u \in Conns
    BY <1>25 DEF Ahead, BroadcastSkip
  <2>3. visited' \in [Conns -> SUBSET Conns]
    BY <2>1, <2>2
  <2> QED  BY <1>25, <2>3 DEF BroadcastSkip
<1>26. ASSUME NEW c \in Conns, BroadcastPush(c) PROVE TypeOK'
  <2>1. PICK u \in Ahead(c) :
          /\ m_messages' = [m_messages EXCEPT ![u] = Append(@, msg[c])]
          /\ target' = [target EXCEPT ![c] = u]
    BY <1>26 DEF BroadcastPush
  <2>2. u \in Conns /\ msg[c] \in Messages
    BY <1>26 DEF Ahead, BroadcastPush
  <2>3. m_messages' \in [Conns -> Seq(Messages)]
    <3>1. Append(m_messages[u], msg[c]) \in Seq(Messages)
      BY <2>2
    <3> QED  BY <2>1, <2>2, <3>1
  <2> QED  BY <1>26, <2>1, <2>2, <2>3 DEF BroadcastPush
<1>27. ASSUME NEW c \in Conns, BroadcastPost(c) PROVE TypeOK'
  <2>1. target[c] \in Conns
    BY <1>27 DEF BroadcastPost
  <2>2. m_avail' \in [Conns -> Nat]
    BY <1>27, <2>1 DEF BroadcastPost
  <2> QED  BY <1>27, <2>1, <2>2 DEF BroadcastPost
<1>28. ASSUME NEW c \in Conns, BroadcastEnd(c) PROVE TypeOK'
  BY <1>28 DEF BroadcastEnd, Ahead
<1>29. ASSUME NEW c \in Conns, Wait(c) PROVE TypeOK'
  <2>1. m_avail' \in [Conns -> Nat]
    BY <1>29 DEF Wait
  <2> QED  BY <1>29, <2>1 DEF Wait
<1>30. ASSUME NEW c \in Conns, WaitTimeout(c) PROVE TypeOK'
  BY <1>30 DEF WaitTimeout, Silent, LoopHead, IsOpen
<1>31. ASSUME NEW c \in Conns, Pop(c) PROVE TypeOK'
  <2>1. PICK to \in {"deliver", "wait"}, m \in Messages \cup {Null}, q \in Seq(Messages) :
             /\ pc[c] = "pop"
             /\ pc' = [pc EXCEPT ![c] = to]
             /\ msg' = [msg EXCEPT ![c] = m]
             /\ to = "deliver" => m # Null
             /\ m_messages' = [m_messages EXCEPT ![c] = q]
    BY <1>31, PopStep
  <2>2. UNCHANGED <<clientVars, serverVars, roomVars, userVars, m_avail, role, want, room,
                    castVars, log>>
    BY <1>31 DEF Pop
  <2> QED  BY <2>1, <2>2
<1>32. ASSUME NEW c \in Conns, Cleanup(c) PROVE TypeOK'
  BY <1>32 DEF Cleanup, RemoveMember
<1>33. ASSUME NEW c \in Conns, DeleteUser(c) PROVE TypeOK'
  <2>1. m_messages' \in [Conns -> Seq(Messages)]
    BY <1>33, EmptySeq DEF DeleteUser
  <2>2. m_avail' \in [Conns -> Nat]
    BY <1>33 DEF DeleteUser
  <2> QED  BY <1>33, <2>1, <2>2 DEF DeleteUser
<1>34. CASE UNCHANGED vars
  BY <1>34 DEF vars
<1> QED
  BY <1>1, <1>2, <1>3, <1>4, <1>5, <1>6, <1>7, <1>8, <1>9, <1>10, <1>11,
     <1>12, <1>13, <1>14, <1>15, <1>16, <1>17, <1>18, <1>19, <1>20, <1>21, <1>22,
     <1>23, <1>24, <1>25, <1>26, <1>27, <1>28, <1>29, <1>30, <1>31, <1>32, <1>33,
     <1>34 DEF Next, Worker, Input, Output, Internal

\* Every step leaves a thread's local variables set as its next step needs them,
\* and its User live until the delete.
LEMMA NextLocal ==
  TypeOK /\ LocalInv /\ [Next]_vars => LocalInv'
<1> SUFFICES ASSUME TypeOK, LocalInv, [Next]_vars PROVE LocalInv'
  OBVIOUS
<1> USE DEF clientVars, sharedVars, serverVars, roomVars, userVars, queueVars, localVars, castVars, Goto,
        TypeOK, LocalInv
<1>1. ASSUME NEW c \in Conns, Hangup(c) PROVE LocalInv'
  BY <1>1 DEF Hangup
<1>2. ASSUME NEW c \in Conns, LogIn(c) PROVE LocalInv'
  BY <1>2 DEF LogIn
<1>3. ASSUME NEW c \in Conns, LoginRefused(c) PROVE LocalInv'
  BY <1>3 DEF LoginRefused, Silent
<1>4. ASSUME NEW c \in Conns, LoginEof(c) PROVE LocalInv'
  BY <1>4 DEF LoginEof, Silent
<1>5. ASSUME NEW c \in Conns, ReceiverJoin(c) PROVE LocalInv'
  BY <1>5 DEF ReceiverJoin, ReadLine
<1>6. ASSUME NEW c \in Conns, ReceiverRefused(c) PROVE LocalInv'
  BY <1>6 DEF ReceiverRefused, ReceiverGivesUp, ReadLine
<1>7. ASSUME NEW c \in Conns, ReceiverEof(c) PROVE LocalInv'
  BY <1>7 DEF ReceiverEof, ReceiverGivesUp
<1>8. ASSUME NEW c \in Conns, CommandJoin(c) PROVE LocalInv'
  BY <1>8 DEF CommandJoin, Command, ReadLine
<1>9. ASSUME NEW c \in Conns, CommandSendAll(c) PROVE LocalInv'
  <2>1. PICK m \in Messages : msg' = [msg EXCEPT ![c] = m]
    BY <1>9, SendAllMessage
  <2> QED  BY <1>9, <2>1 DEF CommandSendAll, Command
<1>10. ASSUME NEW c \in Conns, CommandLeave(c) PROVE LocalInv'
  BY <1>10 DEF CommandLeave, Command, ReadLine
<1>11. ASSUME NEW c \in Conns, CommandQuit(c) PROVE LocalInv'
  BY <1>11 DEF CommandQuit, Command, ReadLine, AfterLoop
<1>12. ASSUME NEW c \in Conns, CommandInvalid(c) PROVE LocalInv'
  <2>1. PICK to \in {"reply", "command"}, k \in 0 .. MaxLines :
             /\ pc[c] = "command"
             /\ pc' = [pc EXCEPT ![c] = to]
             /\ lines' = [lines EXCEPT ![c] = k]
             /\ UNCHANGED <<peer, sharedVars, localVars, log>>
    BY <1>12, InvalidStep
  <2> QED  BY <2>1
<1>13. ASSUME NEW c \in Conns, CommandEof(c) PROVE LocalInv'
  BY <1>13 DEF CommandEof, Silent, AfterLoop
<1>14. ASSUME NEW c \in Conns, Reply(c) PROVE LocalInv'
  <2>1. PICK to \in {"command", "cleanup", "delete"} :
             /\ pc[c] = "reply"
             /\ pc' = [pc EXCEPT ![c] = to]
             /\ to = "cleanup" => room[c] # Null
             /\ to = "delete" => room[c] = Null
             /\ UNCHANGED <<clientVars, sharedVars, localVars, log>>
    BY <1>14, ReplyStep
  <2> QED  BY <2>1
<1>15. ASSUME NEW c \in Conns, Deliver(c) PROVE LocalInv'
  BY <1>15 DEF Deliver, LoopHead, IsOpen
<1>16. ASSUME NEW c \in Conns, FindLock(c) PROVE LocalInv'
  BY <1>16 DEF FindLock
<1>17. ASSUME NEW c \in Conns, FindHit(c) PROVE LocalInv'
  BY <1>17 DEF FindHit
<1>18. ASSUME NEW c \in Conns, FindMiss(c) PROVE LocalInv'
  BY <1>18 DEF FindMiss, Silent
<1>19. ASSUME NEW c \in Conns, InsertRoom(c) PROVE LocalInv'
  <2>1. <<want[c], c>> \in Rooms
    BY <1>19 DEF InsertRoom, Rooms
  <2> QED  BY <1>19, <2>1 DEF InsertRoom
<1>20. ASSUME NEW c \in Conns, FindUnlock(c) PROVE LocalInv'
  BY <1>20 DEF FindUnlock
<1>21. ASSUME NEW c \in Conns, Add(c) PROVE LocalInv'
  BY <1>21 DEF Add, AddMember
<1>22. ASSUME NEW c \in Conns, LeaveOld(c) PROVE LocalInv'
  BY <1>22 DEF LeaveOld, RemoveMember
<1>23. ASSUME NEW c \in Conns, Leave(c) PROVE LocalInv'
  BY <1>23 DEF Leave, RemoveMember
<1>24. ASSUME NEW c \in Conns, BroadcastLock(c) PROVE LocalInv'
  BY <1>24 DEF BroadcastLock
<1>25. ASSUME NEW c \in Conns, BroadcastSkip(c) PROVE LocalInv'
  BY <1>25 DEF BroadcastSkip, Ahead
<1>26. ASSUME NEW c \in Conns, BroadcastPush(c) PROVE LocalInv'
  BY <1>26 DEF BroadcastPush, Ahead
<1>27. ASSUME NEW c \in Conns, BroadcastPost(c) PROVE LocalInv'
  BY <1>27 DEF BroadcastPost
<1>28. ASSUME NEW c \in Conns, BroadcastEnd(c) PROVE LocalInv'
  BY <1>28 DEF BroadcastEnd, Ahead
<1>29. ASSUME NEW c \in Conns, Wait(c) PROVE LocalInv'
  BY <1>29 DEF Wait
<1>30. ASSUME NEW c \in Conns, WaitTimeout(c) PROVE LocalInv'
  BY <1>30 DEF WaitTimeout, Silent, LoopHead, IsOpen
<1>31. ASSUME NEW c \in Conns, Pop(c) PROVE LocalInv'
  <2>1. PICK to \in {"deliver", "wait"}, m \in Messages \cup {Null}, q \in Seq(Messages) :
             /\ pc[c] = "pop"
             /\ pc' = [pc EXCEPT ![c] = to]
             /\ msg' = [msg EXCEPT ![c] = m]
             /\ to = "deliver" => m # Null
             /\ m_messages' = [m_messages EXCEPT ![c] = q]
    BY <1>31, PopStep
  <2>2. UNCHANGED <<clientVars, serverVars, roomVars, userVars, m_avail, role, want, room,
                    castVars, log>>
    BY <1>31 DEF Pop
  <2> QED  BY <2>1, <2>2
<1>32. ASSUME NEW c \in Conns, Cleanup(c) PROVE LocalInv'
  BY <1>32 DEF Cleanup, RemoveMember
<1>33. ASSUME NEW c \in Conns, DeleteUser(c) PROVE LocalInv'
  BY <1>33 DEF DeleteUser
<1>34. CASE UNCHANGED vars
  BY <1>34 DEF vars
<1> QED
  BY <1>1, <1>2, <1>3, <1>4, <1>5, <1>6, <1>7, <1>8, <1>9, <1>10, <1>11,
     <1>12, <1>13, <1>14, <1>15, <1>16, <1>17, <1>18, <1>19, <1>20, <1>21, <1>22,
     <1>23, <1>24, <1>25, <1>26, <1>27, <1>28, <1>29, <1>30, <1>31, <1>32, <1>33,
     <1>34 DEF Next, Worker, Input, Output, Internal

\* The Guard in find_or_create_room makes looking up and registering a Room one
\* step: no Room is replaced.
LEMMA NextRegistry ==
  TypeOK /\ LocalInv /\ RegistryInv /\ OneRoomPerName /\ [Next]_vars => RegistryInv' /\ OneRoomPerName'
<1> SUFFICES ASSUME TypeOK, LocalInv, RegistryInv, OneRoomPerName, [Next]_vars PROVE RegistryInv' /\ OneRoomPerName'
  OBVIOUS
<1> USE DEF clientVars, sharedVars, serverVars, roomVars, userVars, queueVars, localVars, castVars, Goto,
        TypeOK, LocalInv, RegistryInv, OneRoomPerName, NameOf
<1>1. ASSUME NEW c \in Conns, Hangup(c) PROVE RegistryInv' /\ OneRoomPerName'
  BY <1>1 DEF Hangup
<1>2. ASSUME NEW c \in Conns, LogIn(c) PROVE RegistryInv' /\ OneRoomPerName'
  BY <1>2 DEF LogIn
<1>3. ASSUME NEW c \in Conns, LoginRefused(c) PROVE RegistryInv' /\ OneRoomPerName'
  BY <1>3 DEF LoginRefused, Silent
<1>4. ASSUME NEW c \in Conns, LoginEof(c) PROVE RegistryInv' /\ OneRoomPerName'
  BY <1>4 DEF LoginEof, Silent
<1>5. ASSUME NEW c \in Conns, ReceiverJoin(c) PROVE RegistryInv' /\ OneRoomPerName'
  BY <1>5 DEF ReceiverJoin, ReadLine
<1>6. ASSUME NEW c \in Conns, ReceiverRefused(c) PROVE RegistryInv' /\ OneRoomPerName'
  BY <1>6 DEF ReceiverRefused, ReceiverGivesUp, ReadLine
<1>7. ASSUME NEW c \in Conns, ReceiverEof(c) PROVE RegistryInv' /\ OneRoomPerName'
  BY <1>7 DEF ReceiverEof, ReceiverGivesUp
<1>8. ASSUME NEW c \in Conns, CommandJoin(c) PROVE RegistryInv' /\ OneRoomPerName'
  BY <1>8 DEF CommandJoin, Command, ReadLine
<1>9. ASSUME NEW c \in Conns, CommandSendAll(c) PROVE RegistryInv' /\ OneRoomPerName'
  BY <1>9 DEF CommandSendAll, Command, ReadLine, NameOf
<1>10. ASSUME NEW c \in Conns, CommandLeave(c) PROVE RegistryInv' /\ OneRoomPerName'
  BY <1>10 DEF CommandLeave, Command, ReadLine
<1>11. ASSUME NEW c \in Conns, CommandQuit(c) PROVE RegistryInv' /\ OneRoomPerName'
  BY <1>11 DEF CommandQuit, Command, ReadLine, AfterLoop
<1>12. ASSUME NEW c \in Conns, CommandInvalid(c) PROVE RegistryInv' /\ OneRoomPerName'
  <2>1. PICK to \in {"reply", "command"}, k \in 0 .. MaxLines :
             /\ pc[c] = "command"
             /\ pc' = [pc EXCEPT ![c] = to]
             /\ lines' = [lines EXCEPT ![c] = k]
             /\ UNCHANGED <<peer, sharedVars, localVars, log>>
    BY <1>12, InvalidStep
  <2> QED  BY <2>1
<1>13. ASSUME NEW c \in Conns, CommandEof(c) PROVE RegistryInv' /\ OneRoomPerName'
  BY <1>13 DEF CommandEof, Silent, AfterLoop
<1>14. ASSUME NEW c \in Conns, Reply(c) PROVE RegistryInv' /\ OneRoomPerName'
  <2>1. PICK to \in {"command", "cleanup", "delete"} :
             /\ pc[c] = "reply"
             /\ pc' = [pc EXCEPT ![c] = to]
             /\ to = "cleanup" => room[c] # Null
             /\ to = "delete" => room[c] = Null
             /\ UNCHANGED <<clientVars, sharedVars, localVars, log>>
    BY <1>14, ReplyStep
  <2> QED  BY <2>1
<1>15. ASSUME NEW c \in Conns, Deliver(c) PROVE RegistryInv' /\ OneRoomPerName'
  BY <1>15 DEF Deliver, LoopHead, IsOpen
<1>16. ASSUME NEW c \in Conns, FindLock(c) PROVE RegistryInv' /\ OneRoomPerName'
  BY <1>16 DEF FindLock
<1>17. ASSUME NEW c \in Conns, FindHit(c) PROVE RegistryInv' /\ OneRoomPerName'
  BY <1>17 DEF FindHit
<1>18. ASSUME NEW c \in Conns, FindMiss(c) PROVE RegistryInv' /\ OneRoomPerName'
  BY <1>18 DEF FindMiss, Silent
<1>19. ASSUME NEW c \in Conns, InsertRoom(c) PROVE RegistryInv' /\ OneRoomPerName'
  BY <1>19 DEF InsertRoom
<1>20. ASSUME NEW c \in Conns, FindUnlock(c) PROVE RegistryInv' /\ OneRoomPerName'
  BY <1>20 DEF FindUnlock
<1>21. ASSUME NEW c \in Conns, Add(c) PROVE RegistryInv' /\ OneRoomPerName'
  BY <1>21 DEF Add, AddMember
<1>22. ASSUME NEW c \in Conns, LeaveOld(c) PROVE RegistryInv' /\ OneRoomPerName'
  BY <1>22 DEF LeaveOld, RemoveMember
<1>23. ASSUME NEW c \in Conns, Leave(c) PROVE RegistryInv' /\ OneRoomPerName'
  BY <1>23 DEF Leave, RemoveMember
<1>24. ASSUME NEW c \in Conns, BroadcastLock(c) PROVE RegistryInv' /\ OneRoomPerName'
  BY <1>24 DEF BroadcastLock
<1>25. ASSUME NEW c \in Conns, BroadcastSkip(c) PROVE RegistryInv' /\ OneRoomPerName'
  BY <1>25 DEF BroadcastSkip, Ahead
<1>26. ASSUME NEW c \in Conns, BroadcastPush(c) PROVE RegistryInv' /\ OneRoomPerName'
  BY <1>26 DEF BroadcastPush, Ahead
<1>27. ASSUME NEW c \in Conns, BroadcastPost(c) PROVE RegistryInv' /\ OneRoomPerName'
  BY <1>27 DEF BroadcastPost
<1>28. ASSUME NEW c \in Conns, BroadcastEnd(c) PROVE RegistryInv' /\ OneRoomPerName'
  BY <1>28 DEF BroadcastEnd, Ahead
<1>29. ASSUME NEW c \in Conns, Wait(c) PROVE RegistryInv' /\ OneRoomPerName'
  BY <1>29 DEF Wait
<1>30. ASSUME NEW c \in Conns, WaitTimeout(c) PROVE RegistryInv' /\ OneRoomPerName'
  BY <1>30 DEF WaitTimeout, Silent, LoopHead, IsOpen
<1>31. ASSUME NEW c \in Conns, Pop(c) PROVE RegistryInv' /\ OneRoomPerName'
  <2>1. PICK to \in {"deliver", "wait"}, m \in Messages \cup {Null}, q \in Seq(Messages) :
             /\ pc[c] = "pop"
             /\ pc' = [pc EXCEPT ![c] = to]
             /\ msg' = [msg EXCEPT ![c] = m]
             /\ to = "deliver" => m # Null
             /\ m_messages' = [m_messages EXCEPT ![c] = q]
    BY <1>31, PopStep
  <2>2. UNCHANGED <<clientVars, serverVars, roomVars, userVars, m_avail, role, want, room,
                    castVars, log>>
    BY <1>31 DEF Pop
  <2> QED  BY <2>1, <2>2
<1>32. ASSUME NEW c \in Conns, Cleanup(c) PROVE RegistryInv' /\ OneRoomPerName'
  BY <1>32 DEF Cleanup, RemoveMember
<1>33. ASSUME NEW c \in Conns, DeleteUser(c) PROVE RegistryInv' /\ OneRoomPerName'
  BY <1>33 DEF DeleteUser
<1>34. CASE UNCHANGED vars
  BY <1>34 DEF vars
<1> QED
  BY <1>1, <1>2, <1>3, <1>4, <1>5, <1>6, <1>7, <1>8, <1>9, <1>10, <1>11,
     <1>12, <1>13, <1>14, <1>15, <1>16, <1>17, <1>18, <1>19, <1>20, <1>21, <1>22,
     <1>23, <1>24, <1>25, <1>26, <1>27, <1>28, <1>29, <1>30, <1>31, <1>32, <1>33,
     <1>34 DEF Next, Worker, Input, Output, Internal

\* A Room's mutex is held by the broadcast that took it and by nobody else.
LEMMA NextRoomLock ==
  TypeOK /\ LocalInv /\ RoomLockInv /\ [Next]_vars => RoomLockInv'
<1> SUFFICES ASSUME TypeOK, LocalInv, RoomLockInv, [Next]_vars PROVE RoomLockInv'
  OBVIOUS
<1> USE DEF clientVars, sharedVars, serverVars, roomVars, userVars, queueVars, localVars, castVars, Goto,
        TypeOK, LocalInv, RoomLockInv
<1>1. ASSUME NEW c \in Conns, Hangup(c) PROVE RoomLockInv'
  BY <1>1 DEF Hangup
<1>2. ASSUME NEW c \in Conns, LogIn(c) PROVE RoomLockInv'
  BY <1>2 DEF LogIn
<1>3. ASSUME NEW c \in Conns, LoginRefused(c) PROVE RoomLockInv'
  BY <1>3 DEF LoginRefused, Silent
<1>4. ASSUME NEW c \in Conns, LoginEof(c) PROVE RoomLockInv'
  BY <1>4 DEF LoginEof, Silent
<1>5. ASSUME NEW c \in Conns, ReceiverJoin(c) PROVE RoomLockInv'
  BY <1>5 DEF ReceiverJoin, ReadLine
<1>6. ASSUME NEW c \in Conns, ReceiverRefused(c) PROVE RoomLockInv'
  BY <1>6 DEF ReceiverRefused, ReceiverGivesUp, ReadLine
<1>7. ASSUME NEW c \in Conns, ReceiverEof(c) PROVE RoomLockInv'
  BY <1>7 DEF ReceiverEof, ReceiverGivesUp
<1>8. ASSUME NEW c \in Conns, CommandJoin(c) PROVE RoomLockInv'
  BY <1>8 DEF CommandJoin, Command, ReadLine
<1>9. ASSUME NEW c \in Conns, CommandSendAll(c) PROVE RoomLockInv'
  BY <1>9 DEF CommandSendAll, Command, ReadLine, NameOf
<1>10. ASSUME NEW c \in Conns, CommandLeave(c) PROVE RoomLockInv'
  BY <1>10 DEF CommandLeave, Command, ReadLine
<1>11. ASSUME NEW c \in Conns, CommandQuit(c) PROVE RoomLockInv'
  BY <1>11 DEF CommandQuit, Command, ReadLine, AfterLoop
<1>12. ASSUME NEW c \in Conns, CommandInvalid(c) PROVE RoomLockInv'
  <2>1. PICK to \in {"reply", "command"}, k \in 0 .. MaxLines :
             /\ pc[c] = "command"
             /\ pc' = [pc EXCEPT ![c] = to]
             /\ lines' = [lines EXCEPT ![c] = k]
             /\ UNCHANGED <<peer, sharedVars, localVars, log>>
    BY <1>12, InvalidStep
  <2> QED  BY <2>1
<1>13. ASSUME NEW c \in Conns, CommandEof(c) PROVE RoomLockInv'
  BY <1>13 DEF CommandEof, Silent, AfterLoop
<1>14. ASSUME NEW c \in Conns, Reply(c) PROVE RoomLockInv'
  <2>1. PICK to \in {"command", "cleanup", "delete"} :
             /\ pc[c] = "reply"
             /\ pc' = [pc EXCEPT ![c] = to]
             /\ to = "cleanup" => room[c] # Null
             /\ to = "delete" => room[c] = Null
             /\ UNCHANGED <<clientVars, sharedVars, localVars, log>>
    BY <1>14, ReplyStep
  <2> QED  BY <2>1
<1>15. ASSUME NEW c \in Conns, Deliver(c) PROVE RoomLockInv'
  BY <1>15 DEF Deliver, LoopHead, IsOpen
<1>16. ASSUME NEW c \in Conns, FindLock(c) PROVE RoomLockInv'
  BY <1>16 DEF FindLock
<1>17. ASSUME NEW c \in Conns, FindHit(c) PROVE RoomLockInv'
  BY <1>17 DEF FindHit
<1>18. ASSUME NEW c \in Conns, FindMiss(c) PROVE RoomLockInv'
  BY <1>18 DEF FindMiss, Silent
<1>19. ASSUME NEW c \in Conns, InsertRoom(c) PROVE RoomLockInv'
  BY <1>19 DEF InsertRoom
<1>20. ASSUME NEW c \in Conns, FindUnlock(c) PROVE RoomLockInv'
  BY <1>20 DEF FindUnlock
<1>21. ASSUME NEW c \in Conns, Add(c) PROVE RoomLockInv'
  BY <1>21 DEF Add, AddMember
<1>22. ASSUME NEW c \in Conns, LeaveOld(c) PROVE RoomLockInv'
  BY <1>22 DEF LeaveOld, RemoveMember
<1>23. ASSUME NEW c \in Conns, Leave(c) PROVE RoomLockInv'
  BY <1>23 DEF Leave, RemoveMember
<1>24. ASSUME NEW c \in Conns, BroadcastLock(c) PROVE RoomLockInv'
  BY <1>24 DEF BroadcastLock
<1>25. ASSUME NEW c \in Conns, BroadcastSkip(c) PROVE RoomLockInv'
  BY <1>25 DEF BroadcastSkip, Ahead
<1>26. ASSUME NEW c \in Conns, BroadcastPush(c) PROVE RoomLockInv'
  BY <1>26 DEF BroadcastPush, Ahead
<1>27. ASSUME NEW c \in Conns, BroadcastPost(c) PROVE RoomLockInv'
  BY <1>27 DEF BroadcastPost
<1>28. ASSUME NEW c \in Conns, BroadcastEnd(c) PROVE RoomLockInv'
  BY <1>28 DEF BroadcastEnd, Ahead
<1>29. ASSUME NEW c \in Conns, Wait(c) PROVE RoomLockInv'
  BY <1>29 DEF Wait
<1>30. ASSUME NEW c \in Conns, WaitTimeout(c) PROVE RoomLockInv'
  BY <1>30 DEF WaitTimeout, Silent, LoopHead, IsOpen
<1>31. ASSUME NEW c \in Conns, Pop(c) PROVE RoomLockInv'
  <2>1. PICK to \in {"deliver", "wait"}, m \in Messages \cup {Null}, q \in Seq(Messages) :
             /\ pc[c] = "pop"
             /\ pc' = [pc EXCEPT ![c] = to]
             /\ msg' = [msg EXCEPT ![c] = m]
             /\ to = "deliver" => m # Null
             /\ m_messages' = [m_messages EXCEPT ![c] = q]
    BY <1>31, PopStep
  <2>2. UNCHANGED <<clientVars, serverVars, roomVars, userVars, m_avail, role, want, room,
                    castVars, log>>
    BY <1>31 DEF Pop
  <2> QED  BY <2>1, <2>2
<1>32. ASSUME NEW c \in Conns, Cleanup(c) PROVE RoomLockInv'
  BY <1>32 DEF Cleanup, RemoveMember
<1>33. ASSUME NEW c \in Conns, DeleteUser(c) PROVE RoomLockInv'
  BY <1>33 DEF DeleteUser
<1>34. CASE UNCHANGED vars
  BY <1>34 DEF vars
<1> QED
  BY <1>1, <1>2, <1>3, <1>4, <1>5, <1>6, <1>7, <1>8, <1>9, <1>10, <1>11,
     <1>12, <1>13, <1>14, <1>15, <1>16, <1>17, <1>18, <1>19, <1>20, <1>21, <1>22,
     <1>23, <1>24, <1>25, <1>26, <1>27, <1>28, <1>29, <1>30, <1>31, <1>32, <1>33,
     <1>34 DEF Next, Worker, Input, Output, Internal

\* Membership changes only with the room a thread believes to be in, and never
\* under a broadcast.
LEMMA NextMembers ==
  TypeOK /\ LocalInv /\ RoomLockInv /\ MembersInv /\ [Next]_vars => MembersInv'
<1> SUFFICES ASSUME TypeOK, LocalInv, RoomLockInv, MembersInv, [Next]_vars PROVE MembersInv'
  OBVIOUS
<1> USE DEF clientVars, sharedVars, serverVars, roomVars, userVars, queueVars, localVars, castVars, Goto,
        TypeOK, LocalInv, RoomLockInv, MembersInv, MemberAt
<1>1. ASSUME NEW c \in Conns, Hangup(c) PROVE MembersInv'
  BY <1>1 DEF Hangup
<1>2. ASSUME NEW c \in Conns, LogIn(c) PROVE MembersInv'
  <2>1. /\ \E to \in {"command", "join"} : Goto(c, "login", to)
        /\ UNCHANGED <<members, room, target>>
    BY <1>2 DEF LogIn
  <2> QED  BY <2>1
<1>3. ASSUME NEW c \in Conns, LoginRefused(c) PROVE MembersInv'
  BY <1>3 DEF LoginRefused, Silent
<1>4. ASSUME NEW c \in Conns, LoginEof(c) PROVE MembersInv'
  BY <1>4 DEF LoginEof, Silent
<1>5. ASSUME NEW c \in Conns, ReceiverJoin(c) PROVE MembersInv'
  BY <1>5 DEF ReceiverJoin, ReadLine
<1>6. ASSUME NEW c \in Conns, ReceiverRefused(c) PROVE MembersInv'
  BY <1>6 DEF ReceiverRefused, ReceiverGivesUp, ReadLine
<1>7. ASSUME NEW c \in Conns, ReceiverEof(c) PROVE MembersInv'
  BY <1>7 DEF ReceiverEof, ReceiverGivesUp
<1>8. ASSUME NEW c \in Conns, CommandJoin(c) PROVE MembersInv'
  BY <1>8 DEF CommandJoin, Command, ReadLine
<1>9. ASSUME NEW c \in Conns, CommandSendAll(c) PROVE MembersInv'
  BY <1>9 DEF CommandSendAll, Command, ReadLine, NameOf
<1>10. ASSUME NEW c \in Conns, CommandLeave(c) PROVE MembersInv'
  BY <1>10 DEF CommandLeave, Command, ReadLine
<1>11. ASSUME NEW c \in Conns, CommandQuit(c) PROVE MembersInv'
  BY <1>11 DEF CommandQuit, Command, ReadLine, AfterLoop
<1>12. ASSUME NEW c \in Conns, CommandInvalid(c) PROVE MembersInv'
  <2>1. PICK to \in {"reply", "command"}, k \in 0 .. MaxLines :
             /\ pc[c] = "command"
             /\ pc' = [pc EXCEPT ![c] = to]
             /\ lines' = [lines EXCEPT ![c] = k]
             /\ UNCHANGED <<peer, sharedVars, localVars, log>>
    BY <1>12, InvalidStep
  <2> QED  BY <2>1
<1>13. ASSUME NEW c \in Conns, CommandEof(c) PROVE MembersInv'
  BY <1>13 DEF CommandEof, Silent, AfterLoop
<1>14. ASSUME NEW c \in Conns, Reply(c) PROVE MembersInv'
  <2>1. PICK to \in {"command", "cleanup", "delete"} :
             /\ pc[c] = "reply"
             /\ pc' = [pc EXCEPT ![c] = to]
             /\ to = "cleanup" => room[c] # Null
             /\ to = "delete" => room[c] = Null
             /\ UNCHANGED <<clientVars, sharedVars, localVars, log>>
    BY <1>14, ReplyStep
  <2> QED  BY <2>1
<1>15. ASSUME NEW c \in Conns, Deliver(c) PROVE MembersInv'
  BY <1>15 DEF Deliver, LoopHead, IsOpen
<1>16. ASSUME NEW c \in Conns, FindLock(c) PROVE MembersInv'
  BY <1>16 DEF FindLock
<1>17. ASSUME NEW c \in Conns, FindHit(c) PROVE MembersInv'
  BY <1>17 DEF FindHit
<1>18. ASSUME NEW c \in Conns, FindMiss(c) PROVE MembersInv'
  BY <1>18 DEF FindMiss, Silent
<1>19. ASSUME NEW c \in Conns, InsertRoom(c) PROVE MembersInv'
  BY <1>19 DEF InsertRoom
<1>20. ASSUME NEW c \in Conns, FindUnlock(c) PROVE MembersInv'
  BY <1>20 DEF FindUnlock
<1>21. ASSUME NEW c \in Conns, Add(c) PROVE MembersInv'
  BY <1>21 DEF Add, AddMember
<1>22. ASSUME NEW c \in Conns, LeaveOld(c) PROVE MembersInv'
  BY <1>22 DEF LeaveOld, RemoveMember
<1>23. ASSUME NEW c \in Conns, Leave(c) PROVE MembersInv'
  BY <1>23 DEF Leave, RemoveMember
<1>24. ASSUME NEW c \in Conns, BroadcastLock(c) PROVE MembersInv'
  BY <1>24 DEF BroadcastLock
<1>25. ASSUME NEW c \in Conns, BroadcastSkip(c) PROVE MembersInv'
  BY <1>25 DEF BroadcastSkip, Ahead
<1>26. ASSUME NEW c \in Conns, BroadcastPush(c) PROVE MembersInv'
  BY <1>26 DEF BroadcastPush, Ahead
<1>27. ASSUME NEW c \in Conns, BroadcastPost(c) PROVE MembersInv'
  BY <1>27 DEF BroadcastPost
<1>28. ASSUME NEW c \in Conns, BroadcastEnd(c) PROVE MembersInv'
  BY <1>28 DEF BroadcastEnd, Ahead
<1>29. ASSUME NEW c \in Conns, Wait(c) PROVE MembersInv'
  BY <1>29 DEF Wait
<1>30. ASSUME NEW c \in Conns, WaitTimeout(c) PROVE MembersInv'
  BY <1>30 DEF WaitTimeout, Silent, LoopHead, IsOpen
<1>31. ASSUME NEW c \in Conns, Pop(c) PROVE MembersInv'
  <2>1. PICK to \in {"deliver", "wait"}, m \in Messages \cup {Null}, q \in Seq(Messages) :
             /\ pc[c] = "pop"
             /\ pc' = [pc EXCEPT ![c] = to]
             /\ msg' = [msg EXCEPT ![c] = m]
             /\ to = "deliver" => m # Null
             /\ m_messages' = [m_messages EXCEPT ![c] = q]
    BY <1>31, PopStep
  <2>2. UNCHANGED <<clientVars, serverVars, roomVars, userVars, m_avail, role, want, room,
                    castVars, log>>
    BY <1>31 DEF Pop
  <2> QED  BY <2>1, <2>2
<1>32. ASSUME NEW c \in Conns, Cleanup(c) PROVE MembersInv'
  BY <1>32 DEF Cleanup, RemoveMember
<1>33. ASSUME NEW c \in Conns, DeleteUser(c) PROVE MembersInv'
  BY <1>33 DEF DeleteUser
<1>34. CASE UNCHANGED vars
  BY <1>34 DEF vars
<1> QED
  BY <1>1, <1>2, <1>3, <1>4, <1>5, <1>6, <1>7, <1>8, <1>9, <1>10, <1>11,
     <1>12, <1>13, <1>14, <1>15, <1>16, <1>17, <1>18, <1>19, <1>20, <1>21, <1>22,
     <1>23, <1>24, <1>25, <1>26, <1>27, <1>28, <1>29, <1>30, <1>31, <1>32, <1>33,
     <1>34 DEF Next, Worker, Input, Output, Internal

-----------------------------------------------------------------------------
(***************************************************************************)
(* The theorems.                                                           *)
(***************************************************************************)

\* The initial state satisfies the inductive invariant: nobody holds a mutex
\* and every Room is empty.
LEMMA InitInd == Init => IndInv
<1> SUFFICES ASSUME Init PROVE IndInv
  OBVIOUS
<1>1. TypeOK
  <2>1. /\ \A s \in {m_messages} : s \in [Conns -> Seq(Messages)]
        /\ log \in [Conns -> Seq([m : Messages, sent : BOOLEAN])]
    BY EmptySeq DEF Init
  <2>2. lines \in [Conns -> 0 .. MaxLines]
    BY DEF Init
  <2> QED  BY <2>1, <2>2 DEF Init, TypeOK, PC
<1>2. LocalInv
  BY DEF Init, LocalInv
<1>3. RegistryInv /\ OneRoomPerName
  BY DEF Init, RegistryInv, OneRoomPerName
<1>4. RoomLockInv
  BY DEF Init, RoomLockInv
<1>5. MembersInv
  BY DEF Init, MembersInv
<1> QED  BY <1>1, <1>2, <1>3, <1>4, <1>5 DEF IndInv

\* IndInv holds at first, every step keeps it, and so it always holds.
THEOREM Invariance == SafeSpec => []IndInv
<1>1. IndInv /\ [Next]_vars => IndInv'
  BY NextTypes, NextLocal, NextRegistry, NextRoomLock, NextMembers DEF IndInv
<1> QED  BY <1>1, InitInd, PTL DEF SafeSpec

\* Every variable of the server stays within its type.
THEOREM TypeCorrect == SafeSpec => []TypeOK
<1>1. IndInv => TypeOK
  BY DEF IndInv
<1> QED  BY <1>1, Invariance, PTL

\* find_or_create_room returns the one Room of a name: any two threads that
\* have joined the same name hold the same Room.
THEOREM RoomUnique == SafeSpec => []OneRoomPerName
<1>1. IndInv => OneRoomPerName
  BY DEF IndInv
<1> QED  BY <1>1, Invariance, PTL

\* A User is in no Room but its thread's, and in that one while the thread
\* waits for its client.
THEOREM MembershipAccurate == SafeSpec => []MembershipMatchesRoom
<1>1. IndInv => MembershipMatchesRoom
  BY DEF IndInv, MembersInv, MemberAt, MembershipMatchesRoom
<1> QED  BY <1>1, Invariance, PTL

\* No Room and no broadcast refers to a deleted User.
THEOREM NoDanglingUser == SafeSpec => []NoUseAfterFree
<1>1. IndInv => NoUseAfterFree
  <2> SUFFICES ASSUME IndInv PROVE NoUseAfterFree
    OBVIOUS
  <2> USE DEF IndInv, TypeOK, LocalInv, MembersInv, MemberAt
  <2>1. ASSUME NEW r \in Rooms, NEW u \in members[r] PROVE user[u] = "live"
    <3>1. u \in Conns /\ pc[u] \in MemberAt
      OBVIOUS
    <3> QED  BY <3>1
  <2>2. ASSUME NEW c \in Conns, target[c] # Null PROVE user[target[c]] = "live"
    <3>1. room[c] \in Rooms /\ target[c] \in members[room[c]]
      BY <2>2
    <3> QED  BY <2>1, <3>1
  <2> QED  BY <2>1, <2>2 DEF NoUseAfterFree
<1> QED  BY <1>1, Invariance, PTL

\* No step touches the queue or the name of a User that is deleted.
THEOREM DeletedUserUntouched == SafeSpec => DeletedUsersLeftAlone
<1> DEFINE Left == \A u \in Conns : user[u] = "deleted" =>
                     UNCHANGED <<m_messages[u], m_avail[u], username[u]>>
<1>1. IndInv /\ NoUseAfterFree /\ [Next]_vars => Left
  <2> SUFFICES ASSUME IndInv, NoUseAfterFree, [Next]_vars,
                      NEW u \in Conns, user[u] = "deleted"
               PROVE  UNCHANGED <<m_messages[u], m_avail[u], username[u]>>
    OBVIOUS
  <2>a. /\ m_messages \in [Conns -> Seq(Messages)]
        /\ m_avail \in [Conns -> Nat]
        /\ username \in [Conns -> Usernames \cup {Null}]
        /\ pc[u] = "done"
        /\ \A c \in Conns : target[c] # u
        /\ \A r \in Rooms : u \notin members[r]
    BY DEF IndInv, TypeOK, LocalInv, NoUseAfterFree
  <2>1. ASSUME NEW c \in Conns,
               LogIn(c) \/ Wait(c) \/ DeleteUser(c)
        PROVE  UNCHANGED <<m_messages[u], m_avail[u], username[u]>>
    BY <2>1, <2>a DEF LogIn, Wait, DeleteUser, Goto, queueVars, userVars
  <2>2. ASSUME NEW c \in Conns, Pop(c)
        PROVE  UNCHANGED <<m_messages[u], m_avail[u], username[u]>>
    BY <2>2, <2>a, PopStep DEF Pop, IndInv, userVars
  <2>3. ASSUME NEW c \in Conns, BroadcastPush(c)
        PROVE  UNCHANGED <<m_messages[u], m_avail[u], username[u]>>
    <3>1. u \notin Ahead(c)
      <4>1. room[c] \in Rooms
        BY <2>3 DEF IndInv, TypeOK, LocalInv, BroadcastPush, Goto
      <4> QED  BY <2>a, <4>1 DEF Ahead
    <3>2. \E v \in Ahead(c) : m_messages' = [m_messages EXCEPT ![v] = Append(@, msg[c])]
      BY <2>3 DEF BroadcastPush
    <3> QED  BY <2>3, <2>a, <3>1, <3>2 DEF BroadcastPush, userVars
  <2>4. ASSUME NEW c \in Conns, BroadcastPost(c)
        PROVE  UNCHANGED <<m_messages[u], m_avail[u], username[u]>>
    BY <2>4, <2>a DEF BroadcastPost, userVars
  <2>5. ASSUME NEW c \in Conns,
               \/ ReceiverJoin(c) \/ ReceiverRefused(c) \/ ReceiverEof(c)
               \/ CommandJoin(c) \/ CommandSendAll(c) \/ CommandLeave(c)
               \/ CommandQuit(c) \/ CommandInvalid(c) \/ Deliver(c)
        PROVE  UNCHANGED <<m_messages[u], m_avail[u], username[u]>>
    BY <2>5 DEF ReceiverJoin, ReceiverRefused, ReceiverEof, ReceiverGivesUp, CommandJoin,
                CommandSendAll, CommandLeave, CommandQuit, CommandInvalid, Deliver,
                sharedVars, queueVars, userVars
  <2>6. ASSUME NEW c \in Conns,
               \/ Hangup(c) \/ LoginRefused(c) \/ LoginEof(c) \/ CommandEof(c) \/ Reply(c)
               \/ FindMiss(c) \/ WaitTimeout(c)
        PROVE  UNCHANGED <<m_messages[u], m_avail[u], username[u]>>
    BY <2>6 DEF Hangup, LoginRefused, LoginEof, CommandEof, Reply, FindMiss,
                WaitTimeout, Silent, sharedVars, queueVars, userVars
  <2>7. ASSUME NEW c \in Conns,
               \/ FindLock(c) \/ FindHit(c) \/ InsertRoom(c) \/ FindUnlock(c) \/ Add(c)
               \/ LeaveOld(c) \/ Leave(c) \/ BroadcastLock(c) \/ BroadcastSkip(c)
               \/ BroadcastEnd(c) \/ Cleanup(c)
        PROVE  UNCHANGED <<m_messages[u], m_avail[u], username[u]>>
    BY <2>7 DEF FindLock, FindHit, InsertRoom, FindUnlock, Add, LeaveOld, Leave,
                BroadcastLock, BroadcastSkip, BroadcastEnd, Cleanup, sharedVars,
                queueVars, userVars
  <2>8. CASE UNCHANGED vars
    BY <2>8 DEF vars, sharedVars, queueVars, userVars
  <2> QED
    BY <2>1, <2>2, <2>3, <2>4, <2>5, <2>6, <2>7, <2>8
       DEF Next, Worker, Input, Output, Internal
<1>2. IndInv /\ NoUseAfterFree /\ [Next]_vars => [Left]_vars
  BY <1>1
<1> QED
  BY <1>2, Invariance, NoDanglingUser, PTL DEF SafeSpec, DeletedUsersLeftAlone
-----------------------------------------------------------------------------
(***************************************************************************)
(* The refinement: what each user has been told.                           *)
(***************************************************************************)

\* The broadcast of c has yet to give its message to u.
Casts(c, u) ==
  /\ pc[c] \in {"bcast", "bcast_post"}
  /\ u \in members[room[c]]
  /\ u \notin visited[c] /\ u # target[c]
  /\ username[u] # username[c]

\* Everything u was told, the messages on their way to it included.
Told(u) == Given(u) \o Coming(u)

\* A User has a name once it is allocated; a broadcast is of its own thread's
\* message, in its own room, and begins with the first member.
CastInv ==
  \A c \in Conns :
    /\ user[c] = "none" <=> username[c] = Null
    /\ pc[c] \in {"bcast_lock", "bcast", "bcast_post"} =>
         msg[c].from = c /\ msg[c].room = NameOf(room[c])
    /\ pc[c] \notin {"bcast", "bcast_post"} => visited[c] = {}

\* At first no User is allocated.
LEMMA InitCast == Init => CastInv
BY DEF Init, CastInv

\* Two broadcasts in a room would both hold its mutex.
LEMMA OneCaster ==
  ASSUME IndInv, NEW u \in Conns
  PROVE  \A c, d \in Conns : Casts(c, u) /\ Casts(d, u) => c = d
<1> SUFFICES ASSUME NEW c \in Conns, NEW d \in Conns, Casts(c, u), Casts(d, u)
             PROVE  c = d
  OBVIOUS
<1>1. room[c] \in Rooms /\ room[d] \in Rooms
  BY DEF IndInv, TypeOK, LocalInv, Casts
<1>2. room[c] = room[u] /\ room[d] = room[u]
  BY <1>1 DEF IndInv, MembersInv, Casts
<1>3. lock[room[c]] = c /\ lock[room[d]] = d
  BY <1>1 DEF IndInv, RoomLockInv, Casts
<1> QED BY <1>2, <1>3

\* What is on its way to a user.
LEMMA ComingIs ==
  ASSUME IndInv, NEW u \in Conns
  PROVE  /\ \A c \in Conns : Casts(c, u) => Coming(u) = <<msg[c]>>
         /\ (\A c \in Conns : ~Casts(c, u)) => Coming(u) = <<>>
<1> DEFINE from == {c \in Conns :
                 /\ pc[c] \in {"bcast", "bcast_post"}
                 /\ u \in members[room[c]] \ (visited[c] \cup {target[c]})
                 /\ username[u] # username[c]}
<1>1. from = {c \in Conns : Casts(c, u)}
  BY DEF Casts
<1>2. Coming(u) = IF from = {} THEN <<>> ELSE <<msg[CHOOSE c \in from : TRUE]>>
  BY DEF Coming
<1> HIDE DEF from
<1>3. ASSUME NEW c \in Conns, Casts(c, u) PROVE Coming(u) = <<msg[c]>>
  <2>1. c \in from /\ \A d \in from : d = c
    BY <1>1, <1>3, OneCaster
  <2>2. (CHOOSE d \in from : TRUE) = c
    BY <2>1
  <2> QED BY <1>2, <2>1, <2>2
<1>4. ASSUME \A c \in Conns : ~Casts(c, u) PROVE Coming(u) = <<>>
  BY <1>1, <1>2, <1>4
<1> QED BY <1>3, <1>4

\* The same of the next state.
LEMMA ComingNext ==
  ASSUME IndInv', NEW u \in Conns
  PROVE  /\ \A c \in Conns : Casts(c, u)' => Coming(u)' = <<msg'[c]>>
         /\ (\A c \in Conns : ~Casts(c, u)') => Coming(u)' = <<>>
         /\ \A c, d \in Conns : Casts(c, u)' /\ Casts(d, u)' => c = d
<1>1. (/\ \A c \in Conns : Casts(c, u) => Coming(u) = <<msg[c]>>
       /\ (\A c \in Conns : ~Casts(c, u)) => Coming(u) = <<>>)'
  BY ComingIs, PTL
<1>2. (\A c, d \in Conns : Casts(c, u) /\ Casts(d, u) => c = d)'
  BY OneCaster, PTL
<1> QED BY <1>1, <1>2

\* What is on its way to u remains so when the broadcasts in its room do.
LEMMA SameComing ==
  ASSUME IndInv, IndInv', NEW u \in Conns,
         \A c \in Conns : Casts(c, u)' <=> Casts(c, u),
         \A c \in Conns : Casts(c, u) => msg'[c] = msg[c]
  PROVE  Coming(u)' = Coming(u)
<1>2. CASE \E c \in Conns : Casts(c, u)
  BY <1>2, ComingIs, ComingNext
<1>3. CASE \A c \in Conns : ~Casts(c, u)
  BY <1>3, ComingIs, ComingNext
<1> QED BY <1>2, <1>3

\* What u was given remains when its log and queue do.
LEMMA SameGiven ==
  ASSUME NEW u \in Conns, log'[u] = log[u], m_messages'[u] = m_messages[u],
         pc'[u] = "deliver" <=> pc[u] = "deliver", pc[u] = "deliver" => msg'[u] = msg[u]
  PROVE  Given(u)' = Given(u)
BY DEF Given

\* A function on 1 .. n is a sequence, and so is one element.
LEMMA MakesSeq ==
  ASSUME NEW S
  PROVE  /\ \A n \in Nat : \A f \in [1 .. n -> S] : f \in Seq(S) /\ Len(f) = n
         /\ \A x \in S : <<x>> \in Seq(S)
         /\ <<>> \in Seq(S)
OBVIOUS

\* What a thread has sent, or is about to send, are messages.
LEMMA BeforeQueueTypes ==
  ASSUME IndInv, NEW u \in Conns
  PROVE  LET sent == [i \in 1 .. Len(log[u]) |-> log[u][i].m]
             held == IF pc[u] = "deliver" THEN <<msg[u]>> ELSE <<>>
         IN  sent \in Seq(Messages) /\ held \in Seq(Messages) /\ sent \o held \in Seq(Messages)
<1> DEFINE sent == [i \in 1 .. Len(log[u]) |-> log[u][i].m]
           held == IF pc[u] = "deliver" THEN <<msg[u]>> ELSE <<>>
<1>1. sent \in Seq(Messages)
  <2>1. log[u] \in Seq([m : Messages, sent : BOOLEAN])
    BY DEF IndInv, TypeOK
  <2>2. Len(log[u]) \in Nat /\ \A i \in 1 .. Len(log[u]) : log[u][i] \in [m : Messages, sent : BOOLEAN]
    BY <2>1, ElementOfSeq, LenProperties
  <2>a. \A i \in 1 .. Len(log[u]) : log[u][i].m \in Messages
    BY <2>2
  <2>3. sent \in [1 .. Len(log[u]) -> Messages]
    BY <2>a
  <2> QED BY <2>2, <2>3, MakesSeq
<1>2. held \in Seq(Messages)
  BY MakesSeq DEF IndInv, TypeOK, LocalInv
<1> HIDE DEF sent, held
<1>3. sent \o held \in Seq(Messages)
  BY <1>1, <1>2, ConcatProperties
<1> QED BY <1>1, <1>2, <1>3 DEF sent, held

\* What a user is told are messages.
LEMMA ToldTypes ==
  ASSUME IndInv, NEW u \in Conns
  PROVE  /\ Given(u) \in Seq(Messages) /\ Coming(u) \in Seq(Messages)
         /\ Told(u) \in Seq(Messages)
<1> DEFINE sent == [i \in 1 .. Len(log[u]) |-> log[u][i].m]
           held == IF pc[u] = "deliver" THEN <<msg[u]>> ELSE <<>>
<1>1. sent \o held \in Seq(Messages)
  BY BeforeQueueTypes
<1>3. m_messages[u] \in Seq(Messages)
  BY DEF IndInv, TypeOK
<1>4. Given(u) = sent \o held \o m_messages[u]
  BY DEF Given
<1> HIDE DEF sent, held
<1>5. Given(u) \in Seq(Messages)
  BY <1>1, <1>3, <1>4
<1>6. Coming(u) \in Seq(Messages)
  <2>1. ASSUME NEW c \in Conns, Casts(c, u) PROVE Coming(u) \in Seq(Messages)
    <3>1. msg[c] \in Messages
      BY <2>1 DEF IndInv, TypeOK, LocalInv, Casts
    <3>2. Coming(u) = <<msg[c]>>
      BY <2>1, ComingIs
    <3> QED BY <3>1, <3>2, MakesSeq
  <2>2. ASSUME \A c \in Conns : ~Casts(c, u) PROVE Coming(u) \in Seq(Messages)
    BY <2>2, ComingIs, MakesSeq
  <2> QED BY <2>1, <2>2
<1> QED BY <1>5, <1>6 DEF Told

\* The same of all users.
LEMMA ToldTypesAll == IndInv => \A u \in Conns : Told(u) \in Seq(Messages)
BY ToldTypes

\* A step of c that is neither part of a broadcast nor takes or gives anything.
Quiet(c) ==
  /\ UNCHANGED <<members, username, log, m_messages>>
  /\ \A d \in Conns \ {c} : UNCHANGED <<pc[d], msg[d], visited[d], target[d], room[d]>>
  /\ {pc[c], pc'[c]} \cap {"bcast", "bcast_post", "deliver"} = {}

LEMMA QuietTold ==
  ASSUME IndInv, IndInv', NEW c \in Conns, Quiet(c), NEW u \in Conns
  PROVE  Told(u)' = Told(u)
<1>1. \A d \in Conns : (Casts(d, u)' <=> Casts(d, u)) /\ (Casts(d, u) => msg'[d] = msg[d])
  BY DEF Quiet, Casts
<1>2. Given(u)' = Given(u)
  BY SameGiven DEF Quiet
<1> QED BY <1>1, <1>2, SameComing DEF Told

\* The steps that are quiet.
LEMMA QuietSteps ==
  ASSUME TypeOK, NEW c \in Conns,
         \/ Hangup(c) /\ {pc[c]} \cap {"bcast", "bcast_post", "deliver"} = {}
         \/ LoginRefused(c) \/ LoginEof(c) \/ ReceiverJoin(c) \/ ReceiverRefused(c)
         \/ ReceiverEof(c) \/ CommandJoin(c) \/ CommandSendAll(c) \/ CommandLeave(c)
         \/ CommandQuit(c) \/ CommandInvalid(c) \/ CommandEof(c) \/ Reply(c)
         \/ FindLock(c) \/ FindHit(c) \/ FindMiss(c) \/ InsertRoom(c) \/ FindUnlock(c)
         \/ Wait(c) \/ WaitTimeout(c)
  PROVE  Quiet(c)
<1> USE DEF clientVars, sharedVars, serverVars, roomVars, userVars, queueVars, localVars, castVars, Goto,
        Quiet
<1>0. pc \in [Conns -> PC] /\ msg \in [Conns -> Messages \cup {Null}] /\ room \in [Conns -> Rooms \cup {Null}]
  BY DEF TypeOK
<1>1. CASE Hangup(c) /\ {pc[c]} \cap {"bcast", "bcast_post", "deliver"} = {}
  BY <1>0, <1>1 DEF Hangup
<1>2. CASE LoginRefused(c) \/ LoginEof(c) \/ CommandEof(c) \/ FindMiss(c) \/ WaitTimeout(c)
  BY <1>0, <1>2 DEF LoginRefused, LoginEof, CommandEof, FindMiss, WaitTimeout, Silent, AfterLoop,
                    LoopHead, IsOpen
<1>3. CASE ReceiverJoin(c) \/ ReceiverRefused(c) \/ ReceiverEof(c)
  BY <1>0, <1>3 DEF ReceiverJoin, ReceiverRefused, ReceiverEof, ReceiverGivesUp, ReadLine
<1>4. CASE CommandJoin(c) \/ CommandLeave(c) \/ CommandQuit(c)
  BY <1>0, <1>4 DEF CommandJoin, CommandLeave, CommandQuit, Command, ReadLine, AfterLoop
<1>5. CASE CommandSendAll(c)
  <2>1. PICK m \in Messages : msg' = [msg EXCEPT ![c] = m]
    BY <1>5, SendAllMessage
  <2> QED BY <1>0, <1>5, <2>1 DEF CommandSendAll, Command, ReadLine
<1>6. CASE CommandInvalid(c)
  <2>1. PICK to \in {"reply", "command"}, k \in 0 .. MaxLines :
             /\ pc[c] = "command"
             /\ pc' = [pc EXCEPT ![c] = to]
             /\ lines' = [lines EXCEPT ![c] = k]
             /\ UNCHANGED <<peer, sharedVars, localVars, log>>
    BY <1>6, InvalidStep
  <2> QED BY <1>0, <2>1
<1>7. CASE Reply(c)
  <2>1. PICK to \in {"command", "cleanup", "delete"} :
             /\ pc[c] = "reply"
             /\ pc' = [pc EXCEPT ![c] = to]
             /\ UNCHANGED <<clientVars, sharedVars, localVars, log>>
    BY <1>7, ReplyStep
  <2> QED BY <1>0, <2>1
<1>8. CASE FindLock(c) \/ FindHit(c) \/ InsertRoom(c) \/ FindUnlock(c)
  BY <1>0, <1>8 DEF FindLock, FindHit, InsertRoom, FindUnlock
<1>9. CASE Wait(c)
  BY <1>0, <1>9 DEF Wait
<1> QED BY <1>1, <1>2, <1>3, <1>4, <1>5, <1>6, <1>7, <1>8, <1>9

\* A broadcast is in a room.
LEMMA BroadcastRoom ==
  IndInv => \A d \in Conns : pc[d] \in {"bcast", "bcast_post"} => room[d] \in Rooms
<1> SUFFICES ASSUME IndInv, NEW d \in Conns, pc[d] \in {"bcast", "bcast_post"}
             PROVE  room[d] \in Rooms
  OBVIOUS
<1>1. room[d] \in Rooms \cup {Null}
  BY DEF IndInv, TypeOK
<1>2. room[d] # Null
  BY DEF IndInv, LocalInv
<1> QED BY <1>1, <1>2

\* A new user has been told nothing, and nobody speaks to it.
LEMMA LogInTold ==
  ASSUME IndInv, IndInv', NEW c \in Conns, LogIn(c), NEW u \in Conns
  PROVE  Told(u)' = Told(u)
<1>1. /\ pc \in [Conns -> PC] /\ username \in [Conns -> Usernames \cup {Null}]
      /\ members \in [Rooms -> SUBSET Conns]
      /\ \A d \in Conns : pc[d] \in {"bcast", "bcast_post"} => room[d] \in Rooms
  BY BroadcastRoom DEF IndInv, TypeOK
<1>2. /\ pc[c] = "login" /\ pc'[c] \in {"command", "join"}
      /\ \A d \in Conns \ {c} : pc'[d] = pc[d] /\ username'[d] = username[d]
      /\ UNCHANGED <<members, m_messages, room, msg, visited, target, log>>
  BY <1>1 DEF LogIn, Goto, roomVars, queueVars, castVars
<1>3. \A r \in Rooms : c \notin members[r]
  BY <1>2 DEF IndInv, MembersInv, MemberAt
<1>4. \A d \in Conns : (Casts(d, u)' <=> Casts(d, u)) /\ (Casts(d, u) => msg'[d] = msg[d])
  BY <1>1, <1>2, <1>3 DEF Casts
<1>5. Given(u)' = Given(u)
  BY <1>2, SameGiven
<1> QED BY <1>4, <1>5, SameComing DEF Told

\* Nobody speaks in a room that a user enters or leaves.
LEMMA MoveTold ==
  ASSUME IndInv, IndInv', NEW c \in Conns, Add(c) \/ LeaveOld(c) \/ Leave(c) \/ Cleanup(c),
         NEW u \in Conns
  PROVE  Told(u)' = Told(u)
<1>1. /\ pc \in [Conns -> PC] /\ members \in [Rooms -> SUBSET Conns]
      /\ room \in [Conns -> Rooms \cup {Null}]
  BY DEF IndInv, TypeOK
<1>a. /\ \A d \in Conns : pc[d] \in {"bcast", "bcast_post"} => room[d] \in Rooms
      /\ room[c] # Null => room[c] \in Rooms
  BY <1>1, BroadcastRoom
<1>2. /\ {pc[c], pc'[c]} \cap {"bcast", "bcast_post", "deliver"} = {}
      /\ \A d \in Conns \ {c} : pc'[d] = pc[d] /\ room'[d] = room[d]
      /\ lock[room[c]] = Null /\ room[c] # Null
      /\ \A r \in Rooms \ {room[c]} : members'[r] = members[r]
      /\ UNCHANGED <<username, m_messages, msg, visited, target, log>>
  BY <1>1 DEF Add, LeaveOld, Leave, Cleanup, AddMember, RemoveMember, Goto, userVars, queueVars,
     castVars, localVars, IndInv, LocalInv
<1>3. \A d \in Conns : pc[d] \in {"bcast", "bcast_post"} => room[d] # room[c]
  BY <1>1, <1>a, <1>2 DEF IndInv, RoomLockInv
<1>b. ~Casts(c, u) /\ ~Casts(c, u)'
  BY <1>2 DEF Casts
<1>c. ASSUME NEW d \in Conns \ {c}
      PROVE  Casts(d, u)' <=> Casts(d, u)
  <2>1. pc'[d] = pc[d] /\ room'[d] = room[d]
    BY <1>2
  <2>2. pc[d] \in {"bcast", "bcast_post"} => members'[room'[d]] = members[room[d]]
    BY <1>a, <1>2, <1>3, <2>1
  <2>3. UNCHANGED <<visited, target, username>>
    BY <1>2
  <2> QED BY <2>1, <2>2, <2>3 DEF Casts
<1>4. \A d \in Conns : (Casts(d, u)' <=> Casts(d, u)) /\ (Casts(d, u) => msg'[d] = msg[d])
  BY <1>b, <1>c, <1>2
<1>5. Given(u)' = Given(u)
  BY <1>2, SameGiven
<1> QED BY <1>4, <1>5, SameComing DEF Told

\* Whom the broadcast passes over, or has just given its message, it had
\* nothing to say to.
LEMMA CastTold ==
  ASSUME IndInv, IndInv', NEW c \in Conns, BroadcastSkip(c) \/ BroadcastPost(c) \/ BroadcastEnd(c),
         NEW u \in Conns
  PROVE  Told(u)' = Told(u)
<1>1. /\ pc \in [Conns -> PC] /\ msg \in [Conns -> Messages \cup {Null}]
      /\ visited \in [Conns -> SUBSET Conns] /\ target \in [Conns -> Conns \cup {Null}]
  BY DEF IndInv, TypeOK
<1>2. /\ UNCHANGED <<members, username, log, m_messages, room>>
      /\ \A d \in Conns \ {c} : UNCHANGED <<pc[d], msg[d], visited[d], target[d]>>
      /\ {pc[c], pc'[c]} \cap {"deliver"} = {}
  BY <1>1 DEF BroadcastSkip, BroadcastPost, BroadcastEnd, Goto, Ahead, clientVars, sharedVars,
     serverVars, roomVars, userVars, queueVars
<1>3. (Casts(c, u)' <=> Casts(c, u)) /\ (Casts(c, u) => msg'[c] = msg[c])
  <2>1. CASE BroadcastSkip(c)
    <3>1. PICK v \in Ahead(c) : username[v] = username[c] /\ visited' = [visited EXCEPT ![c] = @ \cup {v}]
      BY <2>1 DEF BroadcastSkip
    <3>2. visited'[c] = visited[c] \cup {v} /\ pc[c] = "bcast" /\ pc'[c] = "bcast" /\ target' = target
          /\ msg' = msg
      BY <1>1, <2>1, <3>1 DEF BroadcastSkip, Goto
    <3> QED BY <1>2, <3>1, <3>2 DEF Casts
  <2>2. CASE BroadcastPost(c)
    <3>1. /\ visited'[c] = visited[c] \cup {target[c]} /\ target'[c] = Null /\ msg' = msg
          /\ pc[c] = "bcast_post" /\ pc'[c] = "bcast"
      BY <1>1, <2>2 DEF BroadcastPost, Goto
    <3> QED BY <1>2, <3>1 DEF Casts
  <2>3. CASE BroadcastEnd(c)
    <3>1. pc'[c] = "reply" /\ members[room[c]] \subseteq visited[c]
      BY <1>1, <2>3 DEF BroadcastEnd, Goto, Ahead
    <3> QED BY <1>2, <3>1 DEF Casts
  <2> QED BY <2>1, <2>2, <2>3
<1>4. \A d \in Conns : (Casts(d, u)' <=> Casts(d, u)) /\ (Casts(d, u) => msg'[d] = msg[d])
  BY <1>2, <1>3 DEF Casts
<1>5. Given(u)' = Given(u)
  BY <1>2, SameGiven
<1> QED BY <1>4, <1>5, SameComing DEF Told

\* An entry may be added to a sequence or to the last part of it.
LEMMA LastPart ==
  ASSUME NEW S, NEW a \in Seq(S), NEW q \in Seq(S), NEW m \in S
  PROVE  (a \o q) \o <<m>> = (a \o Append(q, m)) \o <<>>
<1>1. <<m>> \in Seq(S) /\ Append(q, m) \in Seq(S)
  BY MakesSeq, AppendProperties
<1>2. (a \o q) \o <<m>> = a \o (q \o <<m>>)
  BY <1>1, ConcatAssociative
<1>3. q \o <<m>> = Append(q, m)
  BY AppendIsConcat
<1>4. a \o Append(q, m) \in Seq(S)
  BY <1>1, ConcatProperties
<1>5. (a \o Append(q, m)) \o <<>> = a \o Append(q, m)
  BY <1>4, ConcatEmptySeq
<1> QED BY <1>2, <1>3, <1>5

\* The head of a queue may be put before the rest of it.
LEMMA HeadFirst ==
  ASSUME NEW S, NEW a \in Seq(S), NEW q \in Seq(S), q # <<>>
  PROVE  (a \o <<>>) \o q = (a \o <<Head(q)>>) \o Tail(q)
<1>1. Head(q) \in S /\ Tail(q) \in Seq(S) /\ <<Head(q)>> \in Seq(S)
  BY HeadTailProperties, MakesSeq
<1>2. q = <<Head(q)>> \o Tail(q)
  BY <1>1, HeadTailProperties, SMT
<1>3. (a \o <<Head(q)>>) \o Tail(q) = a \o (<<Head(q)>> \o Tail(q))
  BY <1>1, ConcatAssociative
<1> QED BY <1>2, <1>3, ConcatEmptySeq

\* The entries of a sequence that has got one more.
LEMMA AppendAt ==
  ASSUME NEW S, NEW l \in Seq(S), NEW e \in S
  PROVE  /\ Len(l) \in Nat /\ \A i \in 1 .. Len(l) : l[i] \in S
         /\ Append(l, e) \in Seq(S) /\ Len(Append(l, e)) = Len(l) + 1
         /\ Append(l, e)[Len(l) + 1] = e
         /\ \A i \in 1 .. Len(l) : Append(l, e)[i] = l[i]
<1>1. Len(l) \in Nat /\ \A i \in 1 .. Len(l) : l[i] \in S
  BY ElementOfSeq, LenProperties
<1>2. /\ Append(l, e) \in Seq(S) /\ Len(Append(l, e)) = Len(l) + 1
      /\ Append(l, e)[Len(l) + 1] = e
      /\ \A i \in 1 .. Len(l) : Append(l, e)[i] = l[i]
  BY AppendProperties
<1> QED BY <1>1, <1>2

\* The broadcast that takes the lock tells everybody who hears it.
LEMMA LockTold ==
  ASSUME IndInv, IndInv', CastInv, NEW c \in Conns, BroadcastLock(c), NEW u \in Conns
  PROVE  /\ u \in members[room[c]] /\ username[u] # username[c] =>
              Told(u)' = Append(Told(u), msg[c])
         /\ ~(u \in members[room[c]] /\ username[u] # username[c]) => Told(u)' = Told(u)
<1>0. pc[c] = "bcast_lock" /\ visited[c] = {}
  BY DEF BroadcastLock, Goto, CastInv
<1>a. /\ pc \in [Conns -> PC] /\ msg[c] \in Messages \cup {Null}
      /\ room[c] \in Rooms \cup {Null}
  BY DEF IndInv, TypeOK
<1>b. msg[c] # Null /\ room[c] # Null /\ target[c] = Null
  BY <1>0 DEF IndInv, LocalInv
<1>1. /\ pc \in [Conns -> PC] /\ msg[c] \in Messages /\ room[c] \in Rooms
      /\ visited[c] = {} /\ target[c] = Null
  BY <1>0, <1>a, <1>b
<1>2. /\ pc[c] = "bcast_lock" /\ pc'[c] = "bcast" /\ \A d \in Conns \ {c} : pc'[d] = pc[d]
      /\ UNCHANGED <<members, username, log, m_messages, room, msg, visited, target>>
  BY <1>1 DEF BroadcastLock, Goto, userVars, queueVars, localVars, castVars
<1>3. Given(u)' = Given(u)
  BY <1>2, SameGiven
<1>4. \A d \in Conns \ {c} : (Casts(d, u)' <=> Casts(d, u))
  BY <1>2 DEF Casts
<1>5. ~Casts(c, u) /\ (Casts(c, u)' <=> u \in members[room[c]] /\ username[u] # username[c])
  BY <1>1, <1>2 DEF Casts
<1>6. CASE ~(u \in members[room[c]] /\ username[u] # username[c])
  <2>1. Coming(u)' = Coming(u)
    BY <1>2, <1>4, <1>5, <1>6, SameComing
  <2> QED BY <1>3, <1>6, <2>1 DEF Told
<1>7. CASE u \in members[room[c]] /\ username[u] # username[c]
  <2>1. \A d \in Conns : ~Casts(d, u)
    <3> SUFFICES ASSUME NEW d \in Conns, Casts(d, u) PROVE FALSE
      OBVIOUS
    <3>1. d # c /\ Casts(d, u)'
      BY <1>4, <1>5
    <3>2. Casts(c, u)'
      BY <1>5, <1>7
    <3> QED BY <3>1, <3>2, ComingNext
  <2>2. Coming(u) = <<>>
    BY <2>1, ComingIs
  <2>3. Coming(u)' = <<msg[c]>>
    <3>1. Casts(c, u)' /\ msg'[c] = msg[c]
      BY <1>2, <1>5, <1>7
    <3> QED BY <3>1, ComingNext
  <2>4. Given(u) \o <<msg[c]>> = Append(Given(u) \o <<>>, msg[c])
    <3> DEFINE g == Given(u)
               m == msg[c]
    <3>1. g \in Seq(Messages) /\ m \in Messages
      BY <1>1, ToldTypes
    <3> HIDE DEF g, m
    <3>2. g \o <<>> = g /\ Append(g, m) = g \o <<m>>
      BY <3>1, ConcatEmptySeq, AppendIsConcat
    <3>3. g \o <<m>> = Append(g \o <<>>, m)
      BY <3>2
    <3> QED BY <3>3 DEF g, m
  <2> QED BY <1>3, <1>7, <2>2, <2>3, <2>4 DEF Told
<1> QED BY <1>6, <1>7

\* What the broadcast puts in a queue its user was told before.
LEMMA PushTold ==
  ASSUME IndInv, IndInv', NEW c \in Conns, BroadcastPush(c), NEW u \in Conns
  PROVE  Told(u)' = Told(u)
<1>0. /\ pc \in [Conns -> PC] /\ m_messages \in [Conns -> Seq(Messages)]
      /\ target \in [Conns -> Conns \cup {Null}]
  BY DEF IndInv, TypeOK
<1>1. PICK v \in Ahead(c) : /\ username[v] # username[c]
                            /\ m_messages' = [m_messages EXCEPT ![v] = Append(@, msg[c])]
                            /\ target' = [target EXCEPT ![c] = v]
  BY DEF BroadcastPush
<1>2. /\ pc[c] = "bcast" /\ pc'[c] = "bcast_post" /\ \A d \in Conns \ {c} : pc'[d] = pc[d]
      /\ UNCHANGED <<members, username, log, room, msg, visited>>
  BY <1>0 DEF BroadcastPush, Goto, roomVars, userVars
<1>3. /\ room[c] \in Rooms /\ msg[c] \in Messages /\ target[c] = Null
      /\ v \in Conns /\ v \in members[room[c]] /\ v \notin visited[c]
  BY <1>2 DEF IndInv, TypeOK, LocalInv, Ahead
<1>4. target'[c] = v /\ \A d \in Conns \ {c} : target'[d] = target[d]
  BY <1>0, <1>1
<1>5. Casts(c, v) /\ ~Casts(c, v)' /\ (u # v => (Casts(c, u)' <=> Casts(c, u)))
  BY <1>1, <1>2, <1>3, <1>4 DEF Casts
<1>6. \A d \in Conns \ {c} : (Casts(d, u)' <=> Casts(d, u))
  BY <1>2, <1>4 DEF Casts
<1>7. CASE u # v
  <2>1. m_messages'[u] = m_messages[u]
    BY <1>0, <1>1, <1>7
  <2>2. Given(u)' = Given(u)
    BY <1>2, <2>1, SameGiven
  <2>3. Coming(u)' = Coming(u)
    BY <1>2, <1>5, <1>6, <1>7, SameComing
  <2> QED BY <2>2, <2>3 DEF Told
<1>8. CASE u = v
  <2>1. Coming(u) = <<msg[c]>>
    BY <1>5, <1>8, ComingIs
  <2>2. Coming(u)' = <<>>
    <3>1. \A d \in Conns : ~Casts(d, u)'
      BY <1>5, <1>6, <1>8, OneCaster
    <3> QED BY <3>1, ComingNext
  <2>3. m_messages'[u] = Append(m_messages[u], msg[c])
    BY <1>0, <1>1, <1>3, <1>8
  <2> DEFINE a == [i \in 1 .. Len(log[u]) |-> log[u][i].m]
                    \o (IF pc[u] = "deliver" THEN <<msg[u]>> ELSE <<>>)
  <2>4. Given(u) = a \o m_messages[u] /\ Given(u)' = a \o m_messages'[u]
    BY <1>2 DEF Given
  <2>5. a \in Seq(Messages) /\ m_messages[u] \in Seq(Messages)
    BY <1>0, BeforeQueueTypes
  <2> HIDE DEF a
  <2>6. (a \o m_messages[u]) \o <<msg[c]>> = (a \o Append(m_messages[u], msg[c])) \o <<>>
    <3> DEFINE q == m_messages[u]
               m == msg[c]
    <3>1. q \in Seq(Messages) /\ m \in Messages
      BY <1>3, <2>5
    <3> HIDE DEF q, m
    <3>2. (a \o q) \o <<m>> = (a \o Append(q, m)) \o <<>>
      BY <2>5, <3>1, LastPart
    <3> QED BY <3>2 DEF q, m
  <2>7. Given(u)' \o <<>> = Given(u) \o <<msg[c]>>
    BY <2>3, <2>4, <2>6
  <2> QED BY <2>1, <2>2, <2>7 DEF Told
<1> QED BY <1>7, <1>8

\* The messages of a log that has got one more entry.
LEMMA SentAppend ==
  ASSUME NEW l \in Seq([m : Messages, sent : BOOLEAN]), NEW e \in [m : Messages, sent : BOOLEAN]
  PROVE  [i \in 1 .. Len(Append(l, e)) |-> Append(l, e)[i].m]
           = [i \in 1 .. Len(l) |-> l[i].m] \o <<e.m>>
<1> DEFINE M == [m : Messages, sent : BOOLEAN]
           s == [i \in 1 .. Len(l) |-> l[i].m]
           t == [i \in 1 .. Len(Append(l, e)) |-> Append(l, e)[i].m]
<1> HIDE DEF M, s, t
<1>0. l \in Seq(M) /\ e \in M
  BY DEF M
<1>1. /\ Len(l) \in Nat /\ \A i \in 1 .. Len(l) : l[i] \in M
      /\ Append(l, e) \in Seq(M) /\ Len(Append(l, e)) = Len(l) + 1
      /\ Append(l, e)[Len(l) + 1] = e
      /\ \A i \in 1 .. Len(l) : Append(l, e)[i] = l[i]
  BY <1>0, AppendAt
<1>2. s \in [1 .. Len(l) -> Messages] /\ t \in [1 .. Len(l) + 1 -> Messages] /\ e.m \in Messages
  <2>1. \A x \in M : x.m \in Messages
    BY DEF M
  <2>2. \A i \in 1 .. Len(l) + 1 : Append(l, e)[i] \in M
    BY <1>1, ElementOfSeq
  <2>3. s \in [1 .. Len(l) -> Messages]
    BY <1>1, <2>1 DEF s
  <2>4. t \in [1 .. Len(l) + 1 -> Messages]
    BY <1>1, <2>1, <2>2 DEF t
  <2> QED BY <2>1, <2>3, <2>4, <1>0
<1>3. s \in Seq(Messages) /\ Len(s) = Len(l) /\ t \in Seq(Messages) /\ Len(t) = Len(l) + 1
  <2>1. Len(l) \in Nat /\ Len(l) + 1 \in Nat
    BY <1>1
  <2>2. \A n \in Nat : \A f \in [1 .. n -> Messages] : f \in Seq(Messages) /\ Len(f) = n
    BY MakesSeq
  <2> QED BY <1>2, <2>1, <2>2
<1>4. Append(s, e.m) \in Seq(Messages) /\ Len(Append(s, e.m)) = Len(l) + 1
      /\ \A i \in 1 .. Len(l) : Append(s, e.m)[i] = s[i]
      /\ Append(s, e.m)[Len(l) + 1] = e.m
  <2> DEFINE x == e.m
  <2>1. x \in Messages
    BY <1>2
  <2> HIDE DEF x
  <2>2. Append(s, x) \in Seq(Messages) /\ Len(Append(s, x)) = Len(s) + 1
        /\ (\A i \in 1 .. Len(s) : Append(s, x)[i] = s[i])
        /\ Append(s, x)[Len(s) + 1] = x
    BY <2>1, <1>3, AppendAt
  <2> QED BY <1>3, <2>2 DEF x
<1>5. \A i \in 1 .. Len(l) : s[i] = l[i].m
  BY DEF s
<1>6. \A i \in 1 .. Len(l) + 1 : t[i] = Append(l, e)[i].m
  BY <1>1 DEF t
<1>7. \A i \in 1 .. Len(t) : t[i] = Append(s, e.m)[i]
  <2> SUFFICES ASSUME NEW i \in 1 .. Len(l) + 1 PROVE t[i] = Append(s, e.m)[i]
    BY <1>3
  <2>1. CASE i = Len(l) + 1
    BY <1>1, <1>4, <1>6, <2>1
  <2>2. CASE i \in 1 .. Len(l)
    BY <1>1, <1>4, <1>5, <1>6, <2>2
  <2>3. Len(l) \in Nat
    BY <1>1
  <2>4. i = Len(l) + 1 \/ i \in 1 .. Len(l)
    BY <2>3
  <2> QED BY <2>1, <2>2, <2>4
<1>8. t = Append(s, e.m)
  BY <1>3, <1>4, <1>7, SeqEqual
<1>9. Append(s, e.m) = s \o <<e.m>>
  BY <1>2, <1>3, AppendIsConcat
<1> QED BY <1>8, <1>9 DEF s, t

\* What a thread has just dequeued its user was told before.
LEMMA PopTold ==
  ASSUME IndInv, IndInv', NEW c \in Conns, Pop(c), NEW u \in Conns
  PROVE  Told(u)' = Told(u)
<1>0. /\ pc \in [Conns -> PC] /\ m_messages \in [Conns -> Seq(Messages)]
      /\ msg \in [Conns -> Messages \cup {Null}]
  BY DEF IndInv, TypeOK
<1>1. /\ UNCHANGED <<members, username, log, room, visited, target>>
      /\ pc[c] = "pop" /\ pc'[c] \in {"deliver", "wait"}
      /\ \A d \in Conns \ {c} : UNCHANGED <<pc[d], msg[d], m_messages[d]>>
  BY <1>0 DEF Pop, Goto, LoopHead, IsOpen, roomVars, userVars, castVars
<1>2. \A d \in Conns : (Casts(d, u)' <=> Casts(d, u)) /\ (Casts(d, u) => msg'[d] = msg[d])
  BY <1>1 DEF Casts
<1>3. Coming(u)' = Coming(u)
  BY <1>2, SameComing
<1>4. CASE u # c
  <2>1. Given(u)' = Given(u)
    BY <1>1, <1>4, SameGiven
  <2> QED BY <1>3, <2>1 DEF Told
<1>5. CASE u = c
  <2> DEFINE sent == [i \in 1 .. Len(log[c]) |-> log[c][i].m]
  <2>1. Given(c) = (sent \o <<>>) \o m_messages[c]
    BY <1>1 DEF Given
  <2>2. CASE m_messages[c] = <<>>
    <3>1. m_messages'[c] = m_messages[c] /\ pc'[c] = "wait" /\ msg'[c] = msg[c]
      BY <1>0, <2>2 DEF Pop, Goto, LoopHead, IsOpen
    <3>2. Given(c)' = Given(c)
      BY <1>1, <3>1, SameGiven
    <3> QED BY <1>3, <1>5, <3>2 DEF Told
  <2>3. CASE m_messages[c] # <<>>
    <3>1. /\ m_messages'[c] = Tail(m_messages[c]) /\ msg'[c] = Head(m_messages[c])
          /\ pc'[c] = "deliver"
      BY <1>0, <2>3 DEF Pop, Goto
    <3>2. Given(c)' = (sent \o <<Head(m_messages[c])>>) \o Tail(m_messages[c])
      BY <1>1, <3>1 DEF Given
    <3>3. sent \in Seq(Messages) /\ m_messages[c] \in Seq(Messages)
      BY <1>0, BeforeQueueTypes
    <3> HIDE DEF sent
    <3>4. Given(c)' = Given(c)
      BY <2>1, <2>3, <3>2, <3>3, HeadFirst
    <3> QED BY <1>3, <1>5, <3>4 DEF Told
  <2> QED BY <2>2, <2>3
<1> QED BY <1>4, <1>5

\* What a thread has tried to send its user was told before.
LEMMA DeliverTold ==
  ASSUME IndInv, IndInv', NEW c \in Conns, Deliver(c), NEW u \in Conns
  PROVE  Told(u)' = Told(u)
<1>0. /\ pc \in [Conns -> PC] /\ msg \in [Conns -> Messages \cup {Null}]
      /\ log \in [Conns -> Seq([m : Messages, sent : BOOLEAN])]
      /\ m_messages \in [Conns -> Seq(Messages)]
  BY DEF IndInv, TypeOK
<1>a. pc[c] = "deliver" /\ msg[c] # Null
  BY DEF IndInv, LocalInv, Deliver, Goto
<1>b. PICK sent \in BOOLEAN : log' = [log EXCEPT ![c] = Append(@, [m |-> msg[c], sent |-> sent])]
  BY DEF Deliver
<1>1. /\ UNCHANGED <<members, username, m_messages, room, visited, target>>
      /\ pc'[c] = "wait"
      /\ \A d \in Conns \ {c} : UNCHANGED <<pc[d], msg[d], log[d]>>
  BY <1>0, <1>b DEF Deliver, Goto, LoopHead, IsOpen, sharedVars, roomVars, userVars, queueVars, castVars
<1>2. \A d \in Conns : (Casts(d, u)' <=> Casts(d, u)) /\ (Casts(d, u) => msg'[d] = msg[d])
  BY <1>a, <1>1 DEF Casts
<1>3. Coming(u)' = Coming(u)
  BY <1>2, SameComing
<1>4. CASE u # c
  <2>1. Given(u)' = Given(u)
    BY <1>1, <1>4, SameGiven
  <2> QED BY <1>3, <2>1 DEF Told
<1>5. CASE u = c
  <2> DEFINE Sent(l) == [i \in 1 .. Len(l) |-> l[i].m]
             e == [m |-> msg[c], sent |-> sent]
  <2>1. e \in [m : Messages, sent : BOOLEAN] /\ e.m = msg[c] /\ msg[c] \in Messages
    BY <1>0, <1>a
  <2>2. Sent(Append(log[c], e)) = Sent(log[c]) \o <<msg[c]>>
    BY <1>0, <2>1, SentAppend
  <2>3. Sent(log[c]) \in Seq(Messages)
    BY BeforeQueueTypes
  <2>4. Given(c) = (Sent(log[c]) \o <<msg[c]>>) \o m_messages[c]
    BY <1>a DEF Given
  <2>5. log'[c] = Append(log[c], e)
    BY <1>0, <1>b
  <2>6. Given(c)' = (Sent(log'[c]) \o <<>>) \o m_messages[c]
    BY <1>1 DEF Given
  <2> HIDE DEF Sent, e
  <2>7. Sent(log[c]) \o <<msg[c]>> \in Seq(Messages)
    BY <2>1, <2>3, MakesSeq, ConcatProperties
  <2>8. (Sent(log[c]) \o <<msg[c]>>) \o <<>> = Sent(log[c]) \o <<msg[c]>>
    BY <2>7, ConcatEmptySeq
  <2>9. Given(c)' = Given(c)
    BY <2>2, <2>4, <2>5, <2>6, <2>8
  <2> QED BY <1>3, <1>5, <2>9 DEF Told
<1> QED BY <1>4, <1>5

\* A delete takes from its own user what was still queued, and nothing more.
LEMMA DeleteTold ==
  ASSUME IndInv, IndInv', NEW c \in Conns, DeleteUser(c), NEW u \in Conns
  PROVE  /\ u # c => Told(u)' = Told(u)
         /\ \E q \in Seq(Messages) : Told(c) = Told(c)' \o q
<1>0. /\ pc \in [Conns -> PC] /\ m_messages \in [Conns -> Seq(Messages)]
      /\ room \in [Conns -> Rooms \cup {Null}]
  BY DEF IndInv, TypeOK
<1>1. /\ UNCHANGED <<members, username, log, room, msg, visited, target>>
      /\ pc[c] = "delete" /\ pc'[c] = "done" /\ m_messages'[c] = <<>>
      /\ \A d \in Conns \ {c} : UNCHANGED <<pc[d], m_messages[d]>>
  BY <1>0 DEF DeleteUser, Goto, roomVars, localVars, castVars
<1>2. \A d, v \in Conns : (Casts(d, v)' <=> Casts(d, v)) /\ (Casts(d, v) => msg'[d] = msg[d])
  BY <1>1 DEF Casts
<1>3. \A v \in Conns : Coming(v)' = Coming(v)
  BY <1>2, SameComing
<1>4. ASSUME u # c PROVE Told(u)' = Told(u)
  <2>1. Given(u)' = Given(u)
    BY <1>1, <1>4, SameGiven
  <2> QED BY <1>3, <2>1 DEF Told
<1>5. \E q \in Seq(Messages) : Told(c) = Told(c)' \o q
  <2>1. \A d \in Conns : ~Casts(d, c)
    <3>1. \A r \in Rooms : c \notin members[r]
      BY <1>1 DEF IndInv, MembersInv, MemberAt
    <3>2. \A d \in Conns : pc[d] \in {"bcast", "bcast_post"} => room[d] # Null
      BY DEF IndInv, LocalInv
    <3> QED BY <1>0, <3>1, <3>2 DEF Casts
  <2>2. Coming(c) = <<>> /\ Coming(c)' = <<>>
    BY <1>3, <2>1, ComingIs
  <2> DEFINE a == [i \in 1 .. Len(log[c]) |-> log[c][i].m] \o <<>>
             q == m_messages[c]
  <2>3. Given(c) = a \o q /\ Given(c)' = a \o <<>>
    BY <1>1 DEF Given
  <2>4. a \in Seq(Messages) /\ q \in Seq(Messages)
    BY <1>0, <1>1, BeforeQueueTypes
  <2> HIDE DEF a, q
  <2>5. a \o <<>> = a /\ (a \o q) \o <<>> = a \o q
    BY <2>4, ConcatEmptySeq, ConcatProperties
  <2>6. Told(c) = a \o q /\ Told(c)' = a
    BY <2>2, <2>3, <2>5 DEF Told
  <2> QED BY <2>4, <2>6
<1> QED BY <1>4, <1>5

\* A client that goes away, or a stuttering step, tells nobody anything.
LEMMA HangupTold ==
  ASSUME NEW u \in Conns, UNCHANGED vars \/ \E c \in Conns : Hangup(c)
  PROVE  Told(u)' = Told(u)
<1>1. UNCHANGED <<members, username, log, m_messages, pc, room, msg, visited, target>>
  BY DEF vars, Hangup, sharedVars, roomVars, userVars, queueVars, localVars, castVars
<1> QED BY <1>1 DEF Told, Given, Coming

\* The steps of a thread that tell nobody anything.
Untold(c) ==
  \/ LogIn(c) \/ LoginRefused(c) \/ LoginEof(c) \/ ReceiverJoin(c) \/ ReceiverRefused(c)
  \/ ReceiverEof(c) \/ CommandJoin(c) \/ CommandSendAll(c) \/ CommandLeave(c)
  \/ CommandQuit(c) \/ CommandInvalid(c) \/ CommandEof(c) \/ Reply(c) \/ Deliver(c)
  \/ FindLock(c) \/ FindHit(c) \/ FindMiss(c) \/ InsertRoom(c) \/ FindUnlock(c)
  \/ Add(c) \/ LeaveOld(c) \/ Leave(c)
  \/ BroadcastSkip(c) \/ BroadcastPush(c) \/ BroadcastPost(c) \/ BroadcastEnd(c)
  \/ Wait(c) \/ WaitTimeout(c) \/ Pop(c) \/ Cleanup(c)

LEMMA UntoldTold ==
  ASSUME IndInv, IndInv', NEW c \in Conns, Untold(c), NEW u \in Conns
  PROVE  Told(u)' = Told(u)
<1>0. TypeOK
  BY DEF IndInv
<1>1. CASE LogIn(c)
  BY <1>1, LogInTold
<1>2. CASE Add(c) \/ LeaveOld(c) \/ Leave(c) \/ Cleanup(c)
  BY <1>2, MoveTold
<1>3. CASE BroadcastSkip(c) \/ BroadcastPost(c) \/ BroadcastEnd(c)
  BY <1>3, CastTold
<1>4. CASE BroadcastPush(c)
  BY <1>4, PushTold
<1>5. CASE Pop(c)
  BY <1>5, PopTold
<1>6. CASE Deliver(c)
  BY <1>6, DeliverTold
<1>7. CASE \/ LoginRefused(c) \/ LoginEof(c) \/ ReceiverJoin(c) \/ ReceiverRefused(c)
           \/ ReceiverEof(c) \/ CommandJoin(c) \/ CommandSendAll(c) \/ CommandLeave(c)
           \/ CommandQuit(c) \/ CommandInvalid(c) \/ CommandEof(c) \/ Reply(c)
           \/ FindLock(c) \/ FindHit(c) \/ FindMiss(c) \/ InsertRoom(c) \/ FindUnlock(c)
           \/ Wait(c) \/ WaitTimeout(c)
  <2>1. Quiet(c)
    BY <1>0, <1>7, QuietSteps
  <2> QED BY <2>1, QuietTold
<1> QED BY <1>1, <1>2, <1>3, <1>4, <1>5, <1>6, <1>7 DEF Untold

\* Next, by what a step tells whom.
LEMMA NextCases ==
  ASSUME [Next]_vars
  PROVE  \/ UNCHANGED vars \/ \E c \in Conns : Hangup(c)
         \/ \E c \in Conns : Untold(c) \/ BroadcastLock(c) \/ DeleteUser(c)
BY DEF Next, Worker, Input, Output, Internal, Untold

\* Every step keeps CastInv: a broadcast begins with the message its thread made.
LEMMA NextCast == CastInv /\ IndInv /\ [Next]_vars => CastInv'
<1> SUFFICES ASSUME CastInv, IndInv, [Next]_vars PROVE CastInv'
  OBVIOUS
<1> USE DEF clientVars, sharedVars, serverVars, roomVars, userVars, queueVars, localVars, castVars, Goto,
        CastInv
<1>0. /\ pc \in [Conns -> PC] /\ username \in [Conns -> Usernames \cup {Null}]
      /\ user \in [Conns -> {"none", "live", "deleted"}]
      /\ room \in [Conns -> Rooms \cup {Null}] /\ msg \in [Conns -> Messages \cup {Null}]
      /\ visited \in [Conns -> SUBSET Conns]
      /\ \A c \in Conns : pc[c] \notin {"login", "done"} => user[c] = "live"
      /\ TypeOK
  BY DEF IndInv, TypeOK, LocalInv
<1>1. CASE UNCHANGED vars \/ \E c \in Conns : Hangup(c)
  BY <1>1 DEF vars, Hangup
<1>2. ASSUME NEW c \in Conns, LogIn(c) PROVE CastInv'
  <2>1. PICK l \in Logins[c] : username' = [username EXCEPT ![c] = l.user]
    BY <1>2 DEF LogIn
  <2>2. l.user \in Usernames /\ l.user # Null
    BY DEF Login
  <2>3. pc'[c] \in {"command", "join"} /\ \A d \in Conns \ {c} : pc'[d] = pc[d]
    BY <1>0, <1>2 DEF LogIn
  <2>4. username'[c] # Null /\ \A d \in Conns \ {c} : username'[d] = username[d]
    BY <1>0, <2>1, <2>2
  <2>5. pc[c] = "login" /\ user'[c] = "live" /\ \A d \in Conns \ {c} : user'[d] = user[d]
    BY <1>0, <1>2 DEF LogIn
  <2>6. UNCHANGED <<room, msg, visited>>
    BY <1>2 DEF LogIn
  <2> QED BY <2>3, <2>4, <2>5, <2>6
<1>3. ASSUME NEW c \in Conns,
             LoginRefused(c) \/ LoginEof(c) \/ CommandEof(c) \/ FindMiss(c) \/ WaitTimeout(c)
      PROVE  CastInv'
  BY <1>0, <1>3 DEF LoginRefused, LoginEof, CommandEof, FindMiss, WaitTimeout, Silent, AfterLoop,
                    LoopHead, IsOpen
<1>4. ASSUME NEW c \in Conns, ReceiverJoin(c) \/ CommandJoin(c) \/ CommandLeave(c) \/ CommandQuit(c)
      PROVE  CastInv'
  BY <1>0, <1>4 DEF ReceiverJoin, CommandJoin, CommandLeave, CommandQuit, Command, ReadLine, AfterLoop
<1>5. ASSUME NEW c \in Conns, ReceiverRefused(c) \/ ReceiverEof(c) PROVE CastInv'
  BY <1>0, <1>5 DEF ReceiverRefused, ReceiverEof, ReceiverGivesUp, ReadLine
<1>6. ASSUME NEW c \in Conns, CommandSendAll(c) PROVE CastInv'
  <2>1. PICK fits \in TextFits :
          msg' = [msg EXCEPT ![c] = [room |-> NameOf(room[c]), from |-> c,
                                     id |-> lines[c] + 1, fits |-> fits]]
    BY <1>6 DEF CommandSendAll
  <2>2. /\ msg'[c].from = c /\ msg'[c].room = NameOf(room[c])
        /\ \A d \in Conns \ {c} : msg'[d] = msg[d]
    BY <1>0, <2>1
  <2>3. /\ pc[c] = "command" /\ pc'[c] = "bcast_lock" /\ \A d \in Conns \ {c} : pc'[d] = pc[d]
        /\ UNCHANGED <<user, username, room, visited>>
    BY <1>0, <1>6 DEF CommandSendAll, Command
  <2> QED BY <2>2, <2>3
<1>7. ASSUME NEW c \in Conns, CommandInvalid(c) PROVE CastInv'
  <2>1. PICK to \in {"reply", "command"}, k \in 0 .. MaxLines :
             /\ pc[c] = "command"
             /\ pc' = [pc EXCEPT ![c] = to]
             /\ lines' = [lines EXCEPT ![c] = k]
             /\ UNCHANGED <<peer, sharedVars, localVars, log>>
    BY <1>0, <1>7, InvalidStep
  <2> QED BY <1>0, <2>1
<1>8. ASSUME NEW c \in Conns, Reply(c) PROVE CastInv'
  <2>1. PICK to \in {"command", "cleanup", "delete"} :
             /\ pc[c] = "reply"
             /\ pc' = [pc EXCEPT ![c] = to]
             /\ UNCHANGED <<clientVars, sharedVars, localVars, log>>
    BY <1>8, ReplyStep
  <2> QED BY <1>0, <2>1
<1>9. ASSUME NEW c \in Conns, Deliver(c) PROVE CastInv'
  BY <1>0, <1>9 DEF Deliver, LoopHead, IsOpen
<1>10. ASSUME NEW c \in Conns,
              FindLock(c) \/ FindHit(c) \/ InsertRoom(c) \/ FindUnlock(c) \/ Wait(c)
       PROVE  CastInv'
  BY <1>0, <1>10 DEF FindLock, FindHit, InsertRoom, FindUnlock, Wait
<1>11. ASSUME NEW c \in Conns, Add(c) \/ LeaveOld(c) \/ Leave(c) \/ Cleanup(c) PROVE CastInv'
  BY <1>0, <1>11 DEF Add, LeaveOld, Leave, Cleanup, AddMember, RemoveMember
<1>12. ASSUME NEW c \in Conns, BroadcastLock(c) PROVE CastInv'
  BY <1>0, <1>12 DEF BroadcastLock
<1>13. ASSUME NEW c \in Conns, BroadcastSkip(c) \/ BroadcastPush(c) \/ BroadcastPost(c) PROVE CastInv'
  <2>1. /\ pc[c] \in {"bcast", "bcast_post"} /\ pc'[c] \in {"bcast", "bcast_post"}
        /\ \A d \in Conns \ {c} : pc'[d] = pc[d] /\ visited'[d] = visited[d]
        /\ UNCHANGED <<user, username, room, msg>>
    BY <1>0, <1>13 DEF BroadcastSkip, BroadcastPush, BroadcastPost
  <2> QED BY <2>1
<1>14. ASSUME NEW c \in Conns, BroadcastEnd(c) PROVE CastInv'
  BY <1>0, <1>14 DEF BroadcastEnd
<1>15. ASSUME NEW c \in Conns, Pop(c) PROVE CastInv'
  <2>1. /\ pc[c] = "pop" /\ pc'[c] \in {"deliver", "wait"}
        /\ \A d \in Conns \ {c} : pc'[d] = pc[d] /\ msg'[d] = msg[d]
        /\ UNCHANGED <<user, username, room, visited>>
    BY <1>0, <1>15 DEF Pop, LoopHead, IsOpen
  <2> QED BY <2>1
<1>16. ASSUME NEW c \in Conns, DeleteUser(c) PROVE CastInv'
  BY <1>0, <1>16 DEF DeleteUser
<1> QED BY <1>1, <1>2, <1>3, <1>4, <1>5, <1>6, <1>7, <1>8, <1>9, <1>10, <1>11, <1>12, <1>13, <1>14,
           <1>15, <1>16, NextCases DEF Untold

-----------------------------------------------------------------------------
(***************************************************************************)
(* The refinement: steps of the server and steps of ChatRooms.             *)
(***************************************************************************)

\* What Chat substitutes for where and feed.
Where == [u \in Conns |-> IF \E r \in Rooms : u \in members[r]
                          THEN NameOf(CHOOSE r \in Rooms : u \in members[r])
                          ELSE Null]
Feed == [u \in Conns |-> IF user[u] = "deleted" THEN <<>> ELSE Told(u)]

\* A user is where it is a member.
LEMMA WhereIs ==
  ASSUME MembersInv
  PROVE  \A u \in Conns :
           /\ \A r \in Rooms : u \in members[r] => Where[u] = NameOf(r)
           /\ (\A r \in Rooms : u \notin members[r]) => Where[u] = Null
<1> SUFFICES ASSUME NEW u \in Conns
             PROVE  /\ \A r \in Rooms : u \in members[r] => Where[u] = NameOf(r)
                    /\ (\A r \in Rooms : u \notin members[r]) => Where[u] = Null
  OBVIOUS
<1>1. Where[u] = IF \E r \in Rooms : u \in members[r]
                 THEN NameOf(CHOOSE r \in Rooms : u \in members[r])
                 ELSE Null
  BY DEF Where
<1>2. \A r \in Rooms : u \in members[r] => r = room[u]
  BY DEF MembersInv
<1>3. ASSUME NEW r \in Rooms, u \in members[r] PROVE Where[u] = NameOf(r)
  <2>1. (CHOOSE s \in Rooms : u \in members[s]) = r
    BY <1>2, <1>3
  <2> QED BY <1>1, <1>3, <2>1
<1> QED BY <1>1, <1>3

\* The same of the next state.
LEMMA WhereNext ==
  ASSUME MembersInv'
  PROVE  \A u \in Conns :
           /\ \A r \in Rooms : u \in members'[r] => Where'[u] = NameOf(r)
           /\ (\A r \in Rooms : u \notin members'[r]) => Where'[u] = Null
<1>1. (\A u \in Conns :
         /\ \A r \in Rooms : u \in members[r] => Where[u] = NameOf(r)
         /\ (\A r \in Rooms : u \notin members[r]) => Where[u] = Null)'
  BY WhereIs, PTL
<1> QED BY <1>1

\* The name of a Room is one.
LEMMA NamesOfRooms == \A r \in Rooms : NameOf(r) \in RoomNames /\ NameOf(r) # Null
BY DEF Rooms, NameOf

\* The actions of ChatRooms as the refinement maps them.
LEMMA ChatSays ==
  ASSUME NEW c \in Conns
  PROVE  /\ \A x \in Usernames :
              username[c] = Null /\ username' = [username EXCEPT ![c] = x]
                /\ UNCHANGED <<Where, Feed>> => Chat!Next
         /\ \A n \in RoomNames :
              username[c] # Null /\ Where[c] = Null /\ Where' = [Where EXCEPT ![c] = n]
                /\ UNCHANGED <<username, Feed>> => Chat!Next
         /\ Where[c] # Null /\ Where' = [Where EXCEPT ![c] = Null]
              /\ UNCHANGED <<username, Feed>> => Chat!Next
         /\ \A m \in Messages :
              m.from = c /\ Where[c] # Null /\ m.room = Where[c]
                /\ Feed' = [u \in Conns |-> IF Where[u] = Where[c] /\ username[u] # username[c]
                                            THEN Append(Feed[u], m) ELSE Feed[u]]
                /\ UNCHANGED <<username, Where>> => Chat!Next
         /\ Where[c] = Null /\ Feed' = [Feed EXCEPT ![c] = <<>>]
              /\ UNCHANGED <<username, Where>> => Chat!Next
<1> USE DEF Chat!Next, Where, Feed, Told
<1>1. ASSUME NEW x \in Usernames, username[c] = Null, username' = [username EXCEPT ![c] = x],
             UNCHANGED <<Where, Feed>>
      PROVE  Chat!Next
  <2>1. Chat!LogIn(c, x)
    BY <1>1 DEF Chat!LogIn
  <2> QED BY <2>1
<1>2. ASSUME NEW n \in RoomNames, username[c] # Null, Where[c] = Null,
             Where' = [Where EXCEPT ![c] = n], UNCHANGED <<username, Feed>>
      PROVE  Chat!Next
  <2>1. Chat!Enter(c, n)
    BY <1>2 DEF Chat!Enter
  <2> QED BY <2>1
<1>3. ASSUME Where[c] # Null, Where' = [Where EXCEPT ![c] = Null], UNCHANGED <<username, Feed>>
      PROVE  Chat!Next
  <2>1. Chat!Exit(c)
    BY <1>3 DEF Chat!Exit
  <2> QED BY <2>1
<1>4. ASSUME NEW m \in Messages, m.from = c, Where[c] # Null, m.room = Where[c],
             Feed' = [u \in Conns |-> IF Where[u] = Where[c] /\ username[u] # username[c]
                                      THEN Append(Feed[u], m) ELSE Feed[u]],
             UNCHANGED <<username, Where>>
      PROVE  Chat!Next
  <2>1. Chat!Say(c, m)
    BY <1>4 DEF Chat!Say, Chat!Hears
  <2> QED BY <2>1
<1>5. ASSUME Where[c] = Null, Feed' = [Feed EXCEPT ![c] = <<>>], UNCHANGED <<username, Where>>
      PROVE  Chat!Next
  <2>1. Chat!Forget(c)
    BY <1>5 DEF Chat!Forget
  <2> QED BY <2>1
<1> QED BY <1>1, <1>2, <1>3, <1>4, <1>5

\* A step that changes neither is a stutter of ChatRooms.
LEMMA ChatStutters ==
  UNCHANGED <<username, Where, Feed>> => UNCHANGED Chat!vars
BY DEF Chat!vars, Where, Feed, Told

\* At first nobody has been told anything.
LEMMA InitTold == Init => \A u \in Conns : Told(u) = <<>>
<1> SUFFICES ASSUME Init, NEW u \in Conns PROVE Told(u) = <<>>
  OBVIOUS
<1>0. IndInv
  BY InitInd
<1>1. \A d \in Conns : ~Casts(d, u)
  BY DEF Init, Casts
<1>2. Coming(u) = <<>>
  BY <1>0, <1>1, ComingIs
<1>3. log[u] = <<>> /\ m_messages[u] = <<>> /\ pc[u] = "login"
  BY DEF Init
<1> DEFINE s == [i \in 1 .. Len(log[u]) |-> log[u][i].m]
<1>4. s = <<>>
  BY <1>3
<1>5. Given(u) = (s \o <<>>) \o <<>>
  BY <1>3 DEF Given
<1> HIDE DEF s
<1>6. Given(u) = <<>>
  BY <1>4, <1>5
<1> QED BY <1>2, <1>6 DEF Told

\* At first nobody has a name, is anywhere or has been told anything.
LEMMA ChatInit == Init => Chat!Init
<1> SUFFICES ASSUME Init PROVE Chat!Init
  OBVIOUS
<1>1. username = [u \in Conns |-> Null]
  BY DEF Init
<1>2. Where = [u \in Conns |-> Null]
  BY DEF Init, Where
<1>3. \A u \in Conns : Told(u) = <<>>
  BY InitTold
<1>4. Feed = [u \in Conns |-> <<>>]
  BY <1>3 DEF Init, Feed
<1> QED BY <1>1, <1>2, <1>4 DEF Chat!Init, Where, Feed, Told

\* Nobody but the User of its own connection is allocated or deleted, or gets a
\* name; only these steps do it.
LEMMA SameUsers ==
  ASSUME NEW c \in Conns, Untold(c) \/ BroadcastLock(c) \/ Hangup(c),
         ~LogIn(c), ~ReceiverRefused(c), ~ReceiverEof(c)
  PROVE  UNCHANGED <<user, username>>
<1> USE DEF sharedVars, userVars
<1>1. CASE \/ LoginRefused(c) \/ LoginEof(c) \/ CommandEof(c) \/ Reply(c) \/ FindMiss(c)
           \/ WaitTimeout(c) \/ Hangup(c)
  BY <1>1 DEF LoginRefused, LoginEof, CommandEof, Reply, FindMiss, WaitTimeout, Silent, Hangup
<1>2. CASE \/ ReceiverJoin(c) \/ CommandJoin(c) \/ CommandSendAll(c) \/ CommandLeave(c)
           \/ CommandQuit(c) \/ CommandInvalid(c) \/ Deliver(c)
  BY <1>2 DEF ReceiverJoin, CommandJoin, CommandSendAll, CommandLeave, CommandQuit, CommandInvalid,
              Deliver
<1>3. CASE \/ FindLock(c) \/ FindHit(c) \/ InsertRoom(c) \/ FindUnlock(c) \/ Add(c) \/ LeaveOld(c)
           \/ Leave(c) \/ Cleanup(c) \/ Wait(c) \/ Pop(c)
  BY <1>3 DEF FindLock, FindHit, InsertRoom, FindUnlock, Add, LeaveOld, Leave, Cleanup, Wait, Pop
<1>4. CASE \/ BroadcastLock(c) \/ BroadcastSkip(c) \/ BroadcastPush(c) \/ BroadcastPost(c)
           \/ BroadcastEnd(c)
  BY <1>4 DEF BroadcastLock, BroadcastSkip, BroadcastPush, BroadcastPost, BroadcastEnd
<1> QED BY <1>1, <1>2, <1>3, <1>4 DEF Untold

\* Only these steps change who is in a room.
LEMMA SameMembers ==
  ASSUME NEW c \in Conns, Untold(c) \/ BroadcastLock(c) \/ DeleteUser(c) \/ Hangup(c),
         ~Add(c), ~LeaveOld(c), ~Leave(c), ~Cleanup(c)
  PROVE  members' = members
<1> USE DEF sharedVars, roomVars
<1>1. CASE \/ LoginRefused(c) \/ LoginEof(c) \/ CommandEof(c) \/ Reply(c) \/ FindMiss(c)
           \/ WaitTimeout(c) \/ Hangup(c)
  BY <1>1 DEF LoginRefused, LoginEof, CommandEof, Reply, FindMiss, WaitTimeout, Silent, Hangup
<1>2. CASE \/ LogIn(c) \/ ReceiverJoin(c) \/ CommandJoin(c) \/ CommandSendAll(c) \/ CommandLeave(c)
           \/ CommandQuit(c) \/ CommandInvalid(c) \/ Deliver(c) \/ ReceiverRefused(c) \/ ReceiverEof(c)
  BY <1>2 DEF LogIn, ReceiverJoin, CommandJoin, CommandSendAll, CommandLeave, CommandQuit,
              CommandInvalid, Deliver, ReceiverRefused, ReceiverEof, ReceiverGivesUp
<1>3. CASE \/ FindLock(c) \/ FindHit(c) \/ InsertRoom(c) \/ FindUnlock(c) \/ Wait(c) \/ Pop(c)
           \/ DeleteUser(c)
  BY <1>3 DEF FindLock, FindHit, InsertRoom, FindUnlock, Wait, Pop, DeleteUser
<1>4. CASE \/ BroadcastLock(c) \/ BroadcastSkip(c) \/ BroadcastPush(c) \/ BroadcastPost(c)
           \/ BroadcastEnd(c)
  BY <1>4 DEF BroadcastLock, BroadcastSkip, BroadcastPush, BroadcastPost, BroadcastEnd
<1> QED BY <1>1, <1>2, <1>3, <1>4 DEF Untold

\* A login is one of ChatRooms.
LEMMA LogInMaps ==
  ASSUME IndInv, IndInv', CastInv, NEW c \in Conns, LogIn(c)
  PROVE  Chat!Next
<1>1. PICK l \in Logins[c] : username' = [username EXCEPT ![c] = l.user]
  BY DEF LogIn
<1>2. l.user \in Usernames
  BY DEF Login
<1>3. username[c] = Null
  BY DEF CastInv, IndInv, LocalInv, LogIn, Goto
<1>4. Where' = Where
  BY SameMembers DEF Where, Untold, LogIn, roomVars
<1>5. Feed' = Feed
  <2>1. \A u \in Conns : Told(u)' = Told(u)
    BY LogInTold
  <2>2. user \in [Conns -> {"none", "live", "deleted"}]
    BY DEF IndInv, TypeOK
  <2>3. user[c] = "none" /\ user' = [user EXCEPT ![c] = "live"]
    BY DEF IndInv, LocalInv, LogIn, Goto
  <2>4. \A u \in Conns : user'[u] = "deleted" <=> user[u] = "deleted"
    BY <2>2, <2>3
  <2> QED BY <2>1, <2>4 DEF Feed
<1> QED BY <1>1, <1>2, <1>3, <1>4, <1>5, ChatSays

\* add_member lets its user enter a room, and remove_member lets it leave.
LEMMA MoveMaps ==
  ASSUME IndInv, IndInv', CastInv, NEW c \in Conns, Add(c) \/ LeaveOld(c) \/ Leave(c) \/ Cleanup(c)
  PROVE  Chat!Next
<1>1. /\ members \in [Rooms -> SUBSET Conns] /\ room[c] \in Rooms \cup {Null}
      /\ MembersInv /\ MembersInv'
  BY DEF IndInv, TypeOK
<1>2. /\ pc[c] \in {"add", "leave_old", "leave", "cleanup"}
      /\ Add(c) => pc[c] = "add"
      /\ ~Add(c) => pc[c] \in {"leave_old", "leave", "cleanup"}
  BY DEF Add, LeaveOld, Leave, Cleanup, Goto
<1>3. room[c] \in Rooms /\ user[c] = "live"
  <2>1. room[c] # Null /\ user[c] = "live"
    BY <1>2 DEF IndInv, LocalInv
  <2> QED BY <1>1, <2>1
<1>4. UNCHANGED <<user, username>>
  <2>1. ~LogIn(c) /\ ~ReceiverRefused(c) /\ ~ReceiverEof(c)
    BY <1>2 DEF LogIn, ReceiverRefused, ReceiverEof, ReceiverGivesUp, Goto
  <2> QED BY <2>1, SameUsers DEF Untold
<1>5. Feed' = Feed
  BY <1>4, MoveTold DEF Feed
<1>6. ASSUME NEW d \in Conns, d # c PROVE Where'[d] = Where[d]
  <2>1. \A r \in Rooms : d \in members'[r] <=> d \in members[r]
    BY <1>1, <1>3, <1>6 DEF Add, LeaveOld, Leave, Cleanup, AddMember, RemoveMember
  <2> QED BY <1>1, <2>1, WhereIs, WhereNext
<1>7. Where = [u \in Conns |-> Where[u]] /\ Where' = [u \in Conns |-> Where'[u]]
  BY DEF Where
<1>8. CASE Add(c)
  <2>1. username[c] # Null
    BY <1>3 DEF CastInv
  <2>2. Where[c] = Null
    <3>1. \A r \in Rooms : c \notin members[r]
      BY <1>1, <1>2, <1>8 DEF MembersInv, MemberAt
    <3> QED BY <1>1, <3>1, WhereIs
  <2>3. Where'[c] = NameOf(room[c])
    <3>1. c \in members'[room[c]]
      BY <1>1, <1>3, <1>8 DEF Add, AddMember
    <3> QED BY <1>1, <1>3, <3>1, WhereNext
  <2>4. Where' = [Where EXCEPT ![c] = NameOf(room[c])]
    BY <1>6, <1>7, <2>3
  <2> QED BY <1>3, <1>4, <1>5, <2>1, <2>2, <2>4, ChatSays, NamesOfRooms
<1>9. CASE ~Add(c)
  <2>1. c \in members[room[c]]
    BY <1>1, <1>2, <1>3, <1>9 DEF MembersInv, MemberAt
  <2>2. Where[c] # Null
    BY <1>1, <1>3, <2>1, WhereIs, NamesOfRooms
  <2>3. Where'[c] = Null
    <3>1. members' = [members EXCEPT ![room[c]] = @ \ {c}]
      BY <1>9 DEF LeaveOld, Leave, Cleanup, RemoveMember
    <3>2. \A r \in Rooms : r # room[c] => c \notin members[r]
      BY <1>1 DEF MembersInv
    <3>3. \A r \in Rooms : c \notin members'[r]
      BY <1>1, <1>3, <3>1, <3>2
    <3> QED BY <1>1, <3>3, WhereNext
  <2>4. Where' = [Where EXCEPT ![c] = Null]
    BY <1>6, <1>7, <2>3
  <2> QED BY <1>4, <1>5, <2>2, <2>4, ChatSays
<1> QED BY <1>8, <1>9

\* The broadcast is the sendall of ChatRooms when it takes the lock.
LEMMA SayMaps ==
  ASSUME IndInv, IndInv', CastInv, NEW c \in Conns, BroadcastLock(c)
  PROVE  Chat!Next
<1>1. /\ members \in [Rooms -> SUBSET Conns] /\ room \in [Conns -> Rooms \cup {Null}]
      /\ msg[c] \in Messages \cup {Null} /\ MembersInv /\ OneRoomPerName
  BY DEF IndInv, TypeOK
<1>2. pc[c] = "bcast_lock"
  BY DEF BroadcastLock, Goto
<1>3. room[c] \in Rooms /\ msg[c] \in Messages
  <2>1. room[c] # Null /\ msg[c] # Null
    BY <1>2 DEF IndInv, LocalInv
  <2> QED BY <1>1, <2>1
<1>4. msg[c].from = c /\ msg[c].room = NameOf(room[c])
  BY <1>2 DEF CastInv
<1>5. c \in members[room[c]]
  BY <1>1, <1>2, <1>3 DEF MembersInv, MemberAt
<1>6. Where[c] = NameOf(room[c]) /\ Where[c] # Null
  BY <1>1, <1>3, <1>5, WhereIs, NamesOfRooms
<1>7. UNCHANGED <<user, username, members>>
  BY DEF BroadcastLock, userVars
<1>8. Where' = Where
  BY <1>7 DEF Where
<1>9. \A u \in Conns : Where[u] = Where[c] <=> u \in members[room[c]]
  <2> SUFFICES ASSUME NEW u \in Conns PROVE Where[u] = Where[c] <=> u \in members[room[c]]
    OBVIOUS
  <2>1. ASSUME u \in members[room[c]] PROVE Where[u] = Where[c]
    BY <1>1, <1>3, <1>6, <2>1, WhereIs
  <2>2. ASSUME Where[u] = Where[c] PROVE u \in members[room[c]]
    <3>1. PICK r \in Rooms : u \in members[r]
      BY <1>1, <1>6, <2>2, WhereIs
    <3>2. r = room[u] /\ Where[u] = NameOf(r)
      BY <1>1, <3>1, WhereIs DEF MembersInv
    <3>3. room[u] # Null /\ room[c] # Null
      BY <1>3, <3>1, <3>2
    <3>4. room[u] = room[c]
      BY <1>6, <2>2, <3>2, <3>3, <1>1 DEF OneRoomPerName
    <3> QED BY <3>1, <3>2, <3>4
  <2> QED BY <2>1, <2>2
<1>10. \A u \in Conns : u \in members[room[c]] => user[u] # "deleted"
  <2> SUFFICES ASSUME NEW u \in Conns, u \in members[room[c]] PROVE user[u] # "deleted"
    OBVIOUS
  <2>1. pc[u] \in MemberAt
    BY <1>1, <1>3 DEF MembersInv
  <2> QED BY <2>1 DEF MemberAt, IndInv, LocalInv
<1>11. Feed' = [u \in Conns |-> IF Where[u] = Where[c] /\ username[u] # username[c]
                                THEN Append(Feed[u], msg[c]) ELSE Feed[u]]
  <2>1. ASSUME NEW u \in Conns
        PROVE  Feed'[u] = IF Where[u] = Where[c] /\ username[u] # username[c]
                          THEN Append(Feed[u], msg[c]) ELSE Feed[u]
    <3>1. /\ Feed[u] = IF user[u] = "deleted" THEN <<>> ELSE Told(u)
          /\ Feed'[u] = IF user[u] = "deleted" THEN <<>> ELSE Told(u)'
      BY <1>7 DEF Feed
    <3>2. CASE u \in members[room[c]] /\ username[u] # username[c]
      <4>1. Told(u)' = Append(Told(u), msg[c])
        BY <3>2, LockTold
      <4> QED BY <1>9, <1>10, <3>1, <3>2, <4>1
    <3>3. CASE ~(u \in members[room[c]] /\ username[u] # username[c])
      <4>1. Told(u)' = Told(u)
        BY <3>3, LockTold
      <4> QED BY <1>9, <3>1, <3>3, <4>1
    <3> QED BY <3>2, <3>3
  <2>2. Feed' = [u \in Conns |-> Feed'[u]]
    BY DEF Feed
  <2> QED BY <2>1, <2>2
<1> QED BY <1>3, <1>4, <1>6, <1>7, <1>8, <1>11, ChatSays

\* A User that is deleted is in no room, and its feed goes with it.
LEMMA ForgetMaps ==
  ASSUME IndInv, IndInv', NEW c \in Conns, DeleteUser(c) \/ ReceiverRefused(c) \/ ReceiverEof(c)
  PROVE  Chat!Next
<1>1. /\ pc[c] \in {"join", "delete"} /\ user' = [user EXCEPT ![c] = "deleted"]
      /\ UNCHANGED <<username, members>>
  BY DEF DeleteUser, ReceiverRefused, ReceiverEof, ReceiverGivesUp, Goto, roomVars
<1>2. MembersInv /\ user \in [Conns -> {"none", "live", "deleted"}]
  BY DEF IndInv, TypeOK
<1>3. Where[c] = Null
  <2>1. \A r \in Rooms : c \notin members[r]
    BY <1>1, <1>2 DEF MembersInv, MemberAt
  <2> QED BY <1>2, <2>1, WhereIs
<1>4. Where' = Where
  BY <1>1 DEF Where
<1>5. \A u \in Conns : u # c => Told(u)' = Told(u)
  BY DeleteTold, UntoldTold DEF Untold
<1>6. Feed' = [Feed EXCEPT ![c] = <<>>]
  <2>1. user'[c] = "deleted" /\ \A u \in Conns : u # c => user'[u] = user[u]
    BY <1>1, <1>2
  <2>2. Feed'[c] = <<>> /\ \A u \in Conns : u # c => Feed'[u] = Feed[u]
    BY <1>5, <2>1 DEF Feed
  <2>3. Feed = [u \in Conns |-> Feed[u]] /\ Feed' = [u \in Conns |-> Feed'[u]]
    BY DEF Feed
  <2> QED BY <2>2, <2>3
<1> QED BY <1>1, <1>3, <1>4, <1>6, ChatSays

\* Every step of the server is a step of ChatRooms, or changes nothing there.
LEMMA ChatStep ==
  ASSUME IndInv, IndInv', CastInv, [Next]_vars
  PROVE  [Chat!Next]_Chat!vars
<1>1. ASSUME NEW c \in Conns, LogIn(c) PROVE Chat!Next
  BY <1>1, LogInMaps
<1>2. ASSUME NEW c \in Conns, Add(c) \/ LeaveOld(c) \/ Leave(c) \/ Cleanup(c) PROVE Chat!Next
  BY <1>2, MoveMaps
<1>3. ASSUME NEW c \in Conns, BroadcastLock(c) PROVE Chat!Next
  BY <1>3, SayMaps
<1>4. ASSUME NEW c \in Conns, DeleteUser(c) \/ ReceiverRefused(c) \/ ReceiverEof(c) PROVE Chat!Next
  BY <1>4, ForgetMaps
<1>5. ASSUME NEW c \in Conns, Untold(c) \/ Hangup(c), ~LogIn(c), ~ReceiverRefused(c), ~ReceiverEof(c),
             ~Add(c), ~LeaveOld(c), ~Leave(c), ~Cleanup(c)
      PROVE  UNCHANGED Chat!vars
  <2>1. UNCHANGED <<user, username, members>>
    BY <1>5, SameUsers, SameMembers
  <2>2. \A u \in Conns : Told(u)' = Told(u)
    BY <1>5, UntoldTold, HangupTold
  <2>3. UNCHANGED <<username, Where, Feed>>
    BY <2>1, <2>2 DEF Where, Feed
  <2> QED BY <2>3, ChatStutters
<1>6. CASE UNCHANGED vars
  <2>1. UNCHANGED <<user, username, members>>
    BY <1>6 DEF vars, sharedVars, userVars, roomVars
  <2>2. \A u \in Conns : Told(u)' = Told(u)
    BY <1>6, HangupTold
  <2>3. UNCHANGED <<username, Where, Feed>>
    BY <2>1, <2>2 DEF Where, Feed
  <2> QED BY <2>3, ChatStutters
<1> QED BY <1>1, <1>2, <1>3, <1>4, <1>5, <1>6, NextCases

\* CastInv always holds.
LEMMA CastInvariance == SafeSpec => []CastInv
<1> QED BY InitCast, NextCast, Invariance, PTL DEF SafeSpec

\* The server implements ChatRooms: a sendall is one atomic step for everybody
\* in the room, although the broadcast adds to one queue after the other while
\* other rooms, logins, logouts and deliveries go on.
THEOREM ImplementsChatRooms == SafeSpec => ChatRoomsSpec
<1>1. IndInv /\ IndInv' /\ CastInv /\ [Next]_vars => [Chat!Next]_Chat!vars
  BY ChatStep
<1> QED BY <1>1, ChatInit, Invariance, CastInvariance, PTL DEF SafeSpec, ChatRoomsSpec, Chat!Spec

-----------------------------------------------------------------------------
(***************************************************************************)
(* The order: what two users were both told, they were told in one order.  *)
(***************************************************************************)

\* What s and t have in common comes in one order, and nothing comes twice in
\* either (that is Agree(s, s)).
Agree(s, t) ==
  \A i, j \in 1 .. Len(s) : \A k, l \in 1 .. Len(t) :
    s[i] = t[k] /\ s[j] = t[l] => (i < j <=> k < l)

\* Users agree on the order of what they were told; and the message of a thread
\* that waits for the lock of its room is one that nobody was told yet, as it
\* has the number of the last line.
OrderInv ==
  /\ \A u, v \in Conns : Agree(Told(u), Told(v))
  /\ \A u \in Conns : \A i \in 1 .. Len(Told(u)) :
       /\ Told(u)[i].id <= lines[Told(u)[i].from]
       /\ pc[Told(u)[i].from] = "bcast_lock" => Told(u)[i] # msg[Told(u)[i].from]
  /\ \A c \in Conns : pc[c] = "bcast_lock" => msg[c].id <= lines[c]

\* A new entry at the end of one or both keeps the order they agree on.
LEMMA AgreeAppend ==
  ASSUME NEW S, NEW s \in Seq(S), NEW t \in Seq(S), NEW m \in S,
         Agree(s, t), \A i \in 1 .. Len(s) : s[i] # m, \A i \in 1 .. Len(t) : t[i] # m
  PROVE  /\ Agree(Append(s, m), t)
         /\ Agree(s, Append(t, m))
         /\ Agree(Append(s, m), Append(t, m))
<1> DEFINE sm == Append(s, m)
           tm == Append(t, m)
<1>1. /\ Len(s) \in Nat /\ Len(sm) = Len(s) + 1 /\ sm[Len(s) + 1] = m
      /\ \A i \in 1 .. Len(s) : sm[i] = s[i]
  BY AppendAt
<1>2. /\ Len(t) \in Nat /\ Len(tm) = Len(t) + 1 /\ tm[Len(t) + 1] = m
      /\ \A i \in 1 .. Len(t) : tm[i] = t[i]
  BY AppendAt
<1> HIDE DEF sm, tm
<1>3. /\ \A i \in 1 .. Len(sm) : (i \in 1 .. Len(s) /\ sm[i] = s[i]) \/ (i = Len(s) + 1 /\ sm[i] = m)
      /\ \A i \in 1 .. Len(tm) : (i \in 1 .. Len(t) /\ tm[i] = t[i]) \/ (i = Len(t) + 1 /\ tm[i] = m)
  <2>1. \A i \in 1 .. Len(s) + 1 : i \in 1 .. Len(s) \/ i = Len(s) + 1
    BY <1>1
  <2>2. \A i \in 1 .. Len(t) + 1 : i \in 1 .. Len(t) \/ i = Len(t) + 1
    BY <1>2
  <2> QED BY <1>1, <1>2, <2>1, <2>2
<1>4. Agree(sm, t)
  BY <1>1, <1>2, <1>3 DEF Agree
<1>5. Agree(s, tm)
  BY <1>1, <1>2, <1>3 DEF Agree
<1>6. Agree(sm, tm)
  <2> SUFFICES ASSUME NEW i \in 1 .. Len(sm), NEW j \in 1 .. Len(sm),
                      NEW k \in 1 .. Len(tm), NEW l \in 1 .. Len(tm),
                      sm[i] = tm[k], sm[j] = tm[l]
               PROVE  i < j <=> k < l
    BY DEF Agree
  <2>1. (i \in 1 .. Len(s) /\ k \in 1 .. Len(t) /\ s[i] = t[k]) \/ (i = Len(s) + 1 /\ k = Len(t) + 1)
    BY <1>3
  <2>2. (j \in 1 .. Len(s) /\ l \in 1 .. Len(t) /\ s[j] = t[l]) \/ (j = Len(s) + 1 /\ l = Len(t) + 1)
    BY <1>3
  <2>3. CASE i = Len(s) + 1 \/ j = Len(s) + 1
    BY <1>1, <1>2, <2>1, <2>2, <2>3
  <2>4. CASE i # Len(s) + 1 /\ j # Len(s) + 1
    BY <2>1, <2>2, <2>4 DEF Agree
  <2> QED BY <2>3, <2>4
<1> QED BY <1>4, <1>5, <1>6 DEF sm, tm

\* The entries of the first part of a sequence.
LEMMA PrefixAt ==
  ASSUME NEW S, NEW s \in Seq(S), NEW q \in Seq(S)
  PROVE  \A i \in 1 .. Len(s) : i \in 1 .. Len(s \o q) /\ (s \o q)[i] = s[i]
<1>1. Len(s) \in Nat /\ Len(q) \in Nat /\ Len(s \o q) = Len(s) + Len(q)
  BY ConcatProperties, LenProperties
<1> SUFFICES ASSUME NEW i \in 1 .. Len(s)
             PROVE  i \in 1 .. Len(s \o q) /\ (s \o q)[i] = s[i]
  OBVIOUS
<1>2. i \in 1 .. Len(s) + Len(q) /\ i <= Len(s)
  BY <1>1
<1>3. (s \o q)[i] = IF i <= Len(s) THEN s[i] ELSE q[i - Len(s)]
  BY <1>2, ConcatProperties
<1> QED BY <1>1, <1>2, <1>3

\* What is cut off at the end leaves the order of the rest.
LEMMA AgreePrefix ==
  ASSUME NEW S, NEW s \in Seq(S), NEW t \in Seq(S), NEW q \in Seq(S)
  PROVE  /\ Agree(s \o q, t) => Agree(s, t)
         /\ Agree(t, s \o q) => Agree(t, s)
<1> DEFINE p == s \o q
<1>3. \A i \in 1 .. Len(s) : i \in 1 .. Len(p) /\ p[i] = s[i]
  BY PrefixAt
<1> HIDE DEF p
<1>4. Agree(p, t) => Agree(s, t)
  BY <1>3 DEF Agree
<1>5. Agree(t, p) => Agree(t, s)
  BY <1>3 DEF Agree
<1> QED BY <1>4, <1>5 DEF p

\* Every element of a sequence in which nothing comes twice counts once.
LEMMA CountsOnce ==
  ASSUME NEW S, NEW s \in Seq(S), Agree(s, s)
  PROVE  Cardinality(Elements(s)) = Len(s)
<1> DEFINE D == 1 .. Len(s)
           f == [i \in D |-> s[i]]
<1>1. Len(s) \in Nat
  BY LenProperties
<1>2. IsFiniteSet(D) /\ Cardinality(D) = Len(s)
  BY <1>1, FS_Interval
<1>3. \A i, j \in D : s[i] = s[j] => i = j
  <2> SUFFICES ASSUME NEW i \in D, NEW j \in D, s[i] = s[j] PROVE i = j
    OBVIOUS
  <2>1. (i < j <=> i < i) /\ (j < i <=> i < i)
    BY DEF Agree
  <2> QED BY <1>1, <2>1
<1>4. Elements(s) = {s[i] : i \in D}
  BY DEF Elements
<1> HIDE DEF D
<1>5. f \in [D -> Elements(s)] /\ \A i \in D : f[i] = s[i]
  BY <1>4
<1>6. /\ \A i, j \in D : f[i] = f[j] => i = j
      /\ \A x \in Elements(s) : \E i \in D : f[i] = x
  BY <1>3, <1>4, <1>5
<1> HIDE DEF f
<1>7. f \in Bijection(D, Elements(s))
  BY <1>5, <1>6 DEF Bijection, Injection, Surjection, IsInjective
<1>8. ExistsBijection(D, Elements(s))
  BY <1>7 DEF ExistsBijection
<1> QED BY <1>2, <1>8, FS_Bijection

\* The order of what users were told is the order of what they were given.
LEMMA OrderSuffices == IndInv /\ OrderInv => SameOrder
<1> SUFFICES ASSUME IndInv, OrderInv PROVE SameOrder
  OBVIOUS
<1>1. \A u \in Conns : Given(u) \in Seq(Messages) /\ Coming(u) \in Seq(Messages)
  BY ToldTypes
<1>2. ASSUME NEW u \in Conns, NEW v \in Conns PROVE Agree(Given(u), Given(v))
  <2> DEFINE gu == Given(u)
             cu == Coming(u)
             gv == Given(v)
             cv == Coming(v)
  <2>1. gu \in Seq(Messages) /\ cu \in Seq(Messages) /\ gv \in Seq(Messages) /\ cv \in Seq(Messages)
    BY <1>1
  <2>2. Agree(gu \o cu, gv \o cv)
    BY DEF OrderInv, Told
  <2> HIDE DEF gu, cu, gv, cv
  <2>3. gv \o cv \in Seq(Messages)
    BY <2>1, ConcatProperties
  <2>4. Agree(gu, gv \o cv)
    BY <2>1, <2>2, <2>3, AgreePrefix
  <2>5. Agree(gu, gv)
    BY <2>1, <2>4, AgreePrefix
  <2> QED BY <2>5 DEF gu, gv
<1>3. ASSUME NEW u \in Conns PROVE Cardinality(Elements(Given(u))) = Len(Given(u))
  BY <1>1, <1>2, CountsOnce
<1>4. ASSUME NEW u \in Conns, NEW v \in Conns,
             NEW m \in Elements(Given(u)) \cap Elements(Given(v)),
             NEW n \in Elements(Given(u)) \cap Elements(Given(v)),
             At(Given(u), m) < At(Given(u), n)
      PROVE  At(Given(v), m) < At(Given(v), n)
  <2>1. ASSUME NEW s, NEW x \in Elements(s)
        PROVE  At(s, x) \in 1 .. Len(s) /\ s[At(s, x)] = x
    BY DEF At, Elements
  <2>2. /\ At(Given(u), m) \in 1 .. Len(Given(u)) /\ Given(u)[At(Given(u), m)] = m
        /\ At(Given(u), n) \in 1 .. Len(Given(u)) /\ Given(u)[At(Given(u), n)] = n
        /\ At(Given(v), m) \in 1 .. Len(Given(v)) /\ Given(v)[At(Given(v), m)] = m
        /\ At(Given(v), n) \in 1 .. Len(Given(v)) /\ Given(v)[At(Given(v), n)] = n
    BY <2>1
  <2> QED BY <1>2, <1>4, <2>2 DEF Agree
<1> QED BY <1>3, <1>4 DEF SameOrder

\* The count of lines never falls, and only a sendall takes a thread to where
\* it waits for the lock of its room.
LEMMA LineSteps ==
  ASSUME TypeOK, [Next]_vars
  PROVE  /\ \A d \in Conns : lines[d] \in Nat /\ lines'[d] \in Nat /\ lines[d] <= lines'[d]
         /\ \A d \in Conns : pc'[d] = "bcast_lock" =>
              CommandSendAll(d) \/ (pc[d] = "bcast_lock" /\ msg'[d] = msg[d])
<1>0. /\ \A d \in Conns : lines[d] \in Nat
      /\ lines \in [Conns -> 0 .. MaxLines] /\ pc \in [Conns -> PC]
      /\ msg \in [Conns -> Messages \cup {Null}]
  BY DEF TypeOK
<1>1. \/ lines' = lines
      \/ \E c \in Conns : lines' = [lines EXCEPT ![c] = @ + 1]
  <2> USE DEF clientVars
  <2>1. ASSUME NEW c \in Conns,
               \/ LoginRefused(c) \/ LoginEof(c) \/ CommandEof(c) \/ Reply(c) \/ FindMiss(c)
               \/ WaitTimeout(c) \/ Hangup(c)
        PROVE  lines' = lines
    BY <2>1 DEF LoginRefused, LoginEof, CommandEof, Reply, FindMiss, WaitTimeout, Silent, Hangup
  <2>2. ASSUME NEW c \in Conns,
               \/ ReceiverJoin(c) \/ CommandJoin(c) \/ CommandSendAll(c) \/ CommandLeave(c)
               \/ CommandQuit(c) \/ CommandInvalid(c) \/ ReceiverRefused(c)
        PROVE  lines' = [lines EXCEPT ![c] = @ + 1]
    BY <2>2 DEF ReceiverJoin, CommandJoin, CommandSendAll, CommandLeave, CommandQuit, CommandInvalid,
                ReceiverRefused, Command, ReadLine
  <2>3. ASSUME NEW c \in Conns,
               \/ LogIn(c) \/ ReceiverEof(c) \/ FindLock(c) \/ FindHit(c) \/ InsertRoom(c)
               \/ FindUnlock(c) \/ Add(c) \/ LeaveOld(c) \/ Leave(c) \/ Cleanup(c) \/ Wait(c)
               \/ Pop(c) \/ Deliver(c) \/ DeleteUser(c)
        PROVE  lines' = lines
    BY <2>3 DEF LogIn, ReceiverEof, FindLock, FindHit, InsertRoom, FindUnlock, Add, LeaveOld, Leave,
                Cleanup, Wait, Pop, Deliver, DeleteUser
  <2>4. ASSUME NEW c \in Conns,
               \/ BroadcastLock(c) \/ BroadcastSkip(c) \/ BroadcastPush(c) \/ BroadcastPost(c)
               \/ BroadcastEnd(c)
        PROVE  lines' = lines
    BY <2>4 DEF BroadcastLock, BroadcastSkip, BroadcastPush, BroadcastPost, BroadcastEnd
  <2>5. CASE UNCHANGED vars
    BY <2>5 DEF vars
  <2> QED BY <2>1, <2>2, <2>3, <2>4, <2>5, NextCases DEF Untold
<1>2. ASSUME NEW d \in Conns PROVE lines'[d] \in Nat /\ lines[d] <= lines'[d]
  BY <1>0, <1>1
<1>3. ASSUME NEW d \in Conns, pc'[d] = "bcast_lock", ~CommandSendAll(d)
      PROVE  pc[d] = "bcast_lock" /\ msg'[d] = msg[d]
  <2> USE DEF Goto, localVars
  <2>1. ASSUME NEW c \in Conns,
               \/ LoginRefused(c) \/ LoginEof(c) \/ CommandEof(c) \/ Reply(c) \/ FindMiss(c)
               \/ WaitTimeout(c) \/ Hangup(c)
        PROVE  pc[d] = "bcast_lock" /\ msg'[d] = msg[d]
    BY <1>0, <1>3, <2>1 DEF LoginRefused, LoginEof, CommandEof, Reply, FindMiss, WaitTimeout, Silent,
       Hangup, AfterLoop, LoopHead, IsOpen
  <2>2. ASSUME NEW c \in Conns,
               \/ ReceiverJoin(c) \/ CommandJoin(c) \/ CommandLeave(c)
               \/ CommandQuit(c) \/ CommandInvalid(c) \/ ReceiverRefused(c) \/ ReceiverEof(c)
        PROVE  pc[d] = "bcast_lock" /\ msg'[d] = msg[d]
    BY <1>0, <1>3, <2>2 DEF ReceiverJoin, CommandJoin, CommandLeave, CommandQuit, CommandInvalid,
       ReceiverRefused, ReceiverEof, ReceiverGivesUp, Command, AfterLoop
  <2>3. ASSUME NEW c \in Conns, CommandSendAll(c)
        PROVE  pc[d] = "bcast_lock" /\ msg'[d] = msg[d]
    <3>1. c # d
      BY <1>3, <2>3
    <3>2. \E m \in Messages : msg' = [msg EXCEPT ![c] = m]
      BY <2>3, SendAllMessage
    <3> QED BY <1>0, <1>3, <2>3, <3>1, <3>2 DEF CommandSendAll, Command
  <2>4. ASSUME NEW c \in Conns,
               \/ LogIn(c) \/ FindLock(c) \/ FindHit(c) \/ InsertRoom(c)
               \/ FindUnlock(c) \/ Add(c) \/ LeaveOld(c) \/ Leave(c) \/ Cleanup(c) \/ Wait(c)
        PROVE  pc[d] = "bcast_lock" /\ msg'[d] = msg[d]
    BY <1>0, <1>3, <2>4 DEF LogIn, FindLock, FindHit, InsertRoom, FindUnlock, Add, LeaveOld, Leave,
       Cleanup, Wait
  <2>5. ASSUME NEW c \in Conns, Pop(c) \/ Deliver(c) \/ DeleteUser(c)
        PROVE  pc[d] = "bcast_lock" /\ msg'[d] = msg[d]
    BY <1>0, <1>3, <2>5 DEF Pop, Deliver, DeleteUser, LoopHead, IsOpen
  <2>6. ASSUME NEW c \in Conns,
               \/ BroadcastLock(c) \/ BroadcastSkip(c) \/ BroadcastPush(c) \/ BroadcastPost(c)
               \/ BroadcastEnd(c)
        PROVE  pc[d] = "bcast_lock" /\ msg'[d] = msg[d]
    BY <1>0, <1>3, <2>6 DEF BroadcastLock, BroadcastSkip, BroadcastPush, BroadcastPost, BroadcastEnd
  <2>7. CASE UNCHANGED vars
    BY <1>3, <2>7 DEF vars
  <2> QED BY <2>1, <2>2, <2>3, <2>4, <2>5, <2>6, <2>7, NextCases DEF Untold
<1> QED BY <1>0, <1>2, <1>3

\* A message that was told has a number the next one of its sender has not.
LEMMA StaysOld ==
  ASSUME IndInv, [Next]_vars, NEW m \in Messages, m.id <= lines[m.from],
         pc[m.from] = "bcast_lock" => m # msg[m.from]
  PROVE  /\ m.id <= lines'[m.from]
         /\ pc'[m.from] = "bcast_lock" => m # msg'[m.from]
<1> DEFINE c == m.from
           k == m.id
<1>1. c \in Conns /\ k \in Nat
  BY DEF Messages
<1> HIDE DEF c, k
<1>2. TypeOK /\ k <= lines[c] /\ (pc[c] = "bcast_lock" => m # msg[c])
  BY DEF IndInv, c, k
<1>3. /\ lines[c] \in Nat /\ lines'[c] \in Nat /\ lines[c] <= lines'[c]
      /\ pc'[c] = "bcast_lock" => CommandSendAll(c) \/ (pc[c] = "bcast_lock" /\ msg'[c] = msg[c])
  BY <1>1, <1>2, LineSteps
<1>4. k <= lines'[c]
  BY <1>1, <1>2, <1>3
<1>5. ASSUME CommandSendAll(c) PROVE m # msg'[c]
  <2>1. PICK fits \in TextFits :
          msg' = [msg EXCEPT ![c] = [room |-> NameOf(room[c]), from |-> c,
                                     id |-> lines[c] + 1, fits |-> fits]]
    BY <1>5 DEF CommandSendAll
  <2>2. msg \in [Conns -> Messages \cup {Null}]
    BY <1>2 DEF TypeOK
  <2>3. msg'[c].id = lines[c] + 1
    BY <1>1, <2>1, <2>2
  <2>4. k # lines[c] + 1
    BY <1>1, <1>2, <1>3
  <2> QED BY <2>3, <2>4 DEF k
<1>6. pc'[c] = "bcast_lock" => m # msg'[c]
  BY <1>2, <1>3, <1>5
<1> QED BY <1>4, <1>6 DEF c, k

\* What a step tells a user: nothing, the message of the broadcast that takes
\* the lock, or, when the user is deleted, less than before.
LEMMA ToldSteps ==
  ASSUME IndInv, IndInv', CastInv, [Next]_vars
  PROVE  \/ \A u \in Conns : Told(u)' = Told(u)
         \/ \E c \in Conns :
              /\ BroadcastLock(c)
              /\ \A u \in Conns : Told(u)' = Told(u) \/ Told(u)' = Append(Told(u), msg[c])
         \/ \E c \in Conns :
              /\ \A u \in Conns : u # c => Told(u)' = Told(u)
              /\ \E q \in Seq(Messages) : Told(c) = Told(c)' \o q
<1>1. CASE UNCHANGED vars \/ \E c \in Conns : Hangup(c)
  BY <1>1, HangupTold
<1>2. ASSUME NEW c \in Conns, Untold(c) PROVE \A u \in Conns : Told(u)' = Told(u)
  BY <1>2, UntoldTold
<1>3. ASSUME NEW c \in Conns, BroadcastLock(c)
      PROVE  \A u \in Conns : Told(u)' = Told(u) \/ Told(u)' = Append(Told(u), msg[c])
  BY <1>3, LockTold
<1>4. ASSUME NEW c \in Conns, DeleteUser(c)
      PROVE  /\ \A u \in Conns : u # c => Told(u)' = Told(u)
             /\ \E q \in Seq(Messages) : Told(c) = Told(c)' \o q
  BY <1>4, DeleteTold
<1> QED BY <1>1, <1>2, <1>3, <1>4, NextCases

\* What a broadcast is about to tell has the number of a line that was read.
LEMMA WaitsFresh ==
  ASSUME IndInv, [Next]_vars, \A c \in Conns : pc[c] = "bcast_lock" => msg[c].id <= lines[c]
  PROVE  \A c \in Conns : pc'[c] = "bcast_lock" => msg'[c].id <= lines'[c]
<1> SUFFICES ASSUME NEW c \in Conns, pc'[c] = "bcast_lock" PROVE msg'[c].id <= lines'[c]
  OBVIOUS
<1>0. TypeOK /\ msg \in [Conns -> Messages \cup {Null}] /\ lines \in [Conns -> 0 .. MaxLines]
  BY DEF IndInv, TypeOK
<1>1. CASE CommandSendAll(c)
  <2>1. PICK fits \in TextFits :
          msg' = [msg EXCEPT ![c] = [room |-> NameOf(room[c]), from |-> c,
                                     id |-> lines[c] + 1, fits |-> fits]]
    BY <1>1 DEF CommandSendAll
  <2>2. msg'[c].id = lines[c] + 1
    BY <1>0, <2>1
  <2>3. lines'[c] = lines[c] + 1 /\ lines[c] \in Nat
    BY <1>0, <1>1 DEF CommandSendAll, Command, ReadLine
  <2>4. lines[c] + 1 <= lines[c] + 1
    BY <2>3
  <2> QED BY <2>2, <2>3, <2>4
<1>2. CASE ~CommandSendAll(c)
  <2>1. pc[c] = "bcast_lock" /\ msg'[c] = msg[c]
    BY <1>0, <1>2, LineSteps
  <2>2. msg[c] \in Messages
    BY <1>0, <2>1 DEF IndInv, LocalInv
  <2>3. msg[c].id \in Nat
    BY <2>2 DEF Messages
  <2>4. lines[c] \in Nat /\ lines'[c] \in Nat /\ lines[c] <= lines'[c]
    BY <1>0, LineSteps
  <2>5. msg[c].id <= lines[c]
    BY <2>1
  <2>6. msg[c].id <= lines'[c]
    BY <2>3, <2>4, <2>5
  <2> QED BY <2>1, <2>6
<1> QED BY <1>1, <1>2

\* Every step keeps the order.
LEMMA NextOrder ==
  ASSUME IndInv, IndInv', CastInv, OrderInv, [Next]_vars
  PROVE  OrderInv'
<1>0. \A u \in Conns : Told(u) \in Seq(Messages) /\ Told(u)' \in Seq(Messages)
  <2>1. (\A u \in Conns : Told(u) \in Seq(Messages))'
    BY ToldTypesAll, PTL
  <2> QED BY <2>1, ToldTypes
<1> DEFINE Old(m) == /\ m.id <= lines[m.from]
                     /\ pc[m.from] = "bcast_lock" => m # msg[m.from]
<1>1. \A u \in Conns : \A i \in 1 .. Len(Told(u)) : Told(u)[i] \in Messages /\ Old(Told(u)[i])
  BY <1>0, ElementOfSeq DEF OrderInv
<1>2. \A m \in Messages : Old(m) => Old(m)'
  BY StaysOld
<1>3. \A u, v \in Conns : Agree(Told(u), Told(v))
  BY DEF OrderInv
<1>4. \A c \in Conns : pc'[c] = "bcast_lock" => msg'[c].id <= lines'[c]
  BY WaitsFresh DEF OrderInv
<1>5. (\A u, v \in Conns : Agree(Told(u)', Told(v)'))
      /\ \A u \in Conns : \A i \in 1 .. Len(Told(u)') : Old(Told(u)[i])'
  <2>1. CASE \A u \in Conns : Told(u)' = Told(u)
    BY <1>1, <1>2, <1>3, <2>1
  <2>2. ASSUME NEW c \in Conns, BroadcastLock(c),
               \A u \in Conns : Told(u)' = Told(u) \/ Told(u)' = Append(Told(u), msg[c])
        PROVE  /\ \A u, v \in Conns : Agree(Told(u)', Told(v)')
               /\ \A u \in Conns : \A i \in 1 .. Len(Told(u)') : Old(Told(u)[i])'
    <3> DEFINE m == msg[c]
    <3>a. pc[c] = "bcast_lock"
      BY <2>2 DEF BroadcastLock, Goto
    <3>1. m \in Messages /\ m.from = c /\ m.id <= lines[c]
      BY <3>a DEF IndInv, TypeOK, LocalInv, CastInv, OrderInv
    <3>2. \A u \in Conns : \A i \in 1 .. Len(Told(u)) : Told(u)[i] # m
      BY <1>1, <3>a, <3>1
    <3>3. m.id <= lines'[m.from] /\ (pc'[m.from] = "bcast_lock" => m # msg'[m.from])
      <4>1. pc'[c] # "bcast_lock" /\ lines' = lines
        <5>1. pc \in [Conns -> PC]
          BY DEF IndInv, TypeOK
        <5> QED BY <2>2, <5>1 DEF BroadcastLock, Goto, clientVars
      <4> QED BY <3>1, <4>1
    <3> HIDE DEF m
    <3>4. ASSUME NEW u \in Conns, NEW v \in Conns PROVE Agree(Told(u)', Told(v)')
      <4> DEFINE s == Told(u)
                 t == Told(v)
      <4>1. s \in Seq(Messages) /\ t \in Seq(Messages) /\ Agree(s, t)
            /\ (\A i \in 1 .. Len(s) : s[i] # m) /\ (\A i \in 1 .. Len(t) : t[i] # m)
        BY <1>0, <1>3, <3>2
      <4>2. Told(u)' \in {s, Append(s, m)} /\ Told(v)' \in {t, Append(t, m)}
        BY <2>2 DEF m
      <4> HIDE DEF s, t
      <4>3. Agree(Append(s, m), t) /\ Agree(s, Append(t, m)) /\ Agree(Append(s, m), Append(t, m))
        BY <3>1, <4>1, AgreeAppend
      <4> QED BY <4>1, <4>2, <4>3
    <3>5. ASSUME NEW u \in Conns, NEW i \in 1 .. Len(Told(u)') PROVE Old(Told(u)[i])'
      <4>1. CASE Told(u)' = Told(u)
        BY <1>1, <1>2, <3>5, <4>1
      <4>2. CASE Told(u)' = Append(Told(u), m)
        <5>1. /\ Len(Told(u)) \in Nat /\ Len(Told(u)') = Len(Told(u)) + 1
              /\ Told(u)'[Len(Told(u)) + 1] = m
              /\ \A j \in 1 .. Len(Told(u)) : Told(u)'[j] = Told(u)[j]
          BY <1>0, <3>1, <4>2, AppendAt
        <5>2. i \in 1 .. Len(Told(u)) \/ i = Len(Told(u)) + 1
          BY <3>5, <5>1
        <5>3. CASE i \in 1 .. Len(Told(u))
          BY <1>1, <1>2, <5>1, <5>3
        <5>4. CASE i = Len(Told(u)) + 1
          BY <3>3, <5>1, <5>4
        <5> QED BY <5>2, <5>3, <5>4
      <4> QED BY <2>2, <4>1, <4>2 DEF m
    <3> QED BY <3>4, <3>5
  <2>3. ASSUME NEW c \in Conns, \A u \in Conns : u # c => Told(u)' = Told(u),
               NEW q \in Seq(Messages), Told(c) = Told(c)' \o q
        PROVE  /\ \A u, v \in Conns : Agree(Told(u)', Told(v)')
               /\ \A u \in Conns : \A i \in 1 .. Len(Told(u)') : Old(Told(u)[i])'
    <3> DEFINE p == Told(c)'
    <3>1. p \in Seq(Messages) /\ Told(c) = p \o q
      BY <1>0, <2>3
    <3> HIDE DEF p
    <3>2. \A i \in 1 .. Len(p) : i \in 1 .. Len(Told(c)) /\ Told(c)[i] = p[i]
      BY <3>1, PrefixAt
    <3>3. ASSUME NEW u \in Conns, NEW v \in Conns PROVE Agree(Told(u)', Told(v)')
      <4>1. CASE u # c /\ v # c
        BY <1>3, <2>3, <4>1
      <4>2. ASSUME NEW w \in Conns, w # c
            PROVE  Agree(p, Told(w)) /\ Agree(Told(w), p)
        <5> DEFINE t == Told(w)
        <5>1. t \in Seq(Messages) /\ Agree(p \o q, t) /\ Agree(t, p \o q)
          BY <1>0, <1>3, <3>1
        <5> HIDE DEF t
        <5>2. Agree(p, t) /\ Agree(t, p)
          BY <3>1, <5>1, AgreePrefix
        <5> QED BY <5>2 DEF t
      <4>3. Agree(p, p)
        <5>1. p \o q \in Seq(Messages) /\ Agree(p \o q, p \o q)
          BY <1>0, <1>3, <3>1
        <5>2. Agree(p, p \o q)
          BY <3>1, <5>1, AgreePrefix
        <5> QED BY <3>1, <5>2, AgreePrefix
      <4> QED BY <2>3, <4>1, <4>2, <4>3 DEF p
    <3>4. ASSUME NEW u \in Conns, NEW i \in 1 .. Len(Told(u)') PROVE Old(Told(u)[i])'
      <4>1. CASE u # c
        BY <1>1, <1>2, <2>3, <3>4, <4>1
      <4>2. CASE u = c
        <5>1. i \in 1 .. Len(Told(c)) /\ Told(c)[i] = Told(u)'[i]
          BY <3>2, <3>4, <4>2 DEF p
        <5> QED BY <1>1, <1>2, <5>1
      <4> QED BY <4>1, <4>2
    <3> QED BY <3>3, <3>4
  <2> QED BY <2>1, <2>2, <2>3, ToldSteps
<1> QED BY <1>4, <1>5 DEF OrderInv

\* At first nobody was told anything.
LEMMA InitOrder == Init => OrderInv
<1> SUFFICES ASSUME Init PROVE OrderInv
  OBVIOUS
<1>1. \A u \in Conns : Told(u) = <<>>
  BY InitTold
<1>2. \A c \in Conns : pc[c] = "login"
  BY DEF Init
<1> QED BY <1>1, <1>2 DEF OrderInv, Agree

\* Any two users see what they both see in one order, and nobody sees a message
\* twice: what the lock that broadcast_message holds is for.
THEOREM Ordered == SafeSpec => []SameOrder
<1>1. OrderInv /\ IndInv /\ IndInv' /\ CastInv /\ [Next]_vars => OrderInv'
  BY NextOrder
<1>2. SafeSpec => []OrderInv
  BY <1>1, InitOrder, Invariance, CastInvariance, PTL DEF SafeSpec
<1> QED BY <1>2, OrderSuffices, Invariance, PTL
=============================================================================
