----------------------------- MODULE ChatServer -----------------------------
(***************************************************************************)
(* The server of csf_assign05: one worker thread per connection            *)
(* (server.cpp: worker, chat_with_sender, chat_with_receiver), the map of  *)
(* rooms they share (Server::find_or_create_room), the rooms (room.cpp)    *)
(* and the message queue of every User.                                    *)
(*                                                                         *)
(* A step of a thread is what it does between two points where another     *)
(* thread can notice: a critical section that takes one lock and touches   *)
(* nothing else is one step; the broadcast, which calls enqueue for one    *)
(* member after the other while it holds the room's lock, and              *)
(* find_or_create_room are as many steps as the code makes.  enqueue and   *)
(* dequeue are split at the semaphore (module MessageQueue shows that      *)
(* what m_lock protects is atomic).                                        *)
(*                                                                         *)
(* A User object is named by the connection whose worker allocated it.     *)
(***************************************************************************)
EXTENDS Integers, Sequences, FiniteSets

CONSTANTS
  Conns,       \* accepted connections, one worker thread each
  Usernames,
  RoomNames,
  Logins,      \* Logins[c]: the login messages client c may send first
  Commands,    \* the tags of the lines senders may send after that
  Leavers,     \* the clients that may go away at any time
  TextFits,    \* may a text still fit Message::MAX_LEN once it is a delivery?
  MaxLines,    \* bound: lines the server reads from one client after its login
  Null         \* nullptr; also "nobody holds the mutex"

LoginTags == {"slogin", "rlogin", "other"}
Login == [tag : LoginTags, user : Usernames]
CommandTags == {"join", "sendall", "leave", "quit", "other"}

\* A Room object: the name it was created for and the thread that created it.
\* (A thread creates no second Room of a name: it would find its first.)
Rooms == RoomNames \X Conns
NameOf(r) == r[1]

\* A delivery: room name, sender, the text (told apart by the line number of
\* the sendall) and whether its encoding fits into MAX_LEN characters.
Messages == [room : RoomNames, from : Conns, id : 1 .. MaxLines, fits : TextFits]

ASSUME ServerAssumption ==
  /\ Logins \in [Conns -> SUBSET Login]
  /\ Commands \subseteq CommandTags
  /\ Leavers \subseteq Conns
  /\ TextFits \subseteq BOOLEAN
  /\ MaxLines \in Nat
  /\ Null \notin Conns /\ Null \notin Rooms /\ Null \notin Messages
  /\ Null \notin RoomNames /\ Null \notin Usernames

VARIABLES
  \* The clients.
  peer,          \* peer[c]: has client c closed its end of the connection?
  lines,         \* lines[c]: number of lines read from c after its login
  \* Server, shared by all threads.
  m_rooms,       \* m_rooms[n]: the Room registered under the name n, or Null
  m_lock,        \* holder of the Server's mutex, or Null
  \* Room objects, shared by all threads.
  members,       \* members[r]: the Users in r
  lock,          \* lock[r]: holder of r's mutex, or Null
  \* User objects.
  user,          \* user[u]: not yet allocated, live, or deleted
  username,      \* username[u]
  m_messages,    \* m_messages[u]: the deque of u's MessageQueue
  m_avail,       \* m_avail[u]: the semaphore of u's MessageQueue
  \* Local to the worker of a connection.
  pc,            \* what it does next
  role,          \* which chat_with_ function it is in
  want,          \* the room name of the join being handled
  room,          \* room, current_room: the Room joined last
  msg,           \* the delivery being broadcast, or the one just dequeued
  visited,       \* Users the broadcast has gone past
  target,        \* the User the broadcast is enqueueing for
  \* History, for the properties only.
  log            \* log[u]: the deliveries conn.send was called with, and results

clientVars == <<peer, lines>>
serverVars == <<m_rooms, m_lock>>
roomVars == <<members, lock>>
userVars == <<user, username>>
queueVars == <<m_messages, m_avail>>
sharedVars == <<serverVars, roomVars, userVars, queueVars>>
castVars == <<visited, target>>
localVars == <<role, want, room, msg, castVars>>
vars == <<clientVars, sharedVars, pc, localVars, log>>

PC == {"login", "join", "command", "find_lock", "find", "insert", "find_unlock",
       "add", "reply", "leave_old", "leave", "bcast_lock", "bcast", "bcast_post",
       "wait", "pop", "deliver", "cleanup", "delete", "done"}

TypeOK ==
  /\ peer \in [Conns -> {"open", "closed"}]
  /\ lines \in [Conns -> 0 .. MaxLines]
  /\ m_rooms \in [RoomNames -> Rooms \cup {Null}]
  /\ m_lock \in Conns \cup {Null}
  /\ members \in [Rooms -> SUBSET Conns]
  /\ lock \in [Rooms -> Conns \cup {Null}]
  /\ user \in [Conns -> {"none", "live", "deleted"}]
  /\ username \in [Conns -> Usernames \cup {Null}]
  /\ m_messages \in [Conns -> Seq(Messages)]
  /\ m_avail \in [Conns -> Nat]
  /\ pc \in [Conns -> PC]
  /\ role \in [Conns -> {"none", "sender", "receiver"}]
  /\ want \in [Conns -> RoomNames \cup {Null}]
  /\ room \in [Conns -> Rooms \cup {Null}]
  /\ msg \in [Conns -> Messages \cup {Null}]
  /\ visited \in [Conns -> SUBSET Conns]
  /\ target \in [Conns -> Conns \cup {Null}]
  /\ log \in [Conns -> Seq([m : Messages, sent : BOOLEAN])]

Init ==
  /\ peer = [c \in Conns |-> "open"]
  /\ lines = [c \in Conns |-> 0]
  /\ m_rooms = [n \in RoomNames |-> Null]
  /\ m_lock = Null
  /\ members = [r \in Rooms |-> {}]
  /\ lock = [r \in Rooms |-> Null]
  /\ user = [c \in Conns |-> "none"]
  /\ username = [c \in Conns |-> Null]
  /\ m_messages = [c \in Conns |-> <<>>]
  /\ m_avail = [c \in Conns |-> 0]
  /\ pc = [c \in Conns |-> "login"]
  /\ role = [c \in Conns |-> "none"]
  /\ want = [c \in Conns |-> Null]
  /\ room = [c \in Conns |-> Null]
  /\ msg = [c \in Conns |-> Null]
  /\ visited = [c \in Conns |-> {}]
  /\ target = [c \in Conns |-> Null]
  /\ log = [c \in Conns |-> <<>>]

-----------------------------------------------------------------------------
Goto(c, from, to) ==
  /\ pc[c] = from
  /\ pc' = [pc EXCEPT ![c] = to]

\* A step that changes nothing but where the thread is.
Silent(c, from, to) ==
  /\ Goto(c, from, to)
  /\ UNCHANGED <<clientVars, sharedVars, localVars, log>>

\* conn.receive returns a line that client c has sent.
ReadLine(c) ==
  /\ lines[c] < MaxLines
  /\ lines' = [lines EXCEPT ![c] = @ + 1]

\* chat_with_sender receives the command tag and goes on at a point of its code.
Command(c, tag, to) ==
  /\ tag \in Commands
  /\ Goto(c, "command", to)
  /\ ReadLine(c)

\* The client goes away.  What it sent before can still be read.
Hangup(c) ==
  /\ c \in Leavers
  /\ peer[c] = "open"
  /\ peer' = [peer EXCEPT ![c] = "closed"]
  /\ UNCHANGED <<lines, sharedVars, pc, localVars, log>>

-----------------------------------------------------------------------------
(***************************************************************************)
(* worker: the login.  The answer to it is sent before anything else       *)
(* happens and whether it arrives makes no difference.                     *)
(***************************************************************************)

\* slogin or rlogin: a User is allocated and the thread enters its loop.
LogIn(c) ==
  /\ \E l \in Logins[c] :
       /\ l.tag \in {"slogin", "rlogin"}
       /\ username' = [username EXCEPT ![c] = l.user]
       /\ IF l.tag = "slogin"
          THEN Goto(c, "login", "command") /\ role' = [role EXCEPT ![c] = "sender"]
          ELSE Goto(c, "login", "join") /\ role' = [role EXCEPT ![c] = "receiver"]
  /\ user' = [user EXCEPT ![c] = "live"]
  /\ UNCHANGED <<clientVars, serverVars, roomVars, queueVars, want, room, msg,
                 castVars, log>>

\* Another tag, or a line that is too long: the connection is closed.
LoginRefused(c) == (\E l \in Logins[c] : l.tag = "other") /\ Silent(c, "login", "done")

LoginEof(c) == peer[c] = "closed" /\ Silent(c, "login", "done")

-----------------------------------------------------------------------------
(***************************************************************************)
(* chat_with_receiver: the join.                                           *)
(***************************************************************************)

ReceiverJoin(c) ==
  /\ Goto(c, "join", "find_lock")
  /\ ReadLine(c)
  /\ \E n \in RoomNames : want' = [want EXCEPT ![c] = n]
  /\ UNCHANGED <<peer, sharedVars, role, room, msg, castVars, log>>

\* Anything but a join, or the end of the file: the User is deleted.
ReceiverGivesUp(c) ==
  /\ Goto(c, "join", "done")
  /\ user' = [user EXCEPT ![c] = "deleted"]
  /\ UNCHANGED <<peer, serverVars, roomVars, username, queueVars, localVars, log>>

ReceiverRefused(c) == ReceiverGivesUp(c) /\ ReadLine(c)

ReceiverEof(c) == ReceiverGivesUp(c) /\ peer[c] = "closed" /\ UNCHANGED lines

-----------------------------------------------------------------------------
(***************************************************************************)
(* Room::add_member and Room::remove_member: one critical section each.    *)
(***************************************************************************)
AddMember(c) ==
  /\ lock[room[c]] = Null
  /\ members' = [members EXCEPT ![room[c]] = @ \cup {c}]
  /\ UNCHANGED lock

\* Mutant: remove_member does not take the room's mutex.
RemoveMemberUnlocked(c) ==
  /\ members' = [members EXCEPT ![room[c]] = @ \ {c}]
  /\ UNCHANGED lock

RemoveMember(c) ==
  /\ lock[room[c]] = Null
  /\ members' = [members EXCEPT ![room[c]] = @ \ {c}]
  /\ UNCHANGED lock

-----------------------------------------------------------------------------
(***************************************************************************)
(* Server::find_or_create_room, then add_member.                           *)
(***************************************************************************)

\* Mutant: the Guard is missing.
FindUnguarded(c) ==
  /\ Goto(c, "find_lock", "find")
  /\ m_lock' = c
  /\ UNCHANGED <<clientVars, m_rooms, roomVars, userVars, queueVars, localVars, log>>

FindLock(c) ==
  /\ m_lock = Null
  /\ Goto(c, "find_lock", "find")
  /\ m_lock' = c
  /\ UNCHANGED <<clientVars, m_rooms, roomVars, userVars, queueVars, localVars, log>>

FindHit(c) ==
  /\ Goto(c, "find", "find_unlock")
  /\ m_rooms[want[c]] # Null
  /\ room' = [room EXCEPT ![c] = m_rooms[want[c]]]
  /\ UNCHANGED <<clientVars, sharedVars, role, want, msg, castVars, log>>

FindMiss(c) ==
  /\ Silent(c, "find", "insert")
  /\ m_rooms[want[c]] = Null

InsertRoom(c) ==
  /\ Goto(c, "insert", "find_unlock")
  /\ m_rooms' = [m_rooms EXCEPT ![want[c]] = <<want[c], c>>]
  /\ room' = [room EXCEPT ![c] = <<want[c], c>>]
  /\ UNCHANGED <<clientVars, m_lock, roomVars, userVars, queueVars, role, want,
                 msg, castVars, log>>

FindUnlock(c) ==
  /\ Goto(c, "find_unlock", "add")
  /\ m_lock' = Null
  /\ UNCHANGED <<clientVars, m_rooms, roomVars, userVars, queueVars, localVars, log>>

\* The receiver's "ok" is sent whatever comes of it, before its first delivery.
Add(c) ==
  /\ Goto(c, "add", IF role[c] = "receiver" THEN "wait" ELSE "reply")
  /\ AddMember(c)
  /\ want' = [want EXCEPT ![c] = Null]
  /\ UNCHANGED <<clientVars, serverVars, userVars, queueVars, role, room, msg,
                 castVars, log>>

-----------------------------------------------------------------------------
(***************************************************************************)
(* chat_with_sender: the commands.                                         *)
(***************************************************************************)

\* Where the loop of chat_with_sender ends.
AfterLoop(c) == IF room[c] # Null THEN "cleanup" ELSE "delete"

CommandJoin(c) ==
  /\ Command(c, "join", IF room[c] # Null THEN "leave_old" ELSE "find_lock")
  /\ \E n \in RoomNames : want' = [want EXCEPT ![c] = n]
  /\ UNCHANGED <<peer, sharedVars, role, room, msg, castVars, log>>

\* A join takes the User out of the room it is in first.
LeaveOld(c) ==
  /\ Goto(c, "leave_old", "find_lock")
  /\ RemoveMember(c)
  /\ UNCHANGED <<clientVars, serverVars, userVars, queueVars, localVars, log>>

CommandSendAll(c) ==
  /\ room[c] # Null
  /\ Command(c, "sendall", "bcast_lock")
  /\ \E fits \in TextFits :
       msg' = [msg EXCEPT ![c] = [room |-> NameOf(room[c]), from |-> c,
                                  id |-> lines[c] + 1, fits |-> fits]]
  /\ UNCHANGED <<peer, sharedVars, role, want, room, castVars, log>>

CommandLeave(c) ==
  /\ Command(c, "leave", IF room[c] # Null THEN "leave" ELSE "reply")
  /\ UNCHANGED <<peer, sharedVars, localVars, log>>

\* Mutant: current_room is reset and the User stays a member.
LeaveForgetsMember(c) ==
  /\ Goto(c, "leave", "command")
  /\ room' = [room EXCEPT ![c] = Null]
  /\ UNCHANGED <<clientVars, sharedVars, role, want, msg, castVars, log>>

\* The result of answering a leave is ignored.
Leave(c) ==
  /\ Goto(c, "leave", "command")
  /\ RemoveMember(c)
  /\ room' = [room EXCEPT ![c] = Null]
  /\ UNCHANGED <<clientVars, serverVars, userVars, queueVars, role, want, msg,
                 castVars, log>>

\* quit, or a line that is too long: answered, and the loop is left.
CommandQuit(c) ==
  /\ Command(c, "quit", AfterLoop(c))
  /\ UNCHANGED <<peer, sharedVars, localVars, log>>

\* An unknown command ("reply"), or a sendall outside a room, the result of
\* whose answer is ignored ("command").
CommandInvalid(c) ==
  /\ \/ Command(c, "other", "reply")
     \/ room[c] = Null /\ Command(c, "sendall", "command")
  /\ UNCHANGED <<peer, sharedVars, localVars, log>>

\* Mutant: a failed receive does not end the loop.
CommandEofIgnored(c) == peer[c] = "closed" /\ Silent(c, "command", "command")

CommandEof(c) == peer[c] = "closed" /\ Silent(c, "command", AfterLoop(c))

\* An answer whose failure ends the loop.  Only a client that has gone away
\* makes it fail.
Reply(c) ==
  \/ Silent(c, "reply", "command")
  \/ peer[c] = "closed" /\ Silent(c, "reply", AfterLoop(c))

-----------------------------------------------------------------------------
(***************************************************************************)
(* Room::broadcast_message: the lock is held while every member's queue is *)
(* added to.  The order of a set of pointers is arbitrary.                 *)
(***************************************************************************)
\* Mutant: broadcast_message without its Guard.
BroadcastUnlocked(c) ==
  /\ Goto(c, "bcast_lock", "bcast")
  /\ lock' = [lock EXCEPT ![room[c]] = c]
  /\ UNCHANGED <<clientVars, serverVars, members, userVars, queueVars,
                 localVars, log>>

BroadcastLock(c) ==
  /\ Goto(c, "bcast_lock", "bcast")
  /\ lock[room[c]] = Null
  /\ lock' = [lock EXCEPT ![room[c]] = c]
  /\ UNCHANGED <<clientVars, serverVars, members, userVars, queueVars,
                 localVars, log>>

Ahead(c) == members[room[c]] \ visited[c]

BroadcastSkip(c) ==
  /\ Goto(c, "bcast", "bcast")
  /\ \E u \in Ahead(c) :
       /\ username[u] = username[c]
       /\ visited' = [visited EXCEPT ![c] = @ \cup {u}]
  /\ UNCHANGED <<clientVars, sharedVars, role, want, room, msg, target, log>>

\* Mutant: the User's name is not looked at.
BroadcastPushToAll(c) ==
  /\ Goto(c, "bcast", "bcast_post")
  /\ \E u \in Ahead(c) :
       /\ m_messages' = [m_messages EXCEPT ![u] = Append(@, msg[c])]
       /\ target' = [target EXCEPT ![c] = u]
  /\ UNCHANGED <<clientVars, serverVars, roomVars, userVars, m_avail, role, want,
                 room, msg, visited, log>>

\* enqueue: push_back ...
BroadcastPush(c) ==
  /\ Goto(c, "bcast", "bcast_post")
  /\ \E u \in Ahead(c) :
       /\ username[u] # username[c]
       /\ m_messages' = [m_messages EXCEPT ![u] = Append(@, msg[c])]
       /\ target' = [target EXCEPT ![c] = u]
  /\ UNCHANGED <<clientVars, serverVars, roomVars, userVars, m_avail, role, want,
                 room, msg, visited, log>>

\* Mutant: sem_post is missing.
BroadcastPostForgotten(c) ==
  /\ Goto(c, "bcast_post", "bcast")
  /\ visited' = [visited EXCEPT ![c] = @ \cup {target[c]}]
  /\ target' = [target EXCEPT ![c] = Null]
  /\ UNCHANGED <<clientVars, sharedVars, role, want, room, msg, log>>

\* ... and sem_post.
BroadcastPost(c) ==
  /\ Goto(c, "bcast_post", "bcast")
  /\ m_avail' = [m_avail EXCEPT ![target[c]] = @ + 1]
  /\ visited' = [visited EXCEPT ![c] = @ \cup {target[c]}]
  /\ target' = [target EXCEPT ![c] = Null]
  /\ UNCHANGED <<clientVars, serverVars, roomVars, userVars, m_messages, role,
                 want, room, msg, log>>

\* Mutant: the mutex is not released.
BroadcastEndLocked(c) ==
  /\ Goto(c, "bcast", "reply")
  /\ Ahead(c) = {}
  /\ visited' = [visited EXCEPT ![c] = {}]
  /\ msg' = [msg EXCEPT ![c] = Null]
  /\ UNCHANGED <<clientVars, sharedVars, role, want, room, target, log>>

BroadcastEnd(c) ==
  /\ Goto(c, "bcast", "reply")
  /\ Ahead(c) = {}
  /\ lock' = [lock EXCEPT ![room[c]] = Null]
  /\ visited' = [visited EXCEPT ![c] = {}]
  /\ msg' = [msg EXCEPT ![c] = Null]
  /\ UNCHANGED <<clientVars, serverVars, members, userVars, queueVars, role, want,
                 room, target, log>>

-----------------------------------------------------------------------------
(***************************************************************************)
(* chat_with_receiver: the loop.                                           *)
(***************************************************************************)

\* Connection::is_open tests m_fd > 0.  m_fd is the accepted descriptor; no
\* statement changes it, Connection::close included.
IsOpen(c) == TRUE

\* Back to the condition of the while loop.
LoopHead(c) == IF IsOpen(c) THEN "wait" ELSE "cleanup"

Wait(c) ==
  /\ m_avail[c] > 0
  /\ Goto(c, "wait", "pop")
  /\ m_avail' = [m_avail EXCEPT ![c] = @ - 1]
  /\ UNCHANGED <<clientVars, serverVars, roomVars, userVars, m_messages,
                 localVars, log>>

\* dequeue returns nullptr: continue.
WaitTimeout(c) ==
  /\ Silent(c, "wait", LoopHead(c))
  /\ m_avail[c] = 0

Pop(c) ==
  /\ IF m_messages[c] # <<>>
     THEN /\ msg' = [msg EXCEPT ![c] = Head(m_messages[c])]
          /\ m_messages' = [m_messages EXCEPT ![c] = Tail(@)]
          /\ Goto(c, "pop", "deliver")
     ELSE /\ UNCHANGED <<msg, m_messages>>
          /\ Goto(c, "pop", LoopHead(c))
  /\ UNCHANGED <<clientVars, serverVars, roomVars, userVars, m_avail, role, want,
                 room, castVars, log>>

\* conn.send fails for a delivery that is too long and, once the client has
\* gone away, may fail for any.  Nobody looks at the result.
Deliver(c) ==
  /\ Goto(c, "deliver", LoopHead(c))
  /\ \E sent \in BOOLEAN :
       /\ sent => msg[c].fits
       /\ ~sent => ~msg[c].fits \/ peer[c] = "closed"
       /\ log' = [log EXCEPT ![c] = Append(@, [m |-> msg[c], sent |-> sent])]
  /\ msg' = [msg EXCEPT ![c] = Null]
  /\ UNCHANGED <<clientVars, sharedVars, role, want, room, castVars>>

-----------------------------------------------------------------------------
(***************************************************************************)
(* The end of both chat_with_ functions.                                   *)
(***************************************************************************)
\* Mutant: the User is deleted and stays a member.
CleanupForgotten(c) == Silent(c, "cleanup", "delete")

Cleanup(c) ==
  /\ Goto(c, "cleanup", "delete")
  /\ RemoveMember(c)
  /\ UNCHANGED <<clientVars, serverVars, userVars, queueVars, localVars, log>>

\* delete user: the MessageQueue deletes the messages it still holds.
DeleteUser(c) ==
  /\ Goto(c, "delete", "done")
  /\ user' = [user EXCEPT ![c] = "deleted"]
  /\ m_messages' = [m_messages EXCEPT ![c] = <<>>]
  /\ m_avail' = [m_avail EXCEPT ![c] = 0]
  /\ UNCHANGED <<clientVars, serverVars, roomVars, username, localVars, log>>

-----------------------------------------------------------------------------
\* What a worker does when a line it can read arrives, or when the client has
\* gone and everything it sent has been read.
Input(c) ==
  \/ LogIn(c) \/ LoginRefused(c) \/ LoginEof(c)
  \/ ReceiverJoin(c) \/ ReceiverRefused(c) \/ ReceiverEof(c)
  \/ CommandJoin(c) \/ CommandSendAll(c) \/ CommandLeave(c)
  \/ CommandQuit(c) \/ CommandInvalid(c) \/ CommandEof(c)

\* What a worker writes to a client; it may block while the client does not
\* read what it was sent.
Output(c) == Reply(c) \/ Deliver(c)

\* What a worker does by itself.
Internal(c) ==
  \/ FindLock(c) \/ FindHit(c) \/ FindMiss(c) \/ InsertRoom(c) \/ FindUnlock(c)
  \/ Add(c) \/ LeaveOld(c) \/ Leave(c)
  \/ BroadcastLock(c) \/ BroadcastSkip(c) \/ BroadcastPush(c)
  \/ BroadcastPost(c) \/ BroadcastEnd(c)
  \/ Wait(c) \/ WaitTimeout(c) \/ Pop(c)
  \/ Cleanup(c) \/ DeleteUser(c)

Worker(c) == Input(c) \/ Output(c) \/ Internal(c)

Next == \E c \in Conns : Hangup(c) \/ Worker(c)

SafeSpec == Init /\ [][Next]_vars

\* Every thread keeps running.  A read returns once the client has gone away,
\* and a write does not block then; no client is obliged to read or to leave.
Fairness ==
  \A c \in Conns :
    /\ WF_vars(Internal(c))
    /\ WF_vars(LoginEof(c) \/ ReceiverEof(c) \/ CommandEof(c))
    /\ WF_vars(peer[c] = "closed" /\ Output(c))

Spec == SafeSpec /\ Fairness

-----------------------------------------------------------------------------
(***************************************************************************)
(* Properties.                                                             *)
(***************************************************************************)

\* "The unique Room object representing the named chat room" (server.cpp,
\* find_or_create_room): the Room a thread holds is the registered one, so two
\* threads that joined the same name are in the same Room.
OneRoomPerName ==
  \A c \in Conns : room[c] # Null => m_rooms[NameOf(room[c])] = room[c]

\* A Room points to no User that has been deleted, and neither does a broadcast.
NoUseAfterFree ==
  /\ \A r \in Rooms : \A u \in members[r] : user[u] = "live"
  /\ \A c \in Conns : target[c] # Null => user[target[c]] = "live"

\* A User is a member of no Room but the one its thread believes to be in, and
\* of that one whenever the thread waits for its client.
MembershipMatchesRoom ==
  \A u \in Conns :
    /\ \A r \in Rooms : u \in members[r] => r = room[u]
    /\ pc[u] \in {"command", "wait"} /\ room[u] # Null => u \in members[room[u]]

\* Everything user u has been given, oldest first: what was sent to its client,
\* what its thread is about to send, and what is queued.
Given(u) ==
  [i \in 1 .. Len(log[u]) |-> log[u][i].m]
    \o (IF pc[u] = "deliver" THEN <<msg[u]>> ELSE <<>>)
    \o m_messages[u]

\* Position of m in the sequence s.
At(s, m) == CHOOSE i \in 1 .. Len(s) : s[i] = m
Elements(s) == {s[i] : i \in 1 .. Len(s)}

\* Two users never see two messages in different orders, whoever sent them, and
\* nobody is given a message twice.
SameOrder ==
  /\ \A u \in Conns : Cardinality(Elements(Given(u))) = Len(Given(u))
  /\ \A u, v \in Conns :
       \A m, n \in Elements(Given(u)) \cap Elements(Given(v)) :
         At(Given(u), m) < At(Given(u), n) => At(Given(v), m) < At(Given(v), n)

\* Once a User is deleted nobody touches its queue again.
DeletedUsersLeftAlone ==
  [][\A u \in Conns : user[u] = "deleted" =>
       UNCHANGED <<m_messages[u], m_avail[u], username[u]>>]_vars

\* The messages a broadcast has yet to give to u, who was in the room when it
\* took the lock.
Coming(u) ==
  LET from == {c \in Conns :
                 /\ pc[c] \in {"bcast", "bcast_post"}
                 /\ u \in members[room[c]] \ (visited[c] \cup {target[c]})
                 /\ username[u] # username[c]}
  IN  IF from = {} THEN <<>> ELSE <<msg[CHOOSE c \in from : TRUE]>>

\* The server implements ChatRooms: a sendall is atomic, at the moment the
\* broadcast takes the room's lock.
Chat == INSTANCE ChatRooms WITH
          Users <- Conns,
          name  <- username,
          where <- [u \in Conns |-> IF \E r \in Rooms : u \in members[r]
                                    THEN NameOf(CHOOSE r \in Rooms : u \in members[r])
                                    ELSE Null],
          feed  <- [u \in Conns |-> IF user[u] = "deleted" THEN <<>>
                                    ELSE Given(u) \o Coming(u)]

ChatRoomsSpec == Chat!Spec

\* A sendall gets through the room however little the clients read: nothing
\* that is done under a room's lock waits for a client.
BroadcastCompletes ==
  \A c \in Conns : (pc[c] = "bcast_lock") ~> (pc[c] = "reply")

\* While its client reads, a receiver is sent everything it is given: its n-th
\* message does not stay in the queue.
Delivery ==
  \A u \in Conns :
    WF_vars(Output(u)) =>
      \A n \in 1 .. MaxLines :
        (role[u] = "receiver" /\ Len(Given(u)) >= n) ~> (Len(log[u]) >= n)

\* A sender whose client is gone leaves its room and is deleted.
SenderGone ==
  \A c \in Conns :
    (role[c] = "sender" /\ peer[c] = "closed")
      ~> (user[c] = "deleted" /\ \A r \in Rooms : c \notin members[r])

-----------------------------------------------------------------------------
(***************************************************************************)
(* The inductive invariant behind the first four properties.               *)
(***************************************************************************)

\* What a thread's local variables hold at the points of its code, and that
\* its User exists from the login to the delete.
LocalInv ==
  \A c \in Conns :
    /\ pc[c] \in {"leave_old", "find_lock", "find", "insert", "find_unlock", "add"}
         => want[c] # Null
    /\ pc[c] \in {"find_unlock", "add", "leave_old", "leave", "bcast_lock", "bcast",
                  "bcast_post", "wait", "pop", "deliver", "cleanup"}
         => room[c] # Null
    /\ pc[c] \in {"bcast_lock", "bcast", "bcast_post", "deliver"} => msg[c] # Null
    /\ target[c] # Null <=> pc[c] = "bcast_post"
    /\ pc[c] = "login" => user[c] = "none" /\ room[c] = Null
    /\ pc[c] \notin {"login", "done"} => user[c] = "live"

\* The Server's mutex is held exactly inside find_or_create_room; a Room is
\* registered under its own name, and a thread that is about to register one
\* still finds none.
RegistryInv ==
  /\ \A c \in Conns : m_lock = c <=> pc[c] \in {"find", "insert", "find_unlock"}
  /\ \A n \in RoomNames : m_rooms[n] # Null => NameOf(m_rooms[n]) = n
  /\ \A c \in Conns : pc[c] = "insert" => m_rooms[want[c]] = Null

\* A Room's mutex is held, between steps, exactly by the broadcast in it.
RoomLockInv ==
  \A r \in Rooms : \A c \in Conns :
    lock[r] = c <=> pc[c] \in {"bcast", "bcast_post"} /\ room[c] = r

\* Where a thread that has a room is a member of it; elsewhere it is in none.
MemberAt == {"command", "reply", "leave_old", "leave", "bcast_lock", "bcast",
             "bcast_post", "wait", "pop", "deliver", "cleanup"}

MembersInv ==
  /\ \A u \in Conns :
       /\ \A r \in Rooms : u \in members[r] => r = room[u] /\ pc[u] \in MemberAt
       /\ pc[u] \in MemberAt /\ room[u] # Null => u \in members[room[u]]
  /\ \A c \in Conns : pc[c] = "bcast_post" => target[c] \in members[room[c]]

IndInv ==
  /\ TypeOK
  /\ LocalInv
  /\ RegistryInv
  /\ OneRoomPerName
  /\ RoomLockInv
  /\ MembersInv

-----------------------------------------------------------------------------
(***************************************************************************)
(* What a comment says of this code and the code does not do.              *)
(***************************************************************************)

\* "retrieve new messages while connection is open" (server.cpp,
\* chat_with_receiver): a receiver whose client is gone leaves the loop.
ReceiverGone ==
  \A c \in Conns :
    (role[c] = "receiver" /\ peer[c] = "closed") ~> (user[c] = "deleted")
=============================================================================
