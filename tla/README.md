# TLA+ verification of csf_assign04 and csf_assign05

This directory holds TLA+ modules for the two programs of the repository, the
TLC configurations that check them on small instances, and TLAPS proofs about
them for every size.

* `csf_assign05` is a chat: a server with one thread per client, and two client
  programs, a sender and a receiver.  It is the concurrent core and comes first.
* `csf_assign04` is a parallel quicksort over a memory-mapped file, with a tree
  of processes, and three small tools.

Line numbers below are those of the files as committed.  As committed,
`server.cpp:132` does not compile (`conn.m_last_result` is private and
`INVALID_MSG` is not qualified).  The models read the line as what it is meant
to say, `conn.get_last_result() == Connection::INVALID_MSG`; it decides only
whether one more error message is written before the clean-up.

## The system

| Part | State | Operations | Correct when |
|---|---|---|---|
| `MessageQueue` (`message_queue.cpp`), one per `User` (`user.h`) | deque, mutex, counting semaphore | `enqueue`, `dequeue` (waits up to a second), destructor | atomic first-in first-out queue: nothing lost, doubled, or raced for; the semaphore counts the deque |
| `Room` (`room.cpp`, `guard.h`) | set of `User*`, mutex | `add_member`, `remove_member`, `broadcast_message` | a broadcast reaches exactly the members, and no pointer in the set dangles |
| `Server` (`server.cpp`) | map from names to `Room*`, mutex, listening socket | `listen`, `handle_client_requests` (accept loop), `find_or_create_room` | one `Room` per name |
| worker threads (`server.cpp`) | the connection, the `User`, the current room | login, `chat_with_sender`, `chat_with_receiver` | a `User` is in the room its thread believes in; it is removed before it is deleted; every command is answered |
| `Connection` (`connection.cpp`, `message.h`) | descriptor, read buffer, last result | `connect`, `send`, `receive`, `close`, destructor | lines go through unchanged or are refused; a descriptor is closed once |
| clients (`sender.cpp`, `receiver.cpp`) | their connection | login, commands, printing deliveries | every command has its answer; a delivery is taken apart as it was put together |
| `csapp.c` | a buffer per connection | `rio_readinitb`, `rio_readlineb`, `rio_writen`, `open_clientfd`, `open_listenfd` | lines come out as they were put in, however the kernel cuts them; no socket is left open by a failed attempt |
| `server_main.cpp` | - | reads the port, ignores `SIGPIPE`, listens, serves | a server that cannot listen ends |
| `parsort.c` | the mapped array, a tree of processes | `partition`, `quicksort`, `quicksort_subproc`, `quicksort_wait` | sorted permutation; exit status 0 only if every part was sorted |
| `is_sorted.c` | the last element read | reads a file | says what is in the file |
| `seqsort.cpp`, `gen_rand_data.c`, scripts | none that lasts | sequential input and output | - |

How the chat's parts interact.  The accept loop gives every accepted descriptor to a new
detached thread.  The thread builds a `Connection` on it, reads the login and
allocates a `User`.  A sender's thread calls `broadcast_message` of its room,
which locks the room and calls `enqueue` of every member's queue.  A receiver's
thread calls `dequeue` of its own queue in a loop and writes what it gets to its
client.  Threads share the map of rooms, the rooms and the queues, each under a
mutex of its own; locks are nested in one order only (a room's mutex, then a
queue's).  Everything else is local to a thread.  A client sends a line and waits
for the answer to it before it sends another; only a receiver that has joined
listens for lines it did not ask for.  Below that, `rio_writen` and
`rio_readlineb` turn messages into a stream of bytes and back.

How `parsort` works.  `main` maps the file shared and calls `quicksort` on all of
it.  A region longer than the threshold is partitioned, and the process forks
and waits; the child forks once for either part and waits for both, each of
those calls `quicksort` again.  The processes share the array and nothing else,
and tell their parents by their exit status whether their region is sorted.

What is hard.  A broadcast meets joins, leaves and deletions in the same room;
`enqueue` touches the semaphore after it has released the mutex; the one-second
wait of `dequeue` races with the post; two threads may create the same room; a
client may vanish between any two steps; a descriptor that is closed twice may
belong to somebody else the second time.  A line is written and read in pieces
of any size, may be longer than the buffer it is read into, may have no colon,
or end with the program that was writing it; a client that gets out of step with
the server would take every answer for that of another line.  In `parsort`, processes write one
array at once, any `fork` may fail, any process may be killed, `waitpid` of a
child that was never forked waits for another one, and indices are unsigned.
The `hazards` in `PROJECT.json` list these and others at their lines, with the
properties that are about them.

## Modules

| Module | Models | Lines of code behind it |
|---|---|---|
| `FifoQueue` | what a `MessageQueue` promises: `Put`, `Take`, `Release` on a sequence | (abstract) |
| `MessageQueue` | the queue, instruction by instruction | `message_queue.cpp:6-69` |
| `MessageQueueProofs` | theorems about it | |
| `ChatRooms` | what the server promises: a room in which saying something is one step | (abstract) |
| `ChatServer` | workers, rooms, room map, queues | `server.cpp:34-198, 252-265`, `room.cpp`, `connection.cpp` |
| `ChatServerProofs` | theorems about it | |
| `Descriptors` | `open_listenfd`, accept loop, close and destructor of `Connection` | `csapp.c:1003-1049`, `server.cpp:145-250`, `server_main.cpp:22-26`, `connection.cpp:34-54` |
| `DescriptorsProofs` | theorems about it | |
| `Rio` | one direction of a connection: `rio_writen`, the kernel, `rio_readlineb` | `csapp.c:781-899` |
| `RioProofs` | theorems about it | |
| `Message` | encoding and decoding of a message | `connection.cpp:60-66, 98-114` |
| `Connection` | `send` at one end and `receive` at the other, over `Rio` | `connection.cpp:10-20, 56-125` |
| `ConnectionProofs` | theorems about it, from those of `RioProofs` | |
| `ChatProtocol` | both clients and the server with each other, over `Message` | `sender.cpp`, `receiver.cpp`, `server_main.cpp`, `csapp.c:956-991`, `server.cpp:34-250`, `room.cpp:30-42` |
| `ChatProtocolProofs` | theorems about it | |
| `Arrays` | the mapped array, regions, permutations, partitions | `parsort.c:102-148` |
| `Partition` | `partition`, turn by turn | `parsort.c:148-192` |
| `PartitionProofs` | theorems about it | |
| `Sorting` | what `parsort` promises: success is reported of a sorted permutation only | (abstract) |
| `ParSort` | main, the tree of processes, and `is_sorted` after it | `parsort.c:26-100, 209-337`, `is_sorted.c:23-51` |
| `ParSortProofs` | theorems about it | |
| `MC*` | instances for TLC | |

### MessageQueue

Variables `m_messages`, `m_avail` and `m_lock` are the members of the class; `pc`
says where each thread is.  A deque is not a thread-safe object, so `push_back`
and `pop_front` are not taken to be atomic: each is a step that reads the deque
into the thread's `view` and a step that writes it back.  Two threads inside at
once would overwrite each other's change, and only the mutex prevents that.
`enqueue` is `EnqueueCall` (28), `EnqueueLock` (34), `EnqueueRead` and
`EnqueueWrite` (35), `EnqueueUnlock` (36), `EnqueuePost` (38).  `dequeue` is
`DequeueCall`, `DequeueWait` or `DequeueTimeout` (56-58), `DequeueLock` (62),
`DequeueRead` and `DequeueWrite` (63-66), `DequeueUnlock`, `DequeueReturn`.  Time
is not counted: the wait may time out whenever the semaphore is 0.  The module
allows several consumers although the server has one per queue; the class does
not forbid it, and it is the harder case.

### ChatServer

A `User` is named by the connection whose worker allocates it, and a `Room` by
its name and the thread that created it, so that two rooms of one name are two
things.  A step is what a thread does between two points where another can
notice.  `add_member` and `remove_member` are one critical section, hence one
step each.  `find_or_create_room` (`FindLock`, `FindHit` or `FindMiss` and
`InsertRoom`, `FindUnlock`) and `broadcast_message` (`BroadcastLock`, then for one
member after the other `BroadcastSkip`, or `BroadcastPush` and `BroadcastPost`,
then `BroadcastEnd`) are as many steps as the code makes.  `enqueue` and `dequeue`
are split at the semaphore; what `m_lock` protects is one step here, which is
what `MessageQueueProofs` shows to be sound.

The clients are the environment here (`ChatProtocol` has their programs).  `Logins[c]` says how a client may log in; after
that a sender's client may send any command of `Commands` in any order, and a
client of `Leavers` may be gone at any time (`Hangup`).  What it sent before can
still be read.  A reply that fails ends the sender's loop where the code says
`break`, and is ignored where the code ignores it (joins of receivers, `leave`,
`sendall` outside a room).  `is_open` (`connection.cpp:41-47`) is `TRUE`, because
no statement changes `m_fd` after the accept.

A message is a record: room, sender, the number of its line, and whether its
encoding as a delivery still fits `MAX_LEN`.  `log` is a history variable: the
deliveries `conn.send` was called with, and what became of them.

The abstraction function to `ChatRooms` is in the module: a user is where the
`members` sets say, and its feed is what it was sent, what its thread is about
to send, what is queued and what the broadcast that holds its room has yet to
enqueue for it.  A `sendall` thus takes effect when the broadcast takes the
room's mutex.

### Descriptors

`stage` says how far `main` is: `GetAddrInfo`, then for one address after the
other `Socket` or `SocketFails`, `Bind` or `BindFails` (which closes the socket
again), then `Listen` or `ListenFails`, whose failures end the program (`Exit`).
After that comes the accept loop.  `table` is the kernel's table; `socket` and
`accept` return the least free descriptor, as POSIX says, or -1.  Nothing tests
the -1 of `accept`: its worker runs like any other.  When a thread cannot be
created the server ends (`NoThread`).  A worker closes its descriptor in `Close`
(`conn.close()`, which leaves `m_fd` as it is) and again in `Destroy` (the
destructor of the same object).

### Rio, Message and Connection

`Rio` is one direction of a connection.  `stream` is a history of the bytes
`rio_writen` was called with, `nleft` of them are still to be written, `fetched`
of them `read` has returned; `rio_cnt`, `rio_bufptr` and `rio_buf` are the fields
of `rio_t`.  A write takes any number of bytes there is room for
(`WriteSome`), a read returns any number that has arrived (`Refill`), is
interrupted (`Interrupted`), finds the end (`ReadEof`) or an error (`ReadError`).
`TakeByte` is one turn of `rio_readlineb`'s loop.  Either program may end at any
point and the connection may be reset.

`Connection` adds `send` (`SendRefused`, `SendBegin`, `SendWrites`, and `SendAgain`
after a failure) and `receive` (`ReceiveBegin`, `ReceiveReads`, with `ReceiveEnd`
when `rio_readlineb` has returned), and what both leave in `m_last_result`.  The
array `buf` is on the stack and not initialized: what `rio_readlineb` does not write
is what `Leftovers` says it may hold, and the loops of `receive`, which look at all
of it, may read it.  The end that writes is a `Connection`, or (`writer = "other"`)
a program such as the netcat of the test scripts, which writes what it likes.
All callers of `receive` stop when it has failed, and so does the model.

`Message` holds `Encode`, `Fits` and `Decode`, for characters (`Connection`, with
`MAX_LEN` 4) and for words of a given width (`ChatProtocol`, with `MAX_LEN` 255).

### ChatProtocol

The clients' programs step by step: `Connect`, `SendLogin`, `ReceiveLogin`; for a
sender `TypeIgnored`, `TypeQuit`, `TypeCommand`, `ReceiveAnswer`, `EndOfInput`; for a
receiver `SendJoin`, `ReceiveJoin`, `Listen` with `Parse`, the three loops over a
delivery.  `Send` and `ReceiveFails` are the calls as the clients use them: a
message may be too long, and a connection may end under either.  The clients do
not ignore `SIGPIPE`, so a send to a server that is gone may also end them.
The server's side is one step per line (`WorkerLogin`, `WorkerJoin`,
`WorkerSendAll`, `WorkerLeave`, `WorkerMove`, `WorkerOther`, `WorkerEof`,
`WorkerDeliver`); that a broadcast may be one step is `ChatRoomsSpec`.  `up` and `down`
hold the lines on their way, each as `Decode(Encode(m))`: what receive makes of
what was sent, as `RoundTrip` shows of the calls below.  `asked` and `told` are
history: what a client sent last, and what was said in a receiver's room.  `told` goes
by who is in the room (`Tell`), not by who the broadcast picks (`Hears`): the difference
between the two, a receiver with the speaker's name, is stated in the properties.  A
text is a sequence of words out of `Word`, any of which may be a colon or a carriage
return.  A newline is another matter: `getline` keeps it out of the lines that are typed,
and for the names and the room in `argv` `ProtocolAssumption` excludes it (`OneLine`),
because `send` would make two lines of such a message, which a model with one line per
message does not have (see *Findings*).  `Nth(c, k)` is the how manieth the k-th thing
said in c's room is among those that were said under another name than c's and are short
enough to be sent as a delivery (`Deliverable`).

### Partition

One step is one turn of the loop: `ExtendLeft` (169-172), `ExtendRight`
(175-178), `Exchange` (183), with `Stash` (151-165) before and `Place` (190-191)
after it.  Indices are numbers below `Words`; `Up` and `Down` wrap.  A read
outside the array gives any value (`ReadAt`) or is fatal (`Fault`): which of them
depends on what the process has mapped there.  `Init` allows every array and
every region the two assertions let through, the uninitialized locals included.

### ParSort and Sorting

A process is named by its kind and its region: `<<"sort", s, e>>` calls
`quicksort(arr, s, e)`, `<<"split", s, e>>` is the child forked in that call.  No
name is used twice: whoever is forked for a part has not been there before (lemma
`Fresh`), because parts are shorter than what they are parts of.
`quicksort` is `ReturnShort`, `Choose`, `QSort`, `Partition`, `Fork`, `ForkFails`,
`Wait`; `quicksort_subproc` is `ForkPart` and `ForkPartFails`; `quicksort_wait` is
`WaitPart` and `WaitPartFails`; `quicksort_check_success` and the `exit` that
follows are `Check`.  `Kill` ends any process at any point.  `pid` and `exit` are
the two fields of `Child`; a `pid` of -1 makes `waitpid` wait for any child, as
POSIX says (`WaitedFor`), and `exit` stays -1 (`"unknown"`) when there is none.

`partition` and `qsort` are one step each, with the result `PartitionCorrect`
proves for the one and the C library promises for the other; that is sound
because `NoOverlap` shows that no two of them work on a common element at a time.
A process killed in the middle of one leaves anything in its region.
Where `partition` leaves the array (`HasNoStop`), the process dies (`Segfault`) or
goes on with whatever it read; of that (`GoWild`) nothing is said, the system
stops there and every property is about the behaviours before it.

Around it is `main`: `Open`, `Fstat` (a size that is no multiple of an element is
refused), `Mmap`, `Munmap`, and `SystemCallFails` at each of them.  When it has
ended, `is_sorted` may be run on the file (`ReadElement`, `ReadEnd`), also while
children of a killed `parsort` still write to it.

## Runs

| Run | Instance | Shows |
|---|---|---|
| `queue` | 2 producers, 2 consumers, 3 messages | invariants of the queue, that calls return, that messages are handed over, `FifoSpec` |
| `server_safety` | 1 sender between 2 rooms, 1 connection that logs in as anything, the sender's name included, and may vanish; 3 lines each, texts that do and do not fit a delivery | room uniqueness, no use of a deleted `User`, membership, the inductive invariant, `ChatRoomsSpec` |
| `server_order` | 2 senders, 2 receivers, one `sendall` each | all receivers agree on the order |
| `server_live` | 2 senders of one room (the first may vanish), 1 receiver, joins and sends only, with fairness | broadcasts end, senders that are gone are cleaned up, receivers that read get their messages |
| `descriptors` | 2 addresses, 4 clients, 2 descriptors beside the listening socket | no leak, the socket listened on is open and the only one of its kind |
| `connection` | `MAX_LEN` 4, `rio_buf` of 2, 2 bytes in the kernel, messages up to and over the bound, other lines without colon, without newline and too long | `ReturnsLine`, `RoundTrip`, `SendIsNeverRefused`, `NeverCut`, `DecodesLine`, `LineReturned`, and that nothing is stored outside `buf` (`ConnTypeOK`) |
| `protocol` | 1 sender, 1 receiver, 3 lines typed, names and texts with colons and too long, everybody may be killed | `InStep`, `ParseStops`, `PrintsWhatWasSaid`, `AnswerComes`, `PrintedInTheEnd` |
| `partition` | every region of every array of 4 elements over 3 values, 3-bit indices | postcondition, indices, termination |
| `parsort` | 6 elements, threshold 2, three arrays, any system call may fail, one process may be killed | `NoOverlap`, `SuccessIsComplete`, `NoChildLeft`, `FailureHasCause`, `VerdictIsTrue`, `SortSpec`, `Ends` |
| `receiver_gone`, `double_close`, `partition_first` | smallest instance that shows it | see *Findings* |

The inductive invariants of the next section contain the type invariants of their
modules and are proved for every size; of them only the server's, the largest,
is an invariant of a run as well.

Why the bounds are enough to be interesting.  Two producers and two consumers
are the least that contend on both sides of a queue, and three messages let one
be enqueued, one be in the deque and one be taken.  A sender and one more
connection are the least for a broadcast to meet a leave, a deletion or the
creation of the same room; two senders and a receiver are the least for it to
meet another broadcast in the room of a third party.  Two
receivers and two senders are the least for two orders to differ.  Three lines
let a sender join, move and speak.  Four clients on two descriptors let a
number be given away between the two closes, and be closed by its new owner
too; two addresses let the walk over them fail and go on.  A `rio_buf` shorter
than a line and a line shorter than two of them let a line lie across refills
and a refill across lines; a `MAX_LEN` of 4 leaves room for messages just at the
bound, one behind it, and lines that fill `buf`.  Three typed lines let a sender
speak outside its room, join and speak, or have a line refused and go on.
Four elements let both indices of `partition` move, exchange and pass each
other, in regions that begin the array and in regions that do not; three values
are one below, one equal and one above a pivot.  Six elements with a threshold
of 2 give `parsort` two levels of processes, parts of zero, one, two and more
elements, and a partition next to a `qsort`; the first pivot of one of the
arrays is its least element.  One kill is enough to orphan any subtree, and
forks fail in any number.  What the bounds leave out - more clients, more rooms, longer
sessions and lines - is what the proofs are for.

Deadlock is not checked: a worker ends when its client does, and in a bounded
instance the system may come to rest.  That nobody waits for ever who should not
is stated by `EveryCallReturns`, `BroadcastCompletes`, `SenderGone`, `LineReturned`
and `AnswerComes`.  The two parts of `parsort` end; that they do is stated by `Returns` and `Ends`.

### Fairness

* Threads keep running: weak fairness of what a worker does by itself
  (`Internal`), as the scheduler gives it.
* Taking a mutex is weakly fair only, although a pthread mutex may be given to
  somebody else again and again.  This is enough here because the number of
  lines, and so of competing critical sections, is bounded; the liveness
  properties say nothing about unbounded competition.
* A read returns once the client has closed its end, and a write does not block
  then (`SIGPIPE` is ignored, `server_main.cpp:20`).  A client that stays need
  neither read nor write nor leave, so `Output` has no fairness before that: a
  `send` to a client that does not read may block for ever, and
  `BroadcastCompletes` holds all the same.
* `Delivery` assumes of a receiver that its client reads, as the premise of the
  property and not of the specification.
* In `MessageQueue` every step of a call is weakly fair and the beginning of a
  call is not: nobody is obliged to call.  Only what follows from a call that
  was made, and from consumers that come back as the receiver's loop does, is
  claimed.
* In `Connection`, `receive` gets on when there is something for `read` to return, the
  end of the connection included.  Writing and ending are not fair, and an
  interruption is not either: it changes nothing that `receive` waits for.
* In `ChatProtocol`, the clients' programs and the server's threads get on when they can,
  and `main` listens.  Nobody has to type, to end or to be killed.  That the
  worker of a client gets on by itself is what `server_live` shows of the threads.
* A call of `partition`, and every process of `parsort`, keeps running until it
  returns, ends or waits for a child.  Nobody is obliged to fork unsuccessfully
  or to be killed.

## Findings

* `receiver_gone`: `is_open` never becomes false, and the result of the delivery
  is ignored, so the loop of `chat_with_receiver` never ends.  The thread, the
  `User`, the descriptor and the membership of every receiver that ever left
  stay, and its queue goes on being filled and written to a dead socket.
* `double_close`: `close` does not reset `m_fd`, so each descriptor is closed
  twice; in between, `accept` may have given it to another client.
* `partition_first`: `right_index` is unsigned.  For a region that begins the
  array and has no element less than its pivot - a pair in descending order, or
  elements all equal - it is decremented below 0, and `parsort` reads in front of
  its mapping and usually dies there, against the comment that only a failing
  system call makes it fail.

More that a reader of the code may not expect, which the models contain and no
run contradicts:

* Senders are added to their room like receivers, so that their queues take
  every message of the room and are emptied only when they go (`room.h:11` speaks
  of receivers).
* A broadcast leaves out everybody with the sender's username, a receiver of that name
  included (`room.cpp:35`, `continue`), where `room.cpp:31` says "send a message to every
  (receiver) User in the room" and `message.h:33` "send message to all users in chat
  room".  Nothing keeps two clients from the same name.  `told` holds what was
  said in a receiver's room under its own name, too; that this is never printed is one of
  the two exceptions in `PrintsWhatWasSaid` and `PrintedInTheEnd` (`Foreign`), and
  `ChatRooms` speaks of the members with another name.  In the run `protocol` the two
  clients may have the same name.
* A `sendall` near `MAX_LEN` is acknowledged with "Message sent." and then dropped,
  because the delivery carries the names of room and sender too
  (`server.cpp:58`; `message.h:33` says "send message to all users in chat room").
  These messages are the other exception in `PrintsWhatWasSaid` (`Deliverable`).
* A username or a room in `argv` with a newline in it makes two lines of one login or
  join (`connection.cpp:60-69`).  The server takes the second for the next message and
  answers it too, and from then on the client takes each answer for that of the line
  before.  `ProtocolAssumption` leaves such names out: `InStep`, and every theorem about
  `ChatProtocol`, says nothing of them.
* `receive` reports `SUCCESS` for a line without a colon, or one cut off by the end
  of the connection, with what happened to be in `buf` behind it
  (`connection.cpp:98-119`; `connection.h:37-40` speaks of an invalid format).
  `DecodesLine` is about whole lines with a colon, `NeverCut` says when a line may be
  cut.
* A login that is none is answered under the client's own tag
  (`server.cpp:189-191`), and a receiver's name or room with a colon in it moves
  the places at which a receiver takes a delivery apart (`receiver.cpp:92`).
* An empty file makes `parsort` fail, because `mmap` refuses a length of 0, while
  `is_sorted` accepts it.

Suspicions that the checks refute: in spite of the post that comes after
the unlock (`message_queue.cpp:36-38`), no `User` is deleted between the two,
because its thread must first get the room's mutex, which the broadcast holds;
and a timeout that races with a post loses nothing.  A third: `waitpid(-1)` for a
side that was never forked does take the other side's status, but the second
wait then finds no child, and the failure is reported all the same.

## Proofs

All theorems hold for every value of the constants under the named assumptions
`QueueAssumption` (finite, disjoint sets of threads, a `Null` that is none of
them), `ServerAssumption` (what the constants range over; `Null` is none of the
connections, rooms, names and messages), `DescriptorAssumption` (the
descriptors are positive), `RioAssumption` and `ConnectionAssumption`
(the sizes are positive, `buf` is two longer than `MAX_LEN`, and the characters are
distinct as far as needed), `ProtocolAssumption` (a process is a sender or a receiver; what
is typed is a command or a text; the names, the rooms and what is typed have no newline; a
colon is no line break), `AnswersAssumption` (the tags and
the answers have no colon and no line break in them, and `send` lets the answers through,
as it does for a `MAX_LEN` of 255), `PlainAssumption` (for `RoundTrip` only: no tag has a colon or
a newline, no data have a newline), `ArrayAssumption` (the elements are integers), `WordsAssumption` (an index can
count the array) and `ParSortAssumption` (the inputs are arrays; the threshold may be
anything).

* `MessageQueueProofs`.  `Invariance` proves `IndInv`: the types; who holds the
  mutex is exactly who is inside; the `view` of a thread that has read is the
  deque itself; and `SemaphoreCountsMessages`, the equation
  `m_avail` + (posts to come) = (messages) - (pops to come).  The equation is what
  makes it inductive: that a consumer which passed the semaphore finds a message
  does not follow from the semaphore's value alone, but from the number of other
  consumers that have passed it too.  `MutualExclusion`, `SemaphoreExact` and
  `DequeueFindsMessage` follow, and with them `ImplementsFifo`: every step is a step
  of `FifoQueue` or changes nothing of it.
* `ChatServerProofs`.  `Invariance` proves `IndInv`: types; `LocalInv` (what a
  thread's local variables hold at each point of its code); `RegistryInv` (the
  server's mutex, and that a thread about to register a room still finds none);
  `OneRoomPerName`; `RoomLockInv` (a room's mutex is held exactly by the broadcast in
  it); `MembersInv` (who is a member where, and that the `User` a broadcast is
  enqueueing for is still a member).  None of the properties is inductive alone:
  that a broadcast uses no deleted `User` needs that a member cannot be removed
  while the mutex is held, which needs to know who holds it, which needs to know
  which room a thread is in.  `RoomUnique`, `MembershipAccurate`, `NoDanglingUser` and
  the action property `DeletedUserUntouched` follow.

  `ImplementsChatRooms` and `Ordered` are about `Told(u)`: what `u` was given, and then
  the message that a broadcast in its room, holding the lock, has yet to give it
  (there is one broadcast at most, `OneCaster`).  One lemma per group of actions
  shows that nearly every step leaves `Told` as it is: what `BroadcastPush` puts in the
  queue was on its way (`PushTold`), what `Pop` takes from it is in `msg` (`PopTold`), what
  `Deliver` takes from there is in `log` (`DeliverTold`), and nobody broadcasts in a
  room that is entered or left (`MoveTold`).  Only `BroadcastLock` adds to it, for
  everybody in the room at once (`LockTold`), and `DeleteUser` cuts off what was queued.
  So `BroadcastLock` is the `Say` of `ChatRooms`, `add_member` its `Enter`, `remove_member`
  its `Exit`, and the rest stutters.  `OrderInv` adds that a message that was told is
  no longer that of a thread waiting for the lock, as its number is that of an
  earlier line; so the end at which a message is added is new to everybody, and
  any two users agree on the order of what they were told (`Agree`, one relation that
  also says that nothing comes twice).  `CastInv` is the part of the invariant that
  only these two need: whose message a broadcast carries, and that it begins with
  the first member.
* `DescriptorsProofs`.  `Invariance`, `NothingLeaks`, `ListenerSafe`: although
  workers close each other's sockets, what is open always belongs to a worker that
  has yet to close it.  `WalkInv` says which sockets are open at each point of
  `open_listenfd`: that the one listened on survives every close needs to know that
  no worker ever holds its number.
* `RioProofs`.  `Invariance` proves `RioInv`: the types; `BufferInv`, that what
  `rio_read` holds are the next bytes of the stream; `LineInv`, that what
  `rio_readlineb` has stored is the beginning of a line; and `ReturnsLine`, which is
  not inductive without them.  `LinesReturned` follows: for buffers of any size, and
  bytes cut anywhere.
* `ConnectionProofs`.  `ConnInvariance` proves `ConnInv` by way of `RioInv`, whose steps
  are cited.  Its own part is `LinesFit`: from wherever one looks at what a
  `Connection` has sent, the next newline is at most `MAX_LEN` characters away; so
  `rio_readlineb` never fills `buf` before it finds one.  `NoneRefused` and `NothingCut`
  follow.

  `LinesDecoded` is about the loops of `receive`, which look at all of `buf`: lemma
  `FindIs` says where a loop stops (that there is a least such place is that the
  natural numbers are well-founded), `DecodePrefix` that two buffers that begin with
  one line, which has a colon and ends in a newline, are decoded alike.
  `MessagesGoThrough` needs to know where in the stream a message begins.  `RoundInv`
  says that there is a function `b` from numbers of messages to places in the stream,
  the encoded message between one place and the next being the one that was
  accepted, and that `receive` always is at `b[got]`, unless it has read the cut end of a
  connection, behind which nothing comes.  `LineIsMessage`: a line that begins where a
  message does, and ends in its first newline, is that message, which has no other
  newline; `DecodeEncode`: decoding it gives the message back, up to a carriage
  return.  Both need `PlainAssumption`, which the code justifies but for one
  answer: `server.cpp:189-191` uses the tag of a login line without a colon, which
  may hold whatever `buf` did.  `ConnTypes` shows that nothing is stored outside `buf`.
* `PartitionProofs`.  `Invariance` proves `IndInv`, whose core is `LoopInv`: what
  either index has passed is on its side of the pivot, the indices pass each
  other by one at most, and in a region that begins the array some element is
  still less than the pivot.  The last is what keeps `right_index` from wrapping,
  and it is why the invariant needs the region not to be one of `HasNoStop`.  That
  the result is a permutation rests on a lemma about a swap and the number of
  places of a value (`SwapPermutes`).  `PartitionCorrect` and `NoWrap` follow.
* `ParSortProofs`.  `Invariance` proves `IndInv`, in six parts.  `TreeInv`: any two
  sorters that have started are apart, or one is in a part that was forked for
  the other (`Laminar`).  That is what makes `NoOverlap` true however deep the tree is,
  and it needs to know at each point of the code which children a process has and
  where its pivot is (`Control`).  `WaitInv`: what a splitter has waited for and knows
  of its children, whichever of its forks failed; when the left one fails, the first
  `waitpid` (of -1) takes the right child, the second finds none, and the status
  that stays unknown is what makes the splitter fail.  That a second `waitpid` cannot
  take anybody else's child is `UniqueParent`, which follows from the tree.  `Settled`: all
  that are below a process that has ended well have ended well and were waited for,
  and if nobody was killed, all that are below a process that has ended have
  ended; it is
  inductive because `BelowStarted` takes it apart along the tree.  `SortedInv`: a pivot
  stays in its place while the parts beside it are sorted (`Shuffled`: an element of a
  permuted region was in the region before), and nobody writes to the region of a
  process that has ended well.  A killed process may leave anything in its region, so
  this is said of splitters below which nobody was killed - those that may yet
  end well.  `PermInv` and `CheckerInv` add the elements and the verdict of
  `is_sorted`.  `NoOverlapHolds`, `SuccessIsCompleteHolds`, `NoChildLeftHolds`,
  `FailureHasCauseHolds`, `VerdictIsTrueHolds` and the refinement `ImplementsSorting`
  follow: `Munmap` is `Succeed`, every other end of main is `Fail`, a write of any
  process is `Write`.  The parts of `IndInv` are defined in this module and not in
  `ParSort`, because nothing but its proofs needs them.

* `ChatProtocolProofs` is in three parts.  The first is about texts.  `FindIs` and
  `FoundAt` say where a loop over a buffer stops; from these, `LineIs`: a message with one
  of the protocol's tags arrives as what is in front of its first line break; `LinePlain`:
  it arrives as it is if it has none; `PayloadStops`: a delivery has two colons, whatever
  is in it; `ParsePayload`: it is taken apart into who spoke and what was said, if neither
  the room's name nor the speaker's has a colon.  `WidthOf`, which is a recursion, is
  never looked into: nothing depends on what fits but `AnswersAssumption`.

  The second proves `StepInv`: where a client is in its program says where its worker may be
  and what is between them (`InTurn`), and a worker never finds more than one line, of a
  kind it expects there (`Reads`).  `InTurn` alone is not inductive: a client that was
  killed leaves its message to a worker which knows nothing of that, and still must
  not take it for another kind of message.  There is one lemma per action, each with the
  rest of the clients in `Frame`.  `StayInStep` follows.

  The third proves `PrintInv`, whose core is `Chain`: nothing is said to a receiver before it
  has joined (`NotYet`); and what was said in its room since under another name than its own
  is, in this order and without gaps, on its screen, on its way (`Sent`, with `InTransit` for
  what is behind the answer to its join), and in its queue (`Queued`), but for what was too
  long to be sent.  What was said under its own name is in `told` and nowhere else, so the
  queue is no end of `told`: `Chain` says that there is an increasing function p which gives
  the place in `told` of each thing in the queue, with p[0] where the queue begins.  A step
  moves one thing from one of these to the next (`MoreSaid`, `DeliverChain`, `MovesUp`);
  `Counts`, `Place` and `Skips` say at which place it then is.  `StepInv` is
  needed for it: that nothing but deliveries lies behind the answer to a join, and that a
  worker that delivers has a receiver which has joined.  `DeliveriesParse` and `PrintsAsSaid`
  follow; the latter with `ParsePayload`.

Only model-checked: the liveness properties (fairness is out of the prover's
reach), among them that a waiting client is answered (`AnswerComes`) and that what was
said is printed in the end (`PrintedInTheEnd`); what `WidthOf` computes (a recursion); and
the refutations.  `StepInv` and `PrintInv` hold in all states of the run `protocol`.

## Plan

Done: the queue, the server, the descriptors, the connection, the clients with
the server, and `parsort`, with the proofs above: every safety property that a passing run
checks is a theorem.  Next, in this order:

1. That the line of `ChatProtocol` (`Line`) is what `Connection` makes of a message is
   argued from `RoundTrip`; a theorem that relates the two models would close this gap.
2. The step of `ChatProtocol`'s worker over a broadcast, likewise, is argued from
   `ImplementsChatRooms`.

## Not modelled

* What of `csapp.c` nobody calls: wrappers that end the program on an error,
  and wrappers for signals, processes, semaphores and files.
* `client_util.cpp`: its functions are called by nobody.
* `seqsort.cpp`, `gen_rand_data.c` and the scripts: sequential input and output
  around one library call, or measurements.
* `reference/ref-*`: binaries without source.
* Programs started with the wrong number of arguments, or a port that is no
  number: they end at once.
* Allocation and system call failures the code does not look at (`new`,
  `pthread_mutex_init`, `sem_init`), and `sem_timedwait` interrupted by a signal (no
  handler is installed).
* The destructor of `Server`, which never runs: the accept loop does not end.
