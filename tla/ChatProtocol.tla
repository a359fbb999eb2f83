---------------------------- MODULE ChatProtocol ----------------------------
(***************************************************************************)
(* The programs of csf_assign05 with each other: the sender (sender.cpp),  *)
(* the receiver (receiver.cpp) and the server that answers them, from the  *)
(* start of a program to its end, with users who type and programs that    *)
(* are killed.                                                             *)
(*                                                                         *)
(* A line is sent and received whole (module Connection), and the server's *)
(* thread handles a line in one step (module ChatServer shows that this is *)
(* what the threads come to together).  A text is a sequence of words.     *)
(***************************************************************************)
EXTENDS Integers, Sequences, FiniteSets, SequencesExt

CONSTANTS
  Senders, Receivers,  \* processes that run the one client program or the other
  Args,          \* Args[c]: what c may be started with: user, and room if a receiver
  Typed,         \* Typed[c]: what may be typed into the sender c
  MaxTyped,      \* bound: lines typed into one sender
  Null,          \* no room
  MAX_LEN,
  Word,          \* what texts are made of
  Colon, CR, Newline,
  Width(_)       \* the number of characters of a word

Clients == Senders \cup Receivers

WidthOf(text) ==
  LET width[n \in 0 .. Len(text)] == IF n = 0 THEN 0 ELSE width[n - 1] + Width(text[n])
  IN  width[Len(text)]

INSTANCE Message WITH Size <- WidthOf

\* What send puts on the wire as one line.
OneLine == Seq(Word \ {Newline})

\* A line that is typed is a record: its command and the rest, or no command and a text.
\* It holds no newline, as getline ends it there.  That the names in argv hold none is
\* a restriction: send would make two lines of such a login or join, and the server
\* would answer both.
ASSUME ProtocolAssumption ==
  /\ Senders \cap Receivers = {}
  /\ \A c \in Senders : \A t \in Typed[c] : t.command \in {"join", "leave", "quit", "dance", Null}
  /\ MaxTyped \in Nat
  /\ \A c \in Senders : \A t \in Typed[c] : t.rest \in OneLine
  /\ \A c \in Clients : \A a \in Args[c] : a.user \in OneLine
  /\ \A c \in Receivers : \A a \in Args[c] : a.room \in OneLine
  /\ {Colon, CR, Newline} \subseteq Word /\ Colon \notin {CR, Newline}

VARIABLES
  \* The clients' programs.
  cpc,           \* what c does next
  argv,          \* what it was started with
  typed,         \* how many lines were typed into it
  asked,         \* history: the message it sent last
  screen,        \* what the receiver c has printed: sender and text
  \* The connections: the lines on their way, each as what receive takes it for.
  up, down,
  \* The server's program, and its thread for the connection of c.
  server,
  wpc,
  username, room,
  queue,         \* the MessageQueue of c's User: the data of deliveries
  told           \* history: what was said in the room of the receiver c: sender and text

clientVars == <<cpc, argv, typed, asked, screen>>
serverVars == <<server, wpc, username, room, queue, told>>
vars == <<clientVars, up, down, serverVars>>

Msg(tag, data) == [tag |-> <<tag>>, data |-> data]
None == Msg("", <<>>)

\* What becomes of m between send and receive: one line, since no data hold a newline.
Line(m) == Decode(Encode(m))

Tags == {"slogin", "rlogin", "join", "leave", "sendall", "quit", "ok", "err", "delivery"}

\* The answers to a message that is in its place: their tag and their text.
AllAnswers ==
  {<<"ok", "Login successful">>, <<"ok", "Joined Room.">>, <<"ok", "Join successful">>,
   <<"ok", "Message sent.">>, <<"err", "Error: Not in a room. JOIN first.">>,
   <<"ok", "Left current rooom.">>, <<"err", "Error: Not in a room.">>}

\* The protocol's own words are words, and send lets the answers through.
ASSUME AnswersAssumption ==
  /\ Tags \cup {a[2] : a \in AllAnswers} \subseteq Word \ {Colon, CR, Newline}
  /\ \A a \in AllAnswers : Fits(Msg(a[1], <<a[2]>>))

ClientPC == {"connect", "login", "login_sent", "join", "join_sent", "prompt", "await",
             "listen", "ended"}
WorkerPC == {"none", "backlog", "login", "join", "command", "deliver", "done"}

Init ==
  /\ cpc = [c \in Clients |-> "connect"]
  /\ argv \in [Clients -> UNION {Args[c] : c \in Clients}]
  /\ \A c \in Clients : argv[c] \in Args[c]
  /\ typed = [c \in Clients |-> 0]
  /\ asked = [c \in Clients |-> None]
  /\ screen = [c \in Clients |-> <<>>]
  /\ up = [c \in Clients |-> <<>>]
  /\ down = [c \in Clients |-> <<>>]
  /\ server = "started"
  /\ wpc = [c \in Clients |-> "none"]
  /\ username = [c \in Clients |-> <<>>]
  /\ room = [c \in Clients |-> Null]
  /\ queue = [c \in Clients |-> <<>>]
  /\ told = [c \in Receivers |-> <<>>]

-----------------------------------------------------------------------------
(***************************************************************************)
(* What both client programs do.                                           *)
(***************************************************************************)
Goto(c, from, to) ==
  /\ cpc[c] = from
  /\ cpc' = [cpc EXCEPT ![c] = to]

\* connect: open_clientfd finds an address at which the server listens, or not.
\* The server has the connection when it accepts it.
Connect(c) ==
  /\ IF server = "listening"
     THEN Goto(c, "connect", "login") /\ wpc' = [wpc EXCEPT ![c] = "backlog"]
     ELSE Goto(c, "connect", "ended") /\ UNCHANGED wpc
  /\ UNCHANGED <<argv, typed, asked, screen, up, down, server, username, room,
                 queue, told>>

\* conn.send(m), after which c is at sent or, where send says that it failed,
\* at failed.  When the other end is gone, the line is lost, send fails, or c
\* ends: SIGPIPE is not ignored by the clients.
Send(c, from, m, sent, failed) ==
  /\ \/ /\ Fits(m)
        /\ Goto(c, from, sent)
        /\ up' = [up EXCEPT ![c] = Append(@, Line(m))]
        /\ asked' = [asked EXCEPT ![c] = m]
     \/ /\ ~Fits(m)
        /\ Goto(c, from, failed)
        /\ UNCHANGED <<up, asked>>
     \/ /\ Fits(m)
        /\ wpc[c] = "done"
        /\ \E to \in {failed, "ended"} : Goto(c, from, to)
        /\ UNCHANGED <<up, asked>>
  /\ UNCHANGED <<argv, screen, down, serverVars>>

\* conn.receive returns TRUE, with the message that is the head of down[c].
Receive(c, from) ==
  /\ cpc[c] = from
  /\ down[c] # <<>>
  /\ down' = [down EXCEPT ![c] = Tail(@)]

\* An answer: the program ends if it is an error, and is at ok otherwise.
ReceiveOk(c, from, ok) ==
  /\ Receive(c, from)
  /\ Goto(c, from, IF Head(down[c]).tag = <<"err">> THEN "ended" ELSE ok)
  /\ UNCHANGED <<argv, typed, asked, screen, up, serverVars>>

\* conn.receive returns FALSE: the program ends.  What is on its way is read
\* before the end of the connection, except that a connection closed over
\* unread lines is reset.
ReceiveFails(c) ==
  /\ cpc[c] \in {"login_sent", "join_sent", "await", "listen"}
  /\ wpc[c] = "done"
  /\ down[c] = <<>> \/ up[c] # <<>>
  /\ cpc' = [cpc EXCEPT ![c] = "ended"]
  /\ UNCHANGED <<argv, typed, asked, screen, up, down, serverVars>>

LoginTag(c) == IF c \in Senders THEN "slogin" ELSE "rlogin"

SendLogin(c) ==
  /\ Send(c, "login", Msg(LoginTag(c), argv[c].user), "login_sent", "ended")
  /\ UNCHANGED typed

ReceiveLogin(c) == ReceiveOk(c, "login_sent", IF c \in Senders THEN "prompt" ELSE "join")

\* The process is killed.
Killed(c) ==
  /\ cpc[c] # "ended"
  /\ cpc' = [cpc EXCEPT ![c] = "ended"]
  /\ UNCHANGED <<argv, typed, asked, screen, up, down, serverVars>>

-----------------------------------------------------------------------------
(***************************************************************************)
(* sender.cpp, after the login.                                            *)
(***************************************************************************)
MessageFor(t) ==
  CASE t.command = "join"  -> Msg("join", t.rest)
    [] t.command = "leave" -> Msg("leave", <<>>)
    [] t.command = "quit"  -> Msg("quit", <<>>)
    [] OTHER               -> Msg("sendall", t.rest)

\* An empty line, or a command the program does not know.
IsIgnored(t) ==
  \/ t.command = Null /\ t.rest = <<>>
  \/ t.command \notin {"join", "leave", "quit", Null}

TypeIgnored(c) ==
  /\ \E t \in Typed[c] : IsIgnored(t)
  /\ Goto(c, "prompt", "prompt")
  /\ UNCHANGED <<argv, asked, screen, up, down, serverVars>>

\* The program does not wait for the answer to a quit.
TypeQuit(c) ==
  \E t \in Typed[c] :
    t.command = "quit" /\ Send(c, "prompt", MessageFor(t), "ended", "ended")

\* Mutant: a message that could not be sent is waited for all the same.
TypeCommandNoContinue(c) ==
  \E t \in Typed[c] :
    /\ ~IsIgnored(t) /\ t.command # "quit"
    /\ Send(c, "prompt", MessageFor(t), "await", "await")

TypeCommand(c) ==
  \E t \in Typed[c] :
    /\ ~IsIgnored(t) /\ t.command # "quit"
    /\ Send(c, "prompt", MessageFor(t), "await", "prompt")

Type(c) ==
  /\ typed[c] < MaxTyped
  /\ typed' = [typed EXCEPT ![c] = @ + 1]
  /\ TypeIgnored(c) \/ TypeQuit(c) \/ TypeCommand(c)

\* An error is printed, and the next line is read all the same.
ReceiveAnswer(c) ==
  /\ Receive(c, "await")
  /\ Goto(c, "await", "prompt")
  /\ UNCHANGED <<argv, typed, asked, screen, up, serverVars>>

\* getline finds the end of its input.
EndOfInput(c) ==
  /\ Goto(c, "prompt", "ended")
  /\ UNCHANGED <<argv, typed, asked, screen, up, down, serverVars>>

Sender(c) == Type(c) \/ EndOfInput(c)

-----------------------------------------------------------------------------
(***************************************************************************)
(* receiver.cpp, after the login.                                          *)
(***************************************************************************)
SendJoin(c) ==
  /\ Send(c, "join", Msg("join", argv[c].room), "join_sent", "ended")
  /\ UNCHANGED typed

ReceiveJoin(c) == ReceiveOk(c, "join_sent", "listen")

\* Mutant: the text ends at its first colon, too.
ParseThree(data) ==
  LET i == Find(data, 1, {Colon})
      j == Find(data, i + 1, {Colon})
  IN  [from |-> SubSeq(data, i + 1, j - 1),
       text |-> SubSeq(data, j + 1, Find(data, j + 1, {Colon}) - 1)]

\* The three loops over a delivery.  The first two have no other end than a
\* colon.
Parse(data) ==
  LET i == Find(data, 1, {Colon})
      j == Find(data, i + 1, {Colon})
  IN  [from |-> SubSeq(data, i + 1, j - 1), text |-> SubSeq(data, j + 1, Len(data))]

Listen(c) ==
  /\ Receive(c, "listen")
  /\ LET m == Head(down[c])
     IN  screen' = IF m.tag = <<"delivery">>
                   THEN [screen EXCEPT ![c] = Append(@, Parse(m.data))]
                   ELSE screen
  /\ UNCHANGED <<cpc, argv, typed, asked, up, serverVars>>

-----------------------------------------------------------------------------
(***************************************************************************)
(* The server.                                                             *)
(***************************************************************************)

\* listen succeeds and the accept loop begins; or it fails, and main returns.
Serve ==
  /\ server = "started"
  /\ server' \in {"listening", "ended"}
  /\ UNCHANGED <<clientVars, up, down, wpc, username, room, queue, told>>

\* The server is killed; the kernel closes its connections.
ServerKilled ==
  /\ server = "listening"
  /\ server' = "ended"
  /\ wpc' = [c \in Clients |-> IF wpc[c] = "none" THEN "none" ELSE "done"]
  /\ UNCHANGED <<clientVars, up, down, username, room, queue, told>>

Accept(c) ==
  /\ server = "listening"
  /\ wpc[c] = "backlog"
  /\ wpc' = [wpc EXCEPT ![c] = "login"]
  /\ UNCHANGED <<clientVars, up, down, server, username, room, queue, told>>

\* The thread of c receives the head of up[c].
Read(c, from) ==
  /\ wpc[c] = from
  /\ up[c] # <<>>
  /\ up' = [up EXCEPT ![c] = Tail(@)]

\* It sends m and goes on at ok, or at failed where the code looks at the result.
\* Only a client that has ended makes a send fail that fits.
Reply(c, m, ok, failed) ==
  \/ /\ down' = IF Fits(m) /\ cpc[c] # "ended"
                THEN [down EXCEPT ![c] = Append(@, Line(m))] ELSE down
     /\ wpc' = [wpc EXCEPT ![c] = ok]
  \/ /\ cpc[c] = "ended"
     /\ wpc' = [wpc EXCEPT ![c] = failed]
     /\ UNCHANGED down

Leaves(c) == room' = [room EXCEPT ![c] = Null]

\* The login.  A line that is none is answered under its own tag.
WorkerLogin(c) ==
  /\ Read(c, "login")
  /\ LET m == Head(up[c])
     IN  /\ username' = [username EXCEPT ![c] = m.data]
         /\ CASE m.tag = <<"rlogin">> -> Reply(c, Msg("ok", <<"Login successful">>), "join", "join")
              [] m.tag = <<"slogin">> ->
                   Reply(c, Msg("ok", <<"Login successful">>), "command", "command")
              [] OTHER -> Reply(c, [m EXCEPT !.data = <<"Error: Did not receive login request">>],
                                "done", "done")
  /\ UNCHANGED <<clientVars, server, room, queue, told>>

\* chat_with_receiver: the join.
WorkerJoin(c) ==
  /\ Read(c, "join")
  /\ LET m == Head(up[c])
     IN  IF m.tag = <<"join">>
         THEN /\ room' = [room EXCEPT ![c] = m.data]
              /\ Reply(c, Msg("ok", <<"Join successful">>), "deliver", "deliver")
         ELSE /\ Reply(c, Msg("err", <<"Error: Did not receive join request.">>), "done", "done")
              /\ UNCHANGED room
  /\ UNCHANGED <<clientVars, server, username, queue, told>>

\* broadcast_message: who is in the sender's room under another name.
Hears(d, c) == room[d] = room[c] /\ username[d] # username[c]

\* Mutant: the sender is left out of a delivery.
PayloadNoSender(r, from, text) == r \o <<Colon>> \o text

Payload(r, from, text) == r \o <<Colon>> \o from \o <<Colon>> \o text

\* What c says is said to every receiver in its room, whatever its name.
Tell(c, text) ==
  told' = [d \in Receivers |->
             IF room[d] = room[c]
             THEN Append(told[d], [from |-> username[c], text |-> text]) ELSE told[d]]

\* Mutant: a queue that holds a message already takes no other.
BroadcastToIdle(c, text) ==
  /\ queue' = [d \in Clients |->
                 IF Hears(d, c) /\ queue[d] = <<>>
                 THEN Append(queue[d], Payload(room[c], username[c], text)) ELSE queue[d]]
  /\ Tell(c, text)

Broadcast(c, text) ==
  /\ queue' = [d \in Clients |->
                 IF Hears(d, c)
                 THEN Append(queue[d], Payload(room[c], username[c], text)) ELSE queue[d]]
  /\ Tell(c, text)

\* chat_with_sender: one turn of the loop.
WorkerSendAll(c, m) ==
  /\ m.tag = <<"sendall">>
  /\ IF room[c] = Null
     THEN /\ Reply(c, Msg("err", <<"Error: Not in a room. JOIN first.">>), "command", "command")
          /\ UNCHANGED <<queue, told, room>>
     ELSE /\ Broadcast(c, m.data)
          /\ Reply(c, Msg("ok", <<"Message sent.">>), "command", "done")
          /\ IF wpc'[c] = "done" THEN Leaves(c) ELSE UNCHANGED room

\* Mutant: a leave outside a room is not answered.
WorkerLeaveSilent(c, m) ==
  /\ m.tag = <<"leave">>
  /\ IF room[c] # Null
     THEN Reply(c, Msg("ok", <<"Left current rooom.">>), "command", "command")
     ELSE UNCHANGED <<down, wpc>>
  /\ Leaves(c)
  /\ UNCHANGED <<queue, told>>

WorkerLeave(c, m) ==
  /\ m.tag = <<"leave">>
  /\ IF room[c] # Null
     THEN Reply(c, Msg("ok", <<"Left current rooom.">>), "command", "command")
     ELSE Reply(c, Msg("err", <<"Error: Not in a room.">>), "command", "done")
  /\ Leaves(c)
  /\ UNCHANGED <<queue, told>>

WorkerMove(c, m) ==
  /\ m.tag = <<"join">>
  /\ Reply(c, Msg("ok", <<"Joined Room.">>), "command", "done")
  /\ room' = [room EXCEPT ![c] = IF wpc'[c] = "done" THEN Null ELSE m.data]
  /\ UNCHANGED <<queue, told>>

\* quit, and whatever the loop does not know.
WorkerOther(c, m) ==
  /\ m.tag \notin {<<"sendall">>, <<"leave">>, <<"join">>}
  /\ IF m.tag = <<"quit">>
     THEN Reply(c, Msg("ok", <<"Quiting...">>), "done", "done")
     ELSE Reply(c, Msg("err", <<"Error: Invalid command.">>), "command", "done")
  /\ IF wpc'[c] = "done" THEN Leaves(c) ELSE UNCHANGED room
  /\ UNCHANGED <<queue, told>>

WorkerCommand(c) ==
  /\ Read(c, "command")
  /\ LET m == Head(up[c])
     IN  WorkerSendAll(c, m) \/ WorkerLeave(c, m) \/ WorkerMove(c, m) \/ WorkerOther(c, m)
  /\ UNCHANGED <<clientVars, server, username>>

\* conn.receive returns FALSE; the answer that chat_with_receiver sends then does
\* not arrive.
WorkerEof(c) ==
  /\ wpc[c] \in {"login", "join", "command"}
  /\ cpc[c] = "ended"
  /\ up[c] = <<>> \/ down[c] # <<>>
  /\ wpc' = [wpc EXCEPT ![c] = "done"]
  /\ Leaves(c)
  /\ UNCHANGED <<clientVars, up, down, server, username, queue, told>>

\* A turn of chat_with_receiver's loop.  Nobody looks at what becomes of the
\* message, be it too long as a delivery.
WorkerDeliver(c) ==
  /\ wpc[c] = "deliver"
  /\ queue[c] # <<>>
  /\ queue' = [queue EXCEPT ![c] = Tail(@)]
  /\ Reply(c, Msg("delivery", Head(queue[c])), "deliver", "deliver")
  /\ UNCHANGED <<clientVars, up, server, username, room, told>>

-----------------------------------------------------------------------------
\* What a program does by itself, once a line has arrived or a connection ended.
Client(c) ==
  \/ Connect(c) \/ SendLogin(c) \/ ReceiveLogin(c) \/ SendJoin(c) \/ ReceiveJoin(c)
  \/ ReceiveAnswer(c) \/ Listen(c) \/ ReceiveFails(c)

Worker(c) ==
  \/ Accept(c) \/ WorkerLogin(c) \/ WorkerJoin(c) \/ WorkerCommand(c)
  \/ WorkerEof(c) \/ WorkerDeliver(c)

Next ==
  \/ \E c \in Clients : Client(c) \/ Worker(c) \/ Killed(c)
  \/ \E c \in Senders : Sender(c)
  \/ Serve \/ ServerKilled

\* The programs keep running.  Nobody has to type, and nothing has to be killed.
Fairness ==
  /\ \A c \in Clients : WF_vars(Client(c)) /\ WF_vars(Worker(c))
  /\ WF_vars(Serve)

Spec == Init /\ [][Next]_vars /\ Fairness

-----------------------------------------------------------------------------
(***************************************************************************)
(* Properties.                                                             *)
(***************************************************************************)
\* What receive makes of a line.
Text == Seq(Word \ {CR, Newline})
Lines == [tag : {<<t>> : t \in Tags}, data : Text]
Messages == [tag : {<<t>> : t \in Tags \cup {""}}, data : OneLine]
Sayings == [from : Text, text : Text]

TypeOK ==
  /\ cpc \in [Clients -> ClientPC]
  /\ \A c \in Clients : argv[c] \in Args[c]
  /\ typed \in [Clients -> 0 .. MaxTyped]
  /\ asked \in [Clients -> Messages]
  /\ screen \in [Clients -> Seq(Sayings)]
  /\ up \in [Clients -> Seq(Lines)]
  /\ down \in [Clients -> Seq(Lines)]
  /\ server \in {"started", "listening", "ended"}
  /\ wpc \in [Clients -> WorkerPC]
  /\ username \in [Clients -> Text]
  /\ room \in [Clients -> Text \cup {Null}]
  /\ queue \in [Clients -> Seq(Text)]
  /\ told \in [Receivers -> Seq(Sayings)]

Waiting(c) == cpc[c] \in {"login_sent", "join_sent", "await"}

\* The answers the server has to a message: their tag and their text.
Answers(m) ==
  CASE m.tag[1] \in {"slogin", "rlogin"} -> {<<"ok", "Login successful">>}
    [] m.tag[1] = "join"    -> {<<"ok", "Joined Room.">>, <<"ok", "Join successful">>}
    [] m.tag[1] = "sendall" -> {<<"ok", "Message sent.">>,
                                <<"err", "Error: Not in a room. JOIN first.">>}
    [] m.tag[1] = "leave"   -> {<<"ok", "Left current rooom.">>,
                                <<"err", "Error: Not in a room.">>}

\* Client and server stay in step: while a client waits there is one line
\* between them, its message or the answer to that very message, and when it
\* does not wait there is none.  So no answer is taken for another's.  (With a
\* newline in a name, which ProtocolAssumption excludes, it would be.)
InStep ==
  \A c \in Clients :
    /\ cpc[c] \in {"login", "join", "prompt"} => up[c] = <<>> /\ down[c] = <<>>
    /\ Waiting(c) /\ wpc[c] # "done" =>
         (Len(up[c]) = 1 /\ down[c] = <<>>) \/ (up[c] = <<>> /\ down[c] # <<>>)
    /\ Waiting(c) /\ down[c] # <<>> =>
         LET m == Head(down[c]) IN <<m.tag[1], m.data[1]>> \in Answers(asked[c])

\* The receiver's loops end at two colons.
Stops(data) == Find(data, Find(data, 1, {Colon}) + 1, {Colon}) <= Len(data)

\* A delivery has the two colons at which the receiver's loops end, whatever the
\* names and the text contain.
ParseStops ==
  \A c \in Receivers : \A m \in ToSet(down[c]) : m.tag = <<"delivery">> => Stops(m.data)

\* The k-th thing said in c's room, as a delivery; those of the first n that were
\* said under another name than c's and that send lets through; and the how manieth
\* of these the k-th is.
Delivery(c, k) == Payload(room[c], told[c][k].from, told[c][k].text)
Foreign(c, k) == told[c][k].from # username[c]
Deliverable(c, n) ==
  {k \in 1 .. n : Foreign(c, k) /\ Fits(Msg("delivery", Delivery(c, k)))}
Nth(c, k) == Cardinality(Deliverable(c, k))

IsPlain(name) == Colon \notin ToSet(name)

\* A receiver prints what was said in its room since it joined, in that order,
\* with who said it and all of the text, colons included, but for two things.  What
\* was said under the receiver's own name is left out, whoever said it: room.cpp:35
\* skips more than room.cpp:31 ("every (receiver) User in the room") speaks of.  And
\* what is too long as a delivery is left out, although its sender was told "Message
\* sent.".  (Where a name has a colon in it, the line is there and is taken apart in
\* another place.)
PrintsWhatWasSaid ==
  \A c \in Receivers :
    /\ Len(screen[c]) <= Nth(c, Len(told[c]))
    /\ \A k \in Deliverable(c, Len(told[c])) :
         Nth(c, k) <= Len(screen[c]) /\ IsPlain(room[c]) /\ IsPlain(told[c][k].from)
           => screen[c][Nth(c, k)] = told[c][k]

\* A client that waits for an answer gets one, or ends with its connection.
AnswerComes == \A c \in Clients : Waiting(c) ~> ~Waiting(c)

\* What was said in a receiver's room under another name, and is not too long, is
\* printed, if neither the receiver nor the server ends.
Owed(c) == Nth(c, Len(told[c])) > Len(screen[c])

PrintedInTheEnd ==
  \A c \in Receivers : Owed(c) ~> ~Owed(c) \/ cpc[c] = "ended" \/ server = "ended"
=============================================================================
