----------------------------- MODULE Connection -----------------------------
(***************************************************************************)
(* One direction of a connection of csf_assign05, from Connection::send at *)
(* one end to Connection::receive at the other (connection.cpp), over the  *)
(* calls of csapp.c in module Rio.  The end that writes may also be a      *)
(* program without a Connection, such as the testers' netcat, which writes *)
(* lines of its own.                                                       *)
(*                                                                         *)
(* A character is one member of a text: MAX_LEN is a handful here.         *)
(***************************************************************************)
EXTENDS Rio

CONSTANTS
  Colon, CR,
  MAX_LEN,
  Messages,      \* what send may be called with
  Leftovers      \* what buf, on the stack of receive, may hold before it is written

INSTANCE Message WITH Size <- Len

ASSUME ConnectionAssumption ==
  /\ MAX_LEN \in Nat /\ maxlen = MAX_LEN + 2
  /\ {Colon, CR} \subseteq Char /\ Colon # Newline
  /\ Messages \subseteq [tag : Seq(Char), data : Seq(Char)]
  /\ Leftovers \subseteq [0 .. maxlen - 1 -> Char \cup {Junk}]

\* Tags are words of message.h.  Data have no newline: they are from getline or
\* receive, or an argument of one line.  (One case is left out: a login line without
\* a colon is answered under whatever tag receive made of it.)
ASSUME PlainAssumption ==
  \A m \in Messages :
    {Colon, Newline} \cap ToSet(m.tag) = {} /\ Newline \notin ToSet(m.data)

VARIABLES
  writer,        \* "connection", or "other" for a program without one
  accepted,      \* history: the messages send has begun to write
  sendResult,    \* m_last_result of the end that writes
  got,           \* history: how many messages receive has returned
  msg,           \* the last of them
  recvResult     \* m_last_result of the end that reads

sendVars == <<writer, accepted, sendResult>>
recvVars == <<got, msg, recvResult>>
vars == <<rioRunVars, sendVars, recvVars>>

Result == {"SUCCESS", "EOF_OR_ERROR", "INVALID_MSG"}

ConnInit ==
  /\ Init
  /\ writer \in {"connection", "other"}
  /\ accepted = <<>>
  /\ sendResult = "SUCCESS"
  /\ got = 0
  /\ msg = [tag |-> <<>>, data |-> <<>>]
  /\ recvResult = "SUCCESS"

-----------------------------------------------------------------------------
(***************************************************************************)
(* Connection::send.                                                       *)
(***************************************************************************)

\* The message is too long: nothing is written.
SendRefused(m) ==
  /\ writer = "connection"
  /\ wpc \in {"idle", "broken"}
  /\ ~Fits(m)
  /\ sendResult' = "INVALID_MSG"
  /\ UNCHANGED <<rioRunVars, writer, accepted, recvVars>>

\* Mutant: the newline is not counted.
SendBeginOneMore(m) ==
  /\ writer = "connection"
  /\ Len(Encode(m)) <= MAX_LEN + 1
  /\ Write(Encode(m))
  /\ accepted' = Append(accepted, m)
  /\ UNCHANGED <<writer, sendResult, recvVars>>

SendBegin(m) ==
  /\ writer = "connection"
  /\ Fits(m)
  /\ Write(Encode(m))
  /\ accepted' = Append(accepted, m)
  /\ UNCHANGED <<writer, sendResult, recvVars>>

\* rio_writen goes on, and send returns when it does.
SendWrites ==
  /\ Sending
  /\ sendResult' = CASE wpc' = "idle" -> "SUCCESS"
                     [] wpc' = "broken" -> "EOF_OR_ERROR"
                     [] OTHER -> sendResult
  /\ UNCHANGED <<writer, accepted, recvVars>>

\* send is called again after it failed: so does write.
SendAgain(m) ==
  /\ wpc = "broken"
  /\ Fits(m)
  /\ sendResult' = "EOF_OR_ERROR"
  /\ UNCHANGED <<rioRunVars, writer, accepted, recvVars>>

\* Another program writes what it likes.
OtherWrites ==
  /\ writer = "other"
  /\ \E bytes \in Writes : Write(bytes)
  /\ UNCHANGED <<sendVars, recvVars>>

-----------------------------------------------------------------------------
(***************************************************************************)
(* Connection::receive.  All callers stop calling it when it has failed.   *)
(***************************************************************************)
ReceiveBegin ==
  /\ recvResult = "SUCCESS"
  /\ ReadLine
  /\ UNCHANGED <<sendVars, recvVars>>

\* buf as the loops find it, where it held the characters of left before.
Buffer(left) ==
  [i \in 1 .. maxlen |-> IF buf[i - 1] = Junk THEN left[i - 1] ELSE buf[i - 1]]

\* Mutant: the length of the line is not looked at.
ReceiveEndUnchecked ==
  /\ \E left \in Leftovers : msg' = Decode(Buffer(left)')
  /\ recvResult' = IF ret' > 0 THEN "SUCCESS" ELSE "EOF_OR_ERROR"
  /\ got' = IF ret' > 0 THEN got + 1 ELSE got

\* What receive does when rio_readlineb has returned.
ReceiveEnd ==
  IF ret' > MAX_LEN
  THEN /\ recvResult' = "INVALID_MSG"
       /\ UNCHANGED <<got, msg>>
  ELSE /\ \E left \in Leftovers : msg' = Decode(Buffer(left)')
       /\ recvResult' = IF ret' > 0 THEN "SUCCESS" ELSE "EOF_OR_ERROR"
       /\ got' = IF ret' > 0 THEN got + 1 ELSE got

ReceiveReads ==
  /\ Reading
  /\ IF rpc' = "idle" THEN ReceiveEnd ELSE UNCHANGED recvVars
  /\ UNCHANGED sendVars

-----------------------------------------------------------------------------
\* What the kernel and the two programs do to the connection, and what they do
\* not owe to each other.
Environment ==
  /\ CloseWriter \/ CloseReader \/ Reset \/ Interrupted
  /\ UNCHANGED <<sendVars, recvVars>>

ConnNext ==
  \/ \E m \in Messages : SendRefused(m) \/ SendBegin(m) \/ SendAgain(m)
  \/ SendWrites \/ OtherWrites
  \/ ReceiveBegin \/ ReceiveReads
  \/ Environment

\* read returns once there is something to return, the end of the file included.
ConnSpec == ConnInit /\ [][ConnNext]_vars /\ WF_vars(ReceiveReads)

-----------------------------------------------------------------------------
(***************************************************************************)
(* Properties.                                                             *)
(***************************************************************************)
ConnTypeOK ==
  /\ TypeOK
  /\ writer \in {"connection", "other"}
  /\ accepted \in Seq(Messages)
  /\ sendResult \in Result /\ recvResult \in Result
  /\ got \in Nat
  /\ msg.tag \in Seq(Cell) /\ msg.data \in Seq(Cell)

\* receive has just returned a message, from the line of length ret at start.
Received == rpc = "idle" /\ got > 0 /\ recvResult = "SUCCESS"
Line == SubSeq(stream, start + 1, start + ret)
IsWhole == Last(Line) = Newline

\* A carriage return ends the data of what is received.
AsReceived(m) == [m EXCEPT !.data = SubSeq(@, 1, Find(@, 1, {CR}) - 1)]

\* What one Connection sends the other receives: in order, nothing doubled or
\* left out, and equal up to a carriage return, wherever the kernel cut the
\* bytes.  Only the last message may be cut, when its sender went away.
RoundTrip ==
  Received /\ IsWhole /\ writer = "connection" =>
    /\ got <= Len(accepted)
    /\ msg = AsReceived(accepted[got])

\* receive never says INVALID_MSG of a message that send let through: the two
\* ends agree on what MAX_LEN counts.
SendIsNeverRefused == writer = "connection" => recvResult # "INVALID_MSG"

\* A line is received whole or not at all, if its sender does not go away in the
\* middle of it: the rest of a line too long is not taken for the next message.
NeverCut == Received => IsWhole \/ (conn # "up" /\ Taken = Written)

\* What receive returns of a line with a colon depends on the line alone, and
\* not on what buf held before.
DecodesLine == Received /\ IsWhole /\ Colon \in ToSet(Line) => msg = Decode(Line)

\* A line that was written, or the end of the connection, does not leave receive
\* waiting for the rest of a bufferful.
LineIsThere ==
  \/ conn # "up"
  \/ \E i \in start + 1 .. Written : stream[i] = Newline \/ i = start + maxlen - 1

LineReturned == (rpc = "read" /\ LineIsThere) ~> (rpc # "read")

-----------------------------------------------------------------------------
(***************************************************************************)
(* The inductive invariant behind SendIsNeverRefused and NeverCut.         *)
(***************************************************************************)

\* From wherever one looks at what a Connection has sent, the next newline is
\* at most MAX_LEN characters away.
LinesFit ==
  \A i \in 1 .. Len(stream) :
    \E j \in i .. Len(stream) : j < i + MAX_LEN /\ stream[j] = Newline

ConnInv ==
  /\ RioInv
  /\ writer = "connection" => LinesFit
  /\ SendIsNeverRefused
  /\ Received => ret \in 1 .. MAX_LEN

(***************************************************************************)
(* The inductive invariant behind RoundTrip.                               *)
(***************************************************************************)

\* The messages accepted so far are what was written, and b[k] is where the k-th
\* ends.
Ends(b) ==
  /\ b[0] = 0 /\ b[Len(accepted)] = Len(stream)
  /\ \A k \in 1 .. Len(accepted) :
       LET line == Encode(accepted[k])
       IN  /\ b[k] = b[k - 1] + Len(line)
           /\ \A i \in 1 .. Len(line) : stream[b[k - 1] + i] = line[i]

\* receive is between two messages, or behind the cut one that was the last.
Between(pos, b) == pos = b[got] \/ (conn # "up" /\ pos = Written)

RoundInv ==
  writer = "connection" =>
    /\ got \in 0 .. Len(accepted)
    /\ \E b \in [0 .. Len(accepted) -> 0 .. Len(stream)] :
         /\ Ends(b)
         /\ rpc = "read" => Between(start, b)
         /\ rpc = "idle" /\ recvResult = "SUCCESS" => Between(Taken, b)
    /\ Received /\ IsWhole => Line = Encode(accepted[got])
=============================================================================
