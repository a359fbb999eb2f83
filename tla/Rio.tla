--------------------------------- MODULE Rio ---------------------------------
(***************************************************************************)
(* One direction of a connection of csf_assign05, as csapp.c sees it: a    *)
(* program calls rio_writen, the other end calls rio_readlineb, and the    *)
(* kernel takes and hands out the bytes in pieces of any size.             *)
(*                                                                         *)
(* The programs install no signal handler, so write is not interrupted     *)
(* half way; read is allowed to be, since rio_read provides for it.        *)
(***************************************************************************)
EXTENDS Integers, Sequences

CONSTANTS
  Char,          \* what may be written
  Newline,
  Nul, Junk,     \* the terminator rio_readlineb adds; what was never written to
  Writes,        \* what rio_writen may be called with
  RIO_BUFSIZE,
  maxlen,        \* the size of the buffer rio_readlineb is called with
  Capacity,      \* how many bytes the kernel holds between the two ends
  MaxBytes       \* bound: rio_writen is called for at most so many bytes

ASSUME RioAssumption ==
  /\ Newline \in Char /\ Nul \notin Char /\ Junk \notin Char
  /\ Writes \subseteq Seq(Char)
  /\ RIO_BUFSIZE \in Nat \ {0}
  /\ maxlen \in Nat /\ maxlen >= 2
  /\ Capacity \in Nat \ {0}
  /\ MaxBytes \in Nat

VARIABLES
  \* The end that writes.
  stream,        \* history: the bytes rio_writen was called with, one call's after another's
  nleft,         \* how many of them are still to be given to the kernel
  wpc,
  \* The connection.
  conn,          \* up, shut (the writer has closed its end) or reset
  fetched,       \* how many bytes read has taken out of it
  \* The end that reads: rio_t ...
  rio_cnt, rio_bufptr, rio_buf,
  \* ... and rio_readlineb.
  rpc, n, buf,
  ret,           \* what it returned last
  start          \* history: how many bytes it had returned or dropped before

writerVars == <<stream, nleft, wpc>>
rioVars == <<rio_cnt, rio_bufptr, rio_buf>>
lineVars == <<rpc, n, buf, ret, start>>
rioRunVars == <<writerVars, conn, fetched, rioVars, lineVars>>

Cell == Char \cup {Nul, Junk}

TypeOK ==
  /\ stream \in Seq(Char)
  /\ nleft \in 0 .. Len(stream)
  /\ wpc \in {"idle", "write", "broken", "closed"}
  /\ conn \in {"up", "shut", "reset"}
  /\ fetched \in Nat
  /\ rio_cnt \in -1 .. RIO_BUFSIZE
  /\ rio_bufptr \in 0 .. RIO_BUFSIZE
  /\ rio_buf \in [0 .. RIO_BUFSIZE - 1 -> Cell]
  /\ rpc \in {"idle", "read", "closed"}
  /\ n \in 1 .. maxlen - 1
  /\ buf \in [0 .. maxlen - 1 -> Cell]
  /\ ret \in -1 .. maxlen - 1
  /\ start \in Nat

\* rio_readinitb.
InitBuffer ==
  /\ rio_cnt = 0
  /\ rio_bufptr = 0
  /\ rio_buf = [i \in 0 .. RIO_BUFSIZE - 1 |-> Junk]

Init ==
  /\ stream = <<>>
  /\ nleft = 0
  /\ wpc = "idle"
  /\ conn = "up"
  /\ fetched = 0
  /\ InitBuffer
  /\ rpc = "idle"
  /\ n = 1
  /\ buf = [i \in 0 .. maxlen - 1 |-> Junk]
  /\ ret = 0
  /\ start = 0

-----------------------------------------------------------------------------
\* How many bytes the kernel was given, and how many rio_read has passed on.
Written == Len(stream) - nleft
Unread == IF rio_cnt > 0 THEN rio_cnt ELSE 0
Taken == fetched - Unread

(***************************************************************************)
(* rio_writen.                                                             *)
(***************************************************************************)
Write(bytes) ==
  /\ wpc = "idle"
  /\ Len(stream) + Len(bytes) <= MaxBytes
  /\ stream' = stream \o bytes
  /\ nleft' = Len(bytes)
  /\ wpc' = "write"
  /\ UNCHANGED <<conn, fetched, rioVars, lineVars>>

\* write takes some of the bytes, or all of them, as there is room.
WriteSome ==
  /\ wpc = "write"
  /\ conn = "up"
  /\ \E nwritten \in 1 .. nleft :
       /\ Written + nwritten <= fetched + Capacity
       /\ nleft' = nleft - nwritten
       /\ wpc' = IF nleft' = 0 THEN "idle" ELSE "write"
  /\ UNCHANGED <<stream, conn, fetched, rioVars, lineVars>>

\* write fails, now and from now on, when the other end is gone.
WriteFails ==
  /\ wpc = "write"
  /\ conn = "reset" \/ rpc = "closed"
  /\ wpc' = "broken"
  /\ UNCHANGED <<stream, nleft, conn, fetched, rioVars, lineVars>>

\* The program that writes closes its end, or ends in the middle of a call.
CloseWriter ==
  /\ wpc # "closed"
  /\ wpc' = "closed"
  /\ conn' = IF conn = "up" THEN "shut" ELSE conn
  /\ UNCHANGED <<stream, nleft, fetched, rioVars, lineVars>>

\* The connection is reset.
Reset ==
  /\ conn' = "reset"
  /\ conn # "reset"
  /\ UNCHANGED <<writerVars, fetched, rioVars, lineVars>>

-----------------------------------------------------------------------------
(***************************************************************************)
(* rio_readlineb, with the rio_read it calls for every byte.               *)
(***************************************************************************)
\* Mutant: rio_readinitb is called for every line.
ReadLineAnew ==
  /\ rpc = "idle"
  /\ rpc' = "read"
  /\ n' = 1
  /\ buf' = [i \in 0 .. maxlen - 1 |-> Junk]
  /\ start' = fetched
  /\ rio_cnt' = 0
  /\ UNCHANGED <<writerVars, conn, fetched, rio_bufptr, rio_buf, ret>>

ReadLine ==
  /\ rpc = "idle"
  /\ rpc' = "read"
  /\ n' = 1
  /\ buf' = [i \in 0 .. maxlen - 1 |-> Junk]
  /\ start' = Taken
  /\ UNCHANGED <<writerVars, conn, fetched, rioVars, ret>>

\* rio_read is in its loop: there is nothing in its buffer.
Refilling == rpc = "read" /\ rio_cnt <= 0

\* read returns some of the bytes that have arrived.
Refill ==
  /\ Refilling
  /\ \E cnt \in 1 .. RIO_BUFSIZE :
       /\ fetched + cnt <= Written
       /\ rio_buf' = [i \in 0 .. RIO_BUFSIZE - 1 |->
                        IF i < cnt THEN stream[fetched + i + 1] ELSE rio_buf[i]]
       /\ rio_cnt' = cnt
       /\ rio_bufptr' = 0
       /\ fetched' = fetched + cnt
  /\ UNCHANGED <<writerVars, conn, lineVars>>

\* read returns -1 and errno is EINTR: rio_read calls it again.
Interrupted ==
  /\ Refilling
  /\ rio_cnt' = -1
  /\ UNCHANGED <<writerVars, conn, fetched, rio_bufptr, rio_buf, lineVars>>

\* read returns -1 for another reason, and rio_readlineb does, too.
ReadError ==
  /\ Refilling
  /\ conn = "reset"
  /\ rio_cnt' = -1
  /\ ret' = -1
  /\ rpc' = "idle"
  /\ UNCHANGED <<writerVars, conn, fetched, rio_bufptr, rio_buf, n, buf, start>>

\* Mutant: read is called again.
ReadEofIgnored ==
  /\ Refilling
  /\ conn = "shut"
  /\ fetched = Written
  /\ rio_cnt' = 0
  /\ UNCHANGED <<writerVars, conn, fetched, rio_bufptr, rio_buf, lineVars>>

\* Mutant: the loop's counter is returned.
ReadEofOneMore ==
  /\ Refilling
  /\ conn = "shut"
  /\ fetched = Written
  /\ rio_cnt' = 0
  /\ ret' = n
  /\ buf' = [buf EXCEPT ![n - 1] = Nul]
  /\ rpc' = "idle"
  /\ UNCHANGED <<writerVars, conn, fetched, rio_bufptr, rio_buf, n, start>>

\* read returns 0.  What was read of a line is returned first.
ReadEof ==
  /\ Refilling
  /\ conn = "shut"
  /\ fetched = Written
  /\ rio_cnt' = 0
  /\ ret' = n - 1
  /\ buf' = IF n = 1 THEN buf ELSE [buf EXCEPT ![n - 1] = Nul]
  /\ rpc' = "idle"
  /\ UNCHANGED <<writerVars, conn, fetched, rio_bufptr, rio_buf, n, start>>

\* Mutant: the space for the terminator is used for a byte.
TakeByteTooFar ==
  /\ rpc = "read"
  /\ rio_cnt > 0
  /\ LET c == rio_buf[rio_bufptr]
         last == c = Newline \/ n = maxlen
     IN  /\ buf' = [buf EXCEPT ![n - 1] = c]
         /\ IF last THEN rpc' = "idle" /\ ret' = n /\ n' = n
                    ELSE n' = n + 1 /\ UNCHANGED <<rpc, ret>>
  /\ rio_cnt' = rio_cnt - 1
  /\ rio_bufptr' = rio_bufptr + 1
  /\ UNCHANGED <<writerVars, conn, fetched, rio_buf, start>>

\* rio_read copies one byte; a newline, or a full buffer, ends the line.
TakeByte ==
  /\ rpc = "read"
  /\ rio_cnt > 0
  /\ LET c == rio_buf[rio_bufptr]
         last == c = Newline \/ n = maxlen - 1
     IN  IF last
         THEN /\ buf' = [buf EXCEPT ![n - 1] = c, ![n] = Nul]
              /\ rpc' = "idle"
              /\ ret' = n
              /\ UNCHANGED n
         ELSE /\ buf' = [buf EXCEPT ![n - 1] = c]
              /\ n' = n + 1
              /\ UNCHANGED <<rpc, ret>>
  /\ rio_cnt' = rio_cnt - 1
  /\ rio_bufptr' = rio_bufptr + 1
  /\ UNCHANGED <<writerVars, conn, fetched, rio_buf, start>>

\* The program that reads closes its end, or ends.
CloseReader ==
  /\ rpc # "closed"
  /\ rpc' = "closed"
  /\ UNCHANGED <<writerVars, conn, fetched, rioVars, n, buf, ret, start>>

-----------------------------------------------------------------------------
Sending == WriteSome \/ WriteFails
Reading == Refill \/ ReadError \/ ReadEof \/ TakeByte

Next ==
  \/ \E bytes \in Writes : Write(bytes)
  \/ Sending \/ CloseWriter \/ Reset
  \/ ReadLine \/ Reading \/ Interrupted \/ CloseReader

Spec == Init /\ [][Next]_rioRunVars

-----------------------------------------------------------------------------
(***************************************************************************)
(* Properties.                                                             *)
(***************************************************************************)

\* What rio_readlineb returns is the next line of what was written, however the
\* bytes were cut on their way: up to a newline, or as much as fits, or the rest
\* when the writer has closed.  Nothing is left out before it or taken after it.
ReturnsLine ==
  rpc = "idle" /\ ret > 0 =>
    /\ Taken = start + ret
    /\ \A i \in 0 .. ret - 1 : buf[i] = stream[start + i + 1]
    /\ \A i \in 0 .. ret - 2 : buf[i] # Newline
    /\ \/ buf[ret - 1] = Newline
       \/ ret = maxlen - 1
       \/ conn # "up" /\ Taken = Written
    /\ buf[ret] = Nul

(***************************************************************************)
(* The inductive invariant behind it.                                      *)
(***************************************************************************)

\* What rio_read holds are the next bytes of the stream.
BufferInv ==
  /\ fetched <= Written
  /\ Unread <= fetched
  /\ rio_bufptr + Unread <= RIO_BUFSIZE
  /\ \A i \in 0 .. Unread - 1 : rio_buf[rio_bufptr + i] = stream[Taken + i + 1]

\* What rio_readlineb has stored so far is the beginning of a line.
LineInv ==
  rpc = "read" =>
    /\ Taken = start + n - 1
    /\ \A i \in 0 .. n - 2 : buf[i] = stream[start + i + 1] /\ buf[i] # Newline

RioInv ==
  /\ TypeOK
  /\ nleft > 0 => wpc # "idle"
  /\ wpc = "closed" => conn # "up"
  /\ conn = "shut" => wpc = "closed"
  /\ BufferInv
  /\ LineInv
  /\ ReturnsLine
=============================================================================
