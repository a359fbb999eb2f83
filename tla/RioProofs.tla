------------------------------ MODULE RioProofs ------------------------------
(***************************************************************************)
(* Proofs about module Rio, for buffers of every size and every way the    *)
(* kernel may cut the bytes.                                               *)
(***************************************************************************)
EXTENDS Rio, TLAPS

USE RioAssumption DEF RioAssumption

\* What the definitions of Rio come to where the invariant holds.
LEMMA Counts ==
  ASSUME RioInv
  PROVE  /\ fetched \in Nat /\ start \in Nat /\ Len(stream) \in Nat
         /\ Written \in Nat /\ Written <= Len(stream)
         /\ Unread \in 0 .. RIO_BUFSIZE
         /\ Taken \in Nat /\ Taken + Unread = fetched /\ fetched <= Written
BY DEF RioInv, TypeOK, BufferInv, Written, Unread, Taken

\* A call of rio_writen leaves the stream as it was, up to what was written.
LEMMA Appended ==
  ASSUME TypeOK, NEW bytes \in Seq(Char)
  PROVE  /\ stream \o bytes \in Seq(Char)
         /\ Len(stream \o bytes) = Len(stream) + Len(bytes)
         /\ \A i \in 1 .. Len(stream) : (stream \o bytes)[i] = stream[i]
BY DEF TypeOK

\* What happens at the other end takes nothing from the reader: the bytes it has
\* read stay the bytes that were written there.
LEMMA OtherEnd ==
  ASSUME RioInv,
         UNCHANGED <<fetched, rio_cnt, rio_bufptr, rio_buf, rpc, n, buf, ret, start>>,
         Written' \in Nat, Written <= Written',
         \A i \in 1 .. Written : stream'[i] = stream[i],
         conn # "up" => conn' # "up" /\ Written' = Written
  PROVE  BufferInv' /\ LineInv' /\ ReturnsLine'
<1>1. Unread' = Unread /\ Taken' = Taken
  BY DEF Unread, Taken
<1>2. BufferInv'
  <2>1. BufferInv
    BY DEF RioInv
  <2>2. \A i \in 0 .. Unread - 1 : Taken + i + 1 \in 1 .. Written
    BY Counts
  <2> QED
    BY <1>1, <2>1, <2>2, Counts DEF BufferInv
<1>3. LineInv'
  <2> SUFFICES ASSUME rpc = "read" PROVE LineInv'
    BY DEF LineInv
  <2>1. n \in Nat /\ Taken = start + n - 1
    BY DEF RioInv, TypeOK, LineInv
  <2>2. \A i \in 0 .. n - 2 : start + i + 1 \in 1 .. Written
    BY <2>1, Counts
  <2>3. LineInv
    BY DEF RioInv
  <2> QED
    BY <1>1, <2>2, <2>3 DEF LineInv
<1>4. ReturnsLine'
  <2> SUFFICES ASSUME rpc = "idle", ret > 0 PROVE ReturnsLine'
    BY DEF ReturnsLine
  <2>1. ReturnsLine
    BY DEF RioInv
  <2>2. ret \in Nat /\ Taken = start + ret
    BY <2>1 DEF RioInv, TypeOK, ReturnsLine
  <2>3. \A i \in 0 .. ret - 1 : start + i + 1 \in 1 .. Written
    BY <2>2, Counts
  <2> QED
    BY <1>1, <2>1, <2>3 DEF ReturnsLine
<1> QED
  BY <1>2, <1>3, <1>4

LEMMA InitInv == Init => RioInv
<1> SUFFICES ASSUME Init PROVE RioInv
  OBVIOUS
<1>1. TypeOK
  BY DEF Init, InitBuffer, TypeOK, Cell
<1>2. BufferInv
  BY DEF Init, InitBuffer, BufferInv, Written, Unread, Taken
<1> QED
  BY <1>1, <1>2 DEF Init, RioInv, LineInv, ReturnsLine

-----------------------------------------------------------------------------
(***************************************************************************)
(* The end that writes, and the connection.                                *)
(***************************************************************************)
LEMMA WriteInv ==
  ASSUME RioInv, NEW bytes \in Seq(Char), Write(bytes)
  PROVE  RioInv'
<1>2. nleft = 0 /\ stream' = stream \o bytes /\ nleft' = Len(bytes) /\ wpc' = "write"
  BY DEF RioInv, TypeOK, Write
<1>3. UNCHANGED <<conn, fetched, rio_cnt, rio_bufptr, rio_buf, rpc, n, buf, ret, start>>
  BY DEF Write, rioVars, lineVars
<1>4. TypeOK'
  BY <1>2, <1>3, Appended DEF RioInv, TypeOK
<1>5. Written' = Written
  BY <1>2, <1>3, Appended DEF RioInv, TypeOK, Written
<1>6. \A i \in 1 .. Written : stream'[i] = stream[i]
  BY <1>2, Appended, Counts DEF RioInv
<1>7. BufferInv' /\ LineInv' /\ ReturnsLine'
  BY <1>3, <1>5, <1>6, OtherEnd, Counts
<1> QED
  BY <1>2, <1>3, <1>4, <1>7 DEF RioInv, Write

LEMMA SendingInv ==
  ASSUME RioInv, Sending
  PROVE  RioInv'
<1>1. UNCHANGED <<stream, conn, fetched, rio_cnt, rio_bufptr, rio_buf,
                  rpc, n, buf, ret, start>>
  BY DEF Sending, WriteSome, WriteFails, rioVars, lineVars
<1>2. CASE WriteSome
  <2> PICK nwritten \in 1 .. nleft :
         nleft' = nleft - nwritten /\ wpc' = IF nleft' = 0 THEN "idle" ELSE "write"
    BY <1>2 DEF WriteSome
  <2>1. wpc = "write" /\ conn = "up"
    BY <1>2 DEF WriteSome
  <2>2. TypeOK'
    BY <1>1, <2>1 DEF RioInv, TypeOK
  <2>3. Written' \in Nat /\ Written <= Written'
    BY <1>1, Counts DEF RioInv, TypeOK, Written
  <2>4. BufferInv' /\ LineInv' /\ ReturnsLine'
    BY <1>1, <2>1, <2>3, OtherEnd
  <2> QED
    BY <1>1, <2>1, <2>2, <2>4 DEF RioInv, TypeOK
<1>3. CASE WriteFails
  <2>1. wpc = "write" /\ wpc' = "broken" /\ nleft' = nleft
    BY <1>3 DEF WriteFails
  <2>2. TypeOK' /\ Written' = Written
    BY <1>1, <2>1 DEF RioInv, TypeOK, Written
  <2>3. BufferInv' /\ LineInv' /\ ReturnsLine'
    BY <1>1, <2>2, OtherEnd, Counts
  <2> QED
    BY <1>1, <2>1, <2>2, <2>3 DEF RioInv
<1> QED
  BY <1>2, <1>3 DEF Sending

LEMMA ConnectionInv ==
  ASSUME RioInv, CloseWriter \/ Reset
  PROVE  RioInv'
<1>1. UNCHANGED <<stream, nleft, fetched, rio_cnt, rio_bufptr, rio_buf,
                  rpc, n, buf, ret, start>>
  BY DEF CloseWriter, Reset, writerVars, rioVars, lineVars
<1>2. TypeOK' /\ Written' = Written /\ (conn # "up" => conn' # "up")
  BY <1>1 DEF RioInv, TypeOK, Written, CloseWriter, Reset, writerVars
<1>3. BufferInv' /\ LineInv' /\ ReturnsLine'
  BY <1>1, <1>2, OtherEnd, Counts
<1> QED
  BY <1>1, <1>2, <1>3 DEF RioInv, TypeOK, CloseWriter, Reset, writerVars

-----------------------------------------------------------------------------
(***************************************************************************)
(* The end that reads.                                                     *)
(***************************************************************************)
LEMMA ReadLineInv ==
  ASSUME RioInv, ReadLine
  PROVE  RioInv'
<1>1. UNCHANGED <<stream, nleft, wpc, conn, fetched, rio_cnt, rio_bufptr, rio_buf, ret>>
  BY DEF ReadLine, writerVars, rioVars
<1>2. Written' = Written /\ Unread' = Unread /\ Taken' = Taken
  BY <1>1 DEF Written, Unread, Taken
<1>3. TypeOK'
  BY <1>1, Counts DEF ReadLine, RioInv, TypeOK, Cell
<1>4. BufferInv'
  BY <1>1, <1>2 DEF RioInv, BufferInv
<1>5. LineInv' /\ ReturnsLine'
  BY <1>2, Counts DEF ReadLine, LineInv, ReturnsLine
<1> QED
  BY <1>1, <1>3, <1>4, <1>5 DEF RioInv

LEMMA CloseReaderInv ==
  ASSUME RioInv, CloseReader
  PROVE  RioInv'
<1>1. UNCHANGED <<stream, nleft, wpc, conn, fetched, rio_cnt, rio_bufptr, rio_buf,
                  n, buf, ret, start>>
  BY DEF CloseReader, writerVars, rioVars
<1>2. Written' = Written /\ Unread' = Unread /\ Taken' = Taken
  BY <1>1 DEF Written, Unread, Taken
<1>3. TypeOK'
  BY <1>1 DEF CloseReader, RioInv, TypeOK
<1>4. BufferInv'
  BY <1>1, <1>2 DEF RioInv, BufferInv
<1>5. LineInv' /\ ReturnsLine'
  BY DEF CloseReader, LineInv, ReturnsLine
<1> QED
  BY <1>1, <1>3, <1>4, <1>5 DEF RioInv

\* read was called and rio_readlineb goes on, with a buffer of new bytes or none.
LEMMA RefillInv ==
  ASSUME RioInv, Refill \/ Interrupted
  PROVE  RioInv'
<1>1. UNCHANGED <<stream, nleft, wpc, conn, rpc, n, buf, ret, start>>
  BY DEF Refill, Interrupted, writerVars, lineVars
<1>2. rpc = "read" /\ Unread = 0 /\ Taken = fetched
  BY Counts DEF Refill, Interrupted, Refilling, RioInv, TypeOK, Unread, Taken
<1>3. Written' = Written
  BY <1>1 DEF Written
<1>4. CASE Refill
  <2> PICK cnt \in 1 .. RIO_BUFSIZE :
         /\ fetched + cnt <= Written
         /\ rio_buf' = [i \in 0 .. RIO_BUFSIZE - 1 |->
                          IF i < cnt THEN stream[fetched + i + 1] ELSE rio_buf[i]]
         /\ rio_cnt' = cnt
         /\ rio_bufptr' = 0
         /\ fetched' = fetched + cnt
    BY <1>4 DEF Refill
  <2>1. Unread' = cnt /\ Taken' = Taken
    BY <1>2, Counts DEF Unread, Taken
  <2>2. \A i \in 0 .. cnt - 1 : stream[fetched + i + 1] \in Char
    BY Counts DEF RioInv, TypeOK
  <2>3. rio_buf' \in [0 .. RIO_BUFSIZE - 1 -> Cell]
    BY <2>2 DEF RioInv, TypeOK, Cell
  <2>4. TypeOK'
    <3>1. fetched' \in Nat /\ rio_cnt' \in -1 .. RIO_BUFSIZE /\ rio_bufptr' \in 0 .. RIO_BUFSIZE
      BY Counts
    <3>2. n' \in 1 .. maxlen - 1 /\ buf' \in [0 .. maxlen - 1 -> Cell]
          /\ ret' \in -1 .. maxlen - 1 /\ start' \in Nat
      BY <1>1 DEF RioInv, TypeOK
    <3> QED
      BY <1>1, <2>3, <3>1, <3>2 DEF RioInv, TypeOK
  <2>5. BufferInv'
    <3>1. \A i \in 0 .. cnt - 1 : rio_buf'[0 + i] = stream[fetched + i + 1]
      OBVIOUS
    <3>2. fetched' <= Written' /\ cnt <= fetched' /\ rio_bufptr' + cnt <= RIO_BUFSIZE
      BY <1>3, Counts
    <3>3. Taken' + 0 = fetched /\ Unread' - 1 = cnt - 1
      BY <1>2, <2>1, Counts
    <3> QED
      BY <1>1, <1>2, <2>1, <3>1, <3>2 DEF BufferInv
  <2>6. LineInv'
    BY <1>1, <2>1 DEF RioInv, LineInv
  <2> QED
    BY <1>1, <1>2, <2>4, <2>5, <2>6 DEF RioInv, ReturnsLine
<1>5. CASE Interrupted
  <2>1. UNCHANGED <<fetched, rio_bufptr, rio_buf>> /\ rio_cnt' = -1
    BY <1>5 DEF Interrupted
  <2>2. Unread' = 0 /\ Taken' = Taken
    BY <1>2, <2>1, Counts DEF Unread, Taken
  <2>3. TypeOK'
    BY <1>1, <2>1 DEF RioInv, TypeOK
  <2>4. BufferInv'
    BY <1>2, <1>3, <2>1, <2>2, Counts DEF RioInv, TypeOK, BufferInv
  <2>5. LineInv'
    BY <1>1, <2>2 DEF RioInv, LineInv
  <2> QED
    BY <1>1, <1>2, <2>3, <2>4, <2>5 DEF RioInv, ReturnsLine
<1> QED
  BY <1>4, <1>5

\* read says that nothing will come any more, or fails.
LEMMA EndInv ==
  ASSUME RioInv, ReadEof \/ ReadError
  PROVE  RioInv'
<1>1. UNCHANGED <<stream, nleft, wpc, conn, fetched, rio_bufptr, rio_buf, n, start>>
  BY DEF ReadEof, ReadError, writerVars
<1>2. rpc = "read" /\ rpc' = "idle" /\ Unread = 0 /\ Taken = fetched
  BY Counts DEF ReadEof, ReadError, Refilling, RioInv, TypeOK, Unread, Taken
<1>3. Written' = Written /\ Unread' = 0 /\ Taken' = Taken
  BY <1>1, <1>2, Counts DEF ReadEof, ReadError, Written, Unread, Taken
<1>4. n \in 1 .. maxlen - 1 /\ buf \in [0 .. maxlen - 1 -> Cell] /\ maxlen \in Nat
  BY DEF RioInv, TypeOK
<1>5. buf' \in [0 .. maxlen - 1 -> Cell] /\ ret' \in -1 .. maxlen - 1
  BY <1>4 DEF ReadEof, ReadError, Cell
<1>6. TypeOK'
  BY <1>1, <1>2, <1>5 DEF RioInv, TypeOK, ReadEof, ReadError
<1>7. BufferInv'
  BY <1>1, <1>2, <1>3, Counts DEF RioInv, TypeOK, BufferInv
<1>8. ReturnsLine'
  <2>1. CASE ReadError
    BY <2>1 DEF ReadError, ReturnsLine
  <2>2. CASE ReadEof
    <3> SUFFICES ASSUME ret' > 0 PROVE ReturnsLine'
      BY DEF ReturnsLine
    <3>1. /\ conn = "shut" /\ fetched = Written
          /\ ret' = n - 1 /\ n > 1 /\ buf' = [buf EXCEPT ![n - 1] = Nul]
      BY <2>2, <1>4 DEF ReadEof
    <3>2. /\ Taken = start + n - 1
          /\ \A i \in 0 .. n - 2 : buf[i] = stream[start + i + 1] /\ buf[i] # Newline
      BY <1>2 DEF RioInv, LineInv
    <3>3. buf'[n - 1] = Nul /\ \A i \in 0 .. n - 2 : buf'[i] = buf[i]
      BY <1>4, <3>1
    <3>4. Taken' = start' + ret' /\ conn' # "up" /\ Taken' = Written'
      BY <1>1, <1>2, <1>3, <1>4, <3>1, <3>2, Counts
    <3>5. \A i \in 0 .. ret' - 1 : buf'[i] = stream'[start' + i + 1] /\ buf'[i] # Newline
      BY <1>1, <1>4, <3>1, <3>2, <3>3
    <3>6. buf'[ret'] = Nul
      BY <3>1, <3>3
    <3> QED
      BY <1>4, <3>1, <3>4, <3>5, <3>6 DEF ReturnsLine
  <2> QED
    BY <2>1, <2>2
<1> QED
  BY <1>1, <1>2, <1>6, <1>7, <1>8 DEF RioInv, LineInv

\* One byte goes from rio_read's buffer to the line.
LEMMA TakeByteInv ==
  ASSUME RioInv, TakeByte
  PROVE  RioInv'
<1> DEFINE c == rio_buf[rio_bufptr]
           last == c = Newline \/ n = maxlen - 1
<1>1. /\ UNCHANGED <<stream, nleft, wpc, conn, fetched, rio_buf, start>>
      /\ rpc = "read" /\ rio_cnt > 0
      /\ rio_cnt' = rio_cnt - 1 /\ rio_bufptr' = rio_bufptr + 1
  BY DEF TakeByte, writerVars
<1>2. Unread = rio_cnt /\ Unread' = Unread - 1 /\ Taken' = Taken + 1 /\ Written' = Written
  BY <1>1, Counts DEF RioInv, TypeOK, Unread, Taken, Written
<1>3. c = stream[Taken + 1] /\ Taken + 1 \in 1 .. Written /\ rio_bufptr + 1 <= RIO_BUFSIZE
  <2>1. BufferInv /\ 0 \in 0 .. Unread - 1 /\ rio_bufptr \in Nat
    BY <1>1, <1>2, Counts DEF RioInv, TypeOK
  <2>2. rio_buf[rio_bufptr + 0] = stream[Taken + 0 + 1]
    BY <2>1 DEF BufferInv
  <2> QED
    BY <1>1, <1>2, <2>1, <2>2, Counts DEF BufferInv
<1>4. c \in Cell
  BY <1>3, Counts DEF RioInv, TypeOK, Cell
<1>5. n \in 1 .. maxlen - 1 /\ buf \in [0 .. maxlen - 1 -> Cell] /\ maxlen \in Nat
  BY DEF RioInv, TypeOK
<1>6. /\ Taken = start + n - 1
      /\ \A i \in 0 .. n - 2 : buf[i] = stream[start + i + 1] /\ buf[i] # Newline
  BY <1>1 DEF RioInv, LineInv
<1>7. BufferInv'
  <2>1. BufferInv /\ rio_bufptr \in Nat
    BY DEF RioInv, TypeOK
  <2>2. ASSUME NEW i \in 0 .. Unread' - 1
        PROVE  rio_buf'[rio_bufptr' + i] = stream'[Taken' + i + 1]
    <3>1. rio_buf[rio_bufptr + (i + 1)] = stream[Taken + (i + 1) + 1]
      BY <2>1, <1>2, Counts DEF BufferInv
    <3>2. rio_bufptr' + i = rio_bufptr + (i + 1) /\ Taken' + i + 1 = Taken + (i + 1) + 1
      BY <1>1, <1>2, <2>1, Counts
    <3> QED
      BY <1>1, <3>1, <3>2
  <2>3. fetched' <= Written' /\ Unread' <= fetched' /\ rio_bufptr' + Unread' <= RIO_BUFSIZE
    BY <1>1, <1>2, <2>1, Counts DEF BufferInv
  <2> QED
    BY <2>2, <2>3 DEF BufferInv
<1>8. rio_cnt' \in -1 .. RIO_BUFSIZE /\ rio_bufptr' \in 0 .. RIO_BUFSIZE
  BY <1>1, <1>3 DEF RioInv, TypeOK
<1>9. CASE last
  <2>1. /\ buf' = [buf EXCEPT ![n - 1] = c, ![n] = Nul]
        /\ rpc' = "idle" /\ ret' = n /\ n' = n
    BY <1>9 DEF TakeByte
  <2>2. buf' \in [0 .. maxlen - 1 -> Cell]
    BY <1>4, <1>5, <2>1 DEF Cell
  <2>3. TypeOK'
    BY <1>1, <1>5, <1>8, <2>1, <2>2 DEF RioInv, TypeOK
  <2>4. /\ buf'[n] = Nul /\ buf'[n - 1] = c
        /\ \A i \in 0 .. n - 2 : buf'[i] = buf[i]
    BY <1>5, <2>1
  <2>5. Taken' = start + n
    BY <1>2, <1>5, <1>6, Counts
  <2>6. \A i \in 0 .. n - 1 : buf'[i] = stream[start + i + 1]
    <3>1. c = stream[start + (n - 1) + 1]
      BY <1>3, <1>5, <1>6, Counts
    <3> QED
      BY <1>5, <1>6, <2>4, <3>1
  <2>7. \A i \in 0 .. n - 2 : buf'[i] # Newline
    BY <1>6, <2>4
  <2>8. buf'[n - 1] = Newline \/ n = maxlen - 1
    BY <1>9, <2>4
  <2>9. ReturnsLine'
    BY <1>1, <2>1, <2>4, <2>5, <2>6, <2>7, <2>8 DEF ReturnsLine
  <2> QED
    BY <1>1, <1>7, <2>1, <2>3, <2>9 DEF RioInv, LineInv
<1>10. CASE ~last
  <2>1. /\ buf' = [buf EXCEPT ![n - 1] = c]
        /\ rpc' = "read" /\ ret' = ret /\ n' = n + 1
    BY <1>1, <1>10 DEF TakeByte
  <2>2. buf' \in [0 .. maxlen - 1 -> Cell]
    BY <1>4, <1>5, <2>1
  <2>3. n' \in 1 .. maxlen - 1
    BY <1>5, <1>10, <2>1
  <2>4. TypeOK'
    BY <1>1, <1>8, <2>1, <2>2, <2>3 DEF RioInv, TypeOK
  <2>5. buf'[n - 1] = c /\ \A i \in 0 .. n - 2 : buf'[i] = buf[i]
    BY <1>5, <2>1
  <2>6. \A i \in 0 .. n - 1 : buf'[i] = stream[start + i + 1] /\ buf'[i] # Newline
    <3>1. c = stream[start + (n - 1) + 1]
      BY <1>3, <1>5, <1>6, Counts
    <3> QED
      BY <1>5, <1>6, <1>10, <2>5, <3>1
  <2>7. LineInv'
    <3>0. start' = start /\ n' = n + 1 /\ rpc' = "read" /\ stream' = stream
      BY <1>1, <2>1
    <3>1. Taken' = start' + n' - 1
      BY <1>2, <1>5, <1>6, <3>0, Counts
    <3>2. n' - 2 = n - 1
      BY <1>5, <2>1
    <3> QED
      BY <2>6, <3>0, <3>1, <3>2 DEF LineInv
  <2> QED
    BY <1>1, <1>7, <2>1, <2>4, <2>7 DEF RioInv, ReturnsLine
<1> QED
  BY <1>9, <1>10

-----------------------------------------------------------------------------
\* Whatever the kernel does, what the buffers and counters of csapp.c hold is
\* what was written.
THEOREM Invariance == Spec => []RioInv
<1>1. RioInv /\ [Next]_rioRunVars => RioInv'
  <2> SUFFICES ASSUME RioInv, [Next]_rioRunVars PROVE RioInv'
    OBVIOUS
  <2>1. ASSUME NEW bytes \in Writes, Write(bytes) PROVE RioInv'
    BY <2>1, WriteInv
  <2>2. CASE Sending
    BY <2>2, SendingInv
  <2>3. CASE CloseWriter \/ Reset
    BY <2>3, ConnectionInv
  <2>4. CASE ReadLine
    BY <2>4, ReadLineInv
  <2>5. CASE Refill \/ Interrupted
    BY <2>5, RefillInv
  <2>6. CASE ReadError \/ ReadEof
    BY <2>6, EndInv
  <2>7. CASE TakeByte
    BY <2>7, TakeByteInv
  <2>8. CASE CloseReader
    BY <2>8, CloseReaderInv
  <2>9. CASE UNCHANGED rioRunVars
    BY <2>9 DEF rioRunVars, writerVars, rioVars, lineVars, RioInv, TypeOK, BufferInv,
                LineInv, ReturnsLine, Written, Unread, Taken
  <2> QED
    BY <2>1, <2>2, <2>3, <2>4, <2>5, <2>6, <2>7, <2>8, <2>9 DEF Next, Reading
<1> QED
  BY <1>1, InitInv, PTL DEF Spec

\* rio_readlineb returns the next line of what was written, whole and in order.
THEOREM LinesReturned == Spec => []ReturnsLine
<1>1. RioInv => ReturnsLine
  BY DEF RioInv
<1> QED
  BY <1>1, Invariance, PTL
=============================================================================
