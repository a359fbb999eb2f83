-------------------------- MODULE ConnectionProofs --------------------------
(***************************************************************************)
(* Proofs about module Connection, for every MAX_LEN and every way the     *)
(* kernel may cut the bytes.                                               *)
(***************************************************************************)
EXTENDS Connection, RioProofs, SequenceTheorems, WellFoundedInduction

USE RioAssumption, ConnectionAssumption DEF RioAssumption, ConnectionAssumption

\* Every step of the two Connections keeps what module Rio says of the buffers.
LEMMA RioKept ==
  ASSUME RioInv, [ConnNext]_vars
  PROVE  RioInv'
<1>1. ASSUME NEW m \in Messages, SendBegin(m) PROVE RioInv'
  <2>1. Encode(m) \in Seq(Char)
    BY DEF Encode
  <2> QED
    BY <1>1, <2>1, WriteInv DEF SendBegin
<1>2. CASE OtherWrites
  BY <1>2, WriteInv DEF OtherWrites
<1>3. CASE SendWrites
  BY <1>3, SendingInv DEF SendWrites
<1>4. CASE ReceiveBegin
  BY <1>4, ReadLineInv DEF ReceiveBegin
<1>5. CASE ReceiveReads
  BY <1>5, RefillInv, EndInv, TakeByteInv DEF ReceiveReads, Reading
<1>6. CASE Environment
  BY <1>6, ConnectionInv, CloseReaderInv, RefillInv DEF Environment
<1>7. ASSUME UNCHANGED rioRunVars PROVE RioInv'
  BY <1>7 DEF rioRunVars, writerVars, rioVars, lineVars, RioInv, TypeOK, BufferInv,
              LineInv, ReturnsLine, Written, Unread, Taken
<1> QED
  BY <1>1, <1>2, <1>3, <1>4, <1>5, <1>6, <1>7
     DEF ConnNext, vars, SendRefused, SendAgain

-----------------------------------------------------------------------------
(***************************************************************************)
(* What a Connection sends are lines that fit.                             *)
(***************************************************************************)

\* An encoded message ends in a newline.
LEMMA EncodedLine ==
  ASSUME NEW m \in Messages
  PROVE  /\ Encode(m) \in Seq(Char)
         /\ Len(Encode(m)) \in Nat \ {0}
         /\ Encode(m)[Len(Encode(m))] = Newline
<1> DEFINE front == m.tag \o <<Colon>> \o m.data
<1>1. front \in Seq(Char)
  <2>1. m.tag \in Seq(Char) /\ m.data \in Seq(Char) /\ <<Colon>> \in Seq(Char)
    OBVIOUS
  <2>2. m.tag \o <<Colon>> \in Seq(Char)
    BY <2>1
  <2> QED
    BY <2>1, <2>2
<1>2. Encode(m) = front \o <<Newline>>
  BY DEF Encode
<1> HIDE DEF front
<1> QED
  BY <1>1, <1>2

LEMMA LinesFitKept ==
  ASSUME RioInv, LinesFit, NEW m \in Messages, SendBegin(m)
  PROVE  LinesFit'
<1> DEFINE line == Encode(m)
           old == Len(stream)
<1>1. line \in Seq(Char) /\ Len(line) \in 1 .. MAX_LEN /\ line[Len(line)] = Newline
  BY EncodedLine DEF SendBegin, Fits
<1>2. stream' = stream \o line /\ stream \in Seq(Char)
  BY DEF SendBegin, Write, RioInv, TypeOK
<1> HIDE DEF line
<1>3. /\ Len(stream') = old + Len(line) /\ old \in Nat
      /\ stream'[old + Len(line)] = Newline
      /\ \A i \in 1 .. old : stream'[i] = stream[i]
  BY <1>1, <1>2
<1> SUFFICES ASSUME NEW i \in 1 .. Len(stream')
             PROVE  \E j \in i .. Len(stream') : j < i + MAX_LEN /\ stream'[j] = Newline
  BY DEF LinesFit
<1>4. CASE i \in 1 .. old
  <2>1. PICK j \in i .. old : j < i + MAX_LEN /\ stream[j] = Newline
    BY <1>4 DEF LinesFit
  <2> QED
    BY <1>1, <1>3, <1>4, <2>1
<1>5. CASE i > old
  <2>1. old + Len(line) \in i .. Len(stream') /\ old + Len(line) < i + MAX_LEN
    BY <1>1, <1>3, <1>5
  <2> QED
    BY <1>3, <2>1
<1> QED
  BY <1>3, <1>4, <1>5

\* rio_readlineb does not return more than MAX_LEN characters of such lines.
LEMMA ShortLines == RioInv /\ LinesFit /\ rpc = "idle" => ret <= MAX_LEN
<1> SUFFICES ASSUME RioInv, LinesFit, rpc = "idle", ret > MAX_LEN PROVE FALSE
  BY DEF RioInv, TypeOK
<1>1. ret = MAX_LEN + 1 /\ start \in Nat
  BY DEF RioInv, TypeOK
<1>2. /\ Taken = start + ret
      /\ \A i \in 0 .. ret - 1 : buf[i] = stream[start + i + 1]
      /\ \A i \in 0 .. ret - 2 : buf[i] # Newline
  BY <1>1 DEF RioInv, ReturnsLine
<1>3. start + ret <= Len(stream) /\ Len(stream) \in Nat
  BY <1>2, Counts
<1>4. PICK j \in start + 1 .. Len(stream) : j < start + 1 + MAX_LEN /\ stream[j] = Newline
  <2>1. start + 1 \in 1 .. Len(stream)
    BY <1>1, <1>3
  <2> QED
    BY <2>1 DEF LinesFit
<1>5. j - start - 1 \in 0 .. ret - 2 /\ start + (j - start - 1) + 1 = j
  BY <1>1, <1>3, <1>4
<1>6. buf[j - start - 1] = Newline
  BY <1>1, <1>2, <1>4, <1>5
<1> QED
  BY <1>2, <1>5, <1>6

-----------------------------------------------------------------------------
(***************************************************************************)
(* The invariant.                                                          *)
(***************************************************************************)
LEMMA ConnInitInv == ConnInit => ConnInv
BY InitInv DEF ConnInit, Init, ConnInv, LinesFit, SendIsNeverRefused, Received

LEMMA ConnStep == ConnInv /\ [ConnNext]_vars => ConnInv'
<1> SUFFICES ASSUME ConnInv, [ConnNext]_vars PROVE ConnInv'
  OBVIOUS
<1>1. RioInv /\ RioInv'
  BY RioKept DEF ConnInv
<1>2. CASE \E m \in Messages : SendBegin(m)
  <2> PICK m \in Messages : SendBegin(m)
    BY <1>2
  <2>1. UNCHANGED <<writer, recvVars, rpc, ret>>
    BY DEF SendBegin, Write, lineVars
  <2> QED
    BY <1>1, <2>1, LinesFitKept DEF ConnInv, SendIsNeverRefused, Received, recvVars
<1>3. CASE OtherWrites
  BY <1>1, <1>3 DEF OtherWrites, ConnInv, SendIsNeverRefused, Received, sendVars, recvVars,
                    Write, lineVars
<1>4. ASSUME UNCHANGED <<stream, writer, recvVars>>,
             \/ UNCHANGED <<rpc, ret>>
             \/ rpc' # "idle"
      PROVE  ConnInv'
  BY <1>1, <1>4 DEF ConnInv, LinesFit, SendIsNeverRefused, Received, recvVars
<1>5. CASE ReceiveReads
  <2>1. UNCHANGED <<stream, writer>>
    BY <1>5 DEF ReceiveReads, Reading, Refill, ReadError, ReadEof, TakeByte, writerVars, sendVars
  <2>2. (writer = "connection" => LinesFit) /\ (writer = "connection" => LinesFit)'
    BY <2>1 DEF ConnInv, LinesFit
  <2>3. CASE rpc' = "idle"
    <3>0. ret' \in Int
      BY <1>1 DEF RioInv, TypeOK
    <3>1. recvResult' = IF ret' > MAX_LEN THEN "INVALID_MSG"
                        ELSE IF ret' > 0 THEN "SUCCESS" ELSE "EOF_OR_ERROR"
      BY <1>5, <2>3, Zenon DEF ReceiveReads, ReceiveEnd
    <3>2. writer = "connection" => ret' <= MAX_LEN
      <4>1. (RioInv /\ LinesFit /\ rpc = "idle" => ret <= MAX_LEN)'
        BY ShortLines, PTL
      <4> QED
        BY <1>1, <2>1, <2>2, <2>3, <4>1
    <3>3. SendIsNeverRefused'
      BY <2>1, <3>1, <3>0, <3>2 DEF SendIsNeverRefused
    <3>5. Received' => ret' \in 1 .. MAX_LEN
      BY <3>0, <3>1 DEF Received
    <3> QED
      BY <1>1, <2>2, <3>3, <3>5 DEF ConnInv
  <2>4. CASE rpc' # "idle"
    BY <1>4, <1>5, <2>1, <2>4 DEF ReceiveReads
  <2> QED
    BY <2>3, <2>4
<1>6. CASE SendWrites
  BY <1>4, <1>6 DEF SendWrites, Sending, WriteSome, WriteFails, lineVars
<1>7. CASE ReceiveBegin
  BY <1>4, <1>7 DEF ReceiveBegin, ReadLine, writerVars, sendVars
<1>8. CASE Environment
  <2>1. UNCHANGED <<stream, writer, recvVars>>
    BY <1>8 DEF Environment, CloseWriter, CloseReader, Reset, Interrupted, writerVars, sendVars
  <2>2. UNCHANGED <<rpc, ret>> \/ rpc' # "idle"
    BY <1>8 DEF Environment, CloseWriter, CloseReader, Reset, Interrupted, lineVars
  <2> QED
    BY <1>4, <2>1, <2>2
<1>9. CASE \E m \in Messages : SendRefused(m) \/ SendAgain(m)
  BY <1>4, <1>9 DEF SendRefused, SendAgain, rioRunVars, writerVars, lineVars
<1>10. CASE UNCHANGED vars
  BY <1>4, <1>10 DEF vars, rioRunVars, writerVars, lineVars, sendVars
<1> QED
  BY <1>2, <1>3, <1>5, <1>6, <1>7, <1>8, <1>9, <1>10 DEF ConnNext

\* What the buffers hold, how far apart newlines are, and what receive answers.
THEOREM ConnInvariance == ConnSpec => []ConnInv
BY ConnInitInv, ConnStep, PTL DEF ConnSpec

\* receive never refuses a message that send has let through, for any MAX_LEN.
THEOREM NoneRefused == ConnSpec => []SendIsNeverRefused
<1>1. ConnInv => SendIsNeverRefused
  BY DEF ConnInv
<1> QED
  BY <1>1, ConnInvariance, PTL

\* Only the end of the connection cuts a line.
LEMMA CutLast == ConnInv => NeverCut
<1> SUFFICES ASSUME ConnInv, Received PROVE IsWhole \/ (conn # "up" /\ Taken = Written)
  BY DEF NeverCut
<1>1. ret \in 1 .. MAX_LEN /\ rpc = "idle" /\ RioInv
  BY DEF ConnInv, Received
<1>2. /\ Taken = start + ret
      /\ \A i \in 0 .. ret - 1 : buf[i] = stream[start + i + 1]
      /\ buf[ret - 1] = Newline \/ (conn # "up" /\ Taken = Written)
  BY <1>1 DEF RioInv, ReturnsLine
<1>3. start \in Nat /\ start + ret <= Len(stream) /\ stream \in Seq(Char)
  BY <1>1, <1>2, Counts DEF RioInv, TypeOK
<1>4. Len(Line) = ret /\ Line[ret] = stream[start + ret]
  BY <1>1, <1>3 DEF Line
<1>5. stream[start + ret] = buf[ret - 1]
  BY <1>1, <1>2, <1>3
<1> QED
  BY <1>2, <1>4, <1>5 DEF IsWhole, Last

\* Every line receive takes is a whole line of what was written, unless it is
\* the last thing its sender wrote before it went away.
THEOREM NothingCut == ConnSpec => []NeverCut
BY CutLast, ConnInvariance, PTL

-----------------------------------------------------------------------------
(***************************************************************************)
(* What the loops of receive find.                                         *)
(***************************************************************************)

\* A set of natural numbers has a least element.
LEMMA Least ==
  ASSUME NEW S \in SUBSET Nat, S # {}
  PROVE  Min(S) \in S /\ \A j \in S : Min(S) =< j
<1> DEFINE R == {ss \in Nat \X Nat : ss[1] < ss[2]}
<1>1. IsWellFoundedOn(R, Nat)
  BY NatLessThanWellFounded DEF OpToRel
<1>2. \A x, y \in Nat : y < x => <<y, x>> \in R
  OBVIOUS
<1> HIDE DEF R
<1>3. PICK x \in S : \A y \in S : ~ (<<y, x>> \in R)
  BY <1>1, WFMin, Zenon
<1>4. \A y \in S : x =< y
  <2>1. \A y \in S : y \in Nat /\ x \in Nat /\ ~ (y < x)
    BY <1>2, <1>3
  <2> QED
    BY <2>1
<1> QED
  BY <1>3, <1>4, Zenon DEF Min

\* A loop stops at the first of the characters it looks for, or behind the buffer.
LEMMA FindIs ==
  ASSUME NEW T, NEW s \in Seq(T), NEW i \in Nat \ {0}, NEW cs
  PROVE  /\ Find(s, i, cs) \in 1 .. Len(s) + 1
         /\ Find(s, i, cs) <= Len(s) => Find(s, i, cs) >= i /\ s[Find(s, i, cs)] \in cs
         /\ \A j \in i .. Len(s) : j < Find(s, i, cs) => s[j] \notin cs
<1> DEFINE S == {j \in i .. Len(s) : s[j] \in cs} \cup {Len(s) + 1}
<1>1. Len(s) \in Nat
  OBVIOUS
<1>2. S \in SUBSET Nat /\ S # {}
  BY <1>1
<1>3. Find(s, i, cs) = Min(S)
  BY DEF Find
<1>4. /\ Len(s) + 1 \in S
      /\ \A j \in S : j \in 1 .. Len(s) + 1 /\ (j <= Len(s) => j >= i /\ s[j] \in cs)
      /\ \A j \in i .. Len(s) : s[j] \in cs => j \in S
  BY <1>1
<1> HIDE DEF S
<1>5. Find(s, i, cs) \in S /\ \A j \in S : Find(s, i, cs) =< j
  BY <1>2, <1>3, Least
<1> QED
  BY <1>1, <1>4, <1>5

\* There is only one first place.
LEMMA FoundAt ==
  ASSUME NEW T, NEW s \in Seq(T), NEW i \in Nat \ {0}, NEW cs, NEW k \in i .. Len(s),
         s[k] \in cs, \A j \in i .. k - 1 : s[j] \notin cs
  PROVE  Find(s, i, cs) = k
<1> DEFINE f == Find(s, i, cs)
<1>1. /\ f \in 1 .. Len(s) + 1
      /\ f <= Len(s) => f >= i /\ s[f] \in cs
      /\ \A j \in i .. Len(s) : j < f => s[j] \notin cs
  BY FindIs
<1> HIDE DEF f
<1>2. Len(s) \in Nat
  OBVIOUS
<1>3. f <= k
  BY <1>1, <1>2
<1>4. f \in i .. k /\ s[f] \in cs
  BY <1>1, <1>2, <1>3
<1>5. f = k
  BY <1>2, <1>4
<1> QED
  BY <1>5 DEF f

\* Two sequences that agree on an interval have the same part there.
LEMMA SameSubSeq ==
  ASSUME NEW T, NEW s \in Seq(T), NEW t \in Seq(T), NEW a \in Nat \ {0}, NEW z \in Nat,
         z <= Len(s), z <= Len(t), \A i \in a .. z : s[i] = t[i]
  PROVE  SubSeq(s, a, z) = SubSeq(t, a, z)
<1>1. \A i \in a .. z : i \in 1 .. Len(s) /\ i \in 1 .. Len(t)
  OBVIOUS
<1> DEFINE p == SubSeq(s, a, z)
           q == SubSeq(t, a, z)
<1>2. /\ p \in Seq(T) /\ Len(p) = IF a <= z THEN z - a + 1 ELSE 0
      /\ \A i \in 1 .. z - a + 1 : p[i] = s[a + i - 1]
  BY <1>1, SubSeqProperties
<1>3. /\ q \in Seq(T) /\ Len(q) = IF a <= z THEN z - a + 1 ELSE 0
      /\ \A i \in 1 .. z - a + 1 : q[i] = t[a + i - 1]
  BY <1>1, SubSeqProperties
<1> HIDE DEF p, q
<1>4. p = q
  BY <1>2, <1>3, SeqEqual
<1> QED
  BY <1>4 DEF p, q

\* What receive makes of a buffer are texts of what it holds.
LEMMA DecodeTypes ==
  ASSUME NEW T, NEW s \in Seq(T)
  PROVE  Decode(s).tag \in Seq(T) /\ Decode(s).data \in Seq(T)
<1> DEFINE colon == Find(s, 1, {Colon})
           end == Find(s, colon + 1, {CR, Newline})
<1>1. colon \in 1 .. Len(s) + 1
  BY FindIs
<1>2. end \in 1 .. Len(s) + 1
  <2>1. colon + 1 \in Nat \ {0}
    BY <1>1
  <2> HIDE DEF colon
  <2> QED
    BY <2>1, FindIs
<1>3. Decode(s) = [tag |-> SubSeq(s, 1, colon - 1), data |-> SubSeq(s, colon + 1, end - 1)]
  BY DEF Decode
<1> HIDE DEF colon, end
<1>4. SubSeq(s, 1, colon - 1) \in Seq(T) /\ SubSeq(s, colon + 1, end - 1) \in Seq(T)
  BY <1>1, <1>2, SubSeqProperties
<1> QED
  BY <1>3, <1>4

\* The loops stop inside a line that has a colon and ends in a newline: what the
\* buffer holds behind it makes no difference.
LEMMA DecodePrefix ==
  ASSUME NEW T, NEW line \in Seq(T), NEW s \in Seq(T), Len(line) <= Len(s),
         \A i \in 1 .. Len(line) : s[i] = line[i],
         NEW k \in 1 .. Len(line), line[k] = Colon, line[Len(line)] = Newline
  PROVE  Decode(s) = Decode(line)
<1> DEFINE colon == Find(line, 1, {Colon})
           end == Find(line, colon + 1, {CR, Newline})
<1>0. Len(line) \in Nat /\ Len(s) \in Nat
  OBVIOUS
<1>1. /\ colon \in 1 .. Len(line) - 1 /\ line[colon] = Colon
      /\ \A j \in 1 .. colon - 1 : line[j] # Colon
  <2>1. /\ colon \in 1 .. Len(line) + 1
        /\ colon <= Len(line) => line[colon] \in {Colon}
        /\ \A j \in 1 .. Len(line) : j < colon => line[j] \notin {Colon}
    BY FindIs
  <2> HIDE DEF colon
  <2>2. colon <= k
    BY <2>1
  <2>3. colon # Len(line)
    BY <2>1, <2>2
  <2> QED
    BY <1>0, <2>1, <2>2, <2>3
<1>2. /\ end \in colon + 1 .. Len(line) /\ line[end] \in {CR, Newline}
      /\ \A j \in colon + 1 .. end - 1 : line[j] \notin {CR, Newline}
  <2> HIDE DEF colon
  <2>1. /\ end \in 1 .. Len(line) + 1
        /\ end <= Len(line) => end >= colon + 1 /\ line[end] \in {CR, Newline}
        /\ \A j \in colon + 1 .. Len(line) : j < end => line[j] \notin {CR, Newline}
    BY <1>1, FindIs
  <2> HIDE DEF end
  <2>2. end <= Len(line)
    BY <1>0, <1>1, <2>1
  <2> QED
    BY <1>0, <1>1, <2>1, <2>2
<1>3. Decode(line) = [tag |-> SubSeq(line, 1, colon - 1), data |-> SubSeq(line, colon + 1, end - 1)]
  BY DEF Decode
<1> HIDE DEF colon, end
<1>a. colon \in 1 .. Len(s) /\ \A j \in 1 .. colon : s[j] = line[j]
  BY <1>0, <1>1
<1>b. end \in colon + 1 .. Len(s) /\ \A j \in colon + 1 .. end : s[j] = line[j]
  BY <1>0, <1>1, <1>2
<1>4. Find(s, 1, {Colon}) = colon
  <2>1. s[colon] \in {Colon}
    BY <1>1, <1>a
  <2>2. \A j \in 1 .. colon - 1 : s[j] \notin {Colon}
    BY <1>1, <1>a
  <2>3. 1 \in Nat \ {0}
    OBVIOUS
  <2> QED
    BY <1>a, <2>1, <2>2, <2>3, FoundAt, Zenon
<1>5. Find(s, colon + 1, {CR, Newline}) = end
  <2>1. s[end] \in {CR, Newline}
    BY <1>1, <1>2, <1>b
  <2>2. \A j \in colon + 1 .. end - 1 : s[j] \notin {CR, Newline}
    BY <1>1, <1>2, <1>b
  <2>3. colon + 1 \in Nat \ {0}
    BY <1>1
  <2> QED
    BY <1>b, <2>1, <2>2, <2>3, FoundAt
<1>6. SubSeq(s, 1, colon - 1) = SubSeq(line, 1, colon - 1)
  BY <1>0, <1>1, SameSubSeq
<1>7. SubSeq(s, colon + 1, end - 1) = SubSeq(line, colon + 1, end - 1)
  BY <1>0, <1>1, <1>2, SameSubSeq
<1> QED
  BY <1>3, <1>4, <1>5, <1>6, <1>7 DEF Decode

\* Where the parts of an encoded message lie.
LEMMA EncodedParts ==
  ASSUME NEW m \in Messages
  PROVE  /\ m.tag \in Seq(Char) /\ m.data \in Seq(Char)
         /\ Encode(m) \in Seq(Char)
         /\ Len(Encode(m)) = Len(m.tag) + Len(m.data) + 2
         /\ \A i \in 1 .. Len(m.tag) : Encode(m)[i] = m.tag[i]
         /\ Encode(m)[Len(m.tag) + 1] = Colon
         /\ \A i \in 1 .. Len(m.data) : Encode(m)[Len(m.tag) + 1 + i] = m.data[i]
         /\ Encode(m)[Len(m.tag) + Len(m.data) + 2] = Newline
<1> DEFINE tag == m.tag
           data == m.data
           front == tag \o <<Colon>>
           middle == front \o data
<1>1. tag \in Seq(Char) /\ data \in Seq(Char) /\ <<Colon>> \in Seq(Char) /\ <<Newline>> \in Seq(Char)
  OBVIOUS
<1>2. Encode(m) = middle \o <<Newline>>
  BY DEF Encode
<1> HIDE DEF tag, data
<1>3. /\ front \in Seq(Char) /\ Len(front) = Len(tag) + 1
      /\ \A i \in 1 .. Len(tag) : front[i] = tag[i]
      /\ front[Len(tag) + 1] = Colon
  <2> DEFINE last == <<Colon>>
  <2>1. last \in Seq(Char) /\ Len(last) = 1 /\ last[1] = Colon /\ front = tag \o last
    BY <1>1
  <2> HIDE DEF last, front
  <2>2. /\ tag \o last \in Seq(Char) /\ Len(tag \o last) = Len(tag) + Len(last)
        /\ \A i \in 1 .. Len(tag) + Len(last) :
             (tag \o last)[i] = IF i <= Len(tag) THEN tag[i] ELSE last[i - Len(tag)]
    BY <1>1, <2>1, ConcatProperties, Zenon
  <2>3. Len(tag) \in Nat
    BY <1>1
  <2> QED
    BY <2>1, <2>2, <2>3
<1> HIDE DEF front
<1>4. /\ middle \in Seq(Char) /\ Len(middle) = Len(front) + Len(data)
      /\ \A i \in 1 .. Len(front) : middle[i] = front[i]
      /\ \A i \in 1 .. Len(data) : middle[Len(front) + i] = data[i]
  <2>1. /\ middle \in Seq(Char) /\ Len(middle) = Len(front) + Len(data)
        /\ \A i \in 1 .. Len(front) + Len(data) :
             middle[i] = IF i <= Len(front) THEN front[i] ELSE data[i - Len(front)]
    <3>1. front \in Seq(Char) /\ data \in Seq(Char)
      BY <1>1, <1>3
    <3> QED
      BY <3>1, ConcatProperties, Zenon
  <2>2. Len(front) \in Nat /\ Len(data) \in Nat
    BY <1>1, <1>3
  <2> HIDE DEF middle
  <2>3. ASSUME NEW i \in 1 .. Len(data) PROVE middle[Len(front) + i] = data[i]
    <3>1. /\ Len(front) + i \in 1 .. Len(front) + Len(data) /\ ~ (Len(front) + i <= Len(front))
          /\ (Len(front) + i) - Len(front) = i
      BY <2>2
    <3> QED
      BY <2>1, <3>1
  <2> QED
    BY <2>1, <2>2, <2>3
<1> HIDE DEF middle
<1>5. /\ Encode(m) \in Seq(Char) /\ Len(Encode(m)) = Len(middle) + 1
      /\ \A i \in 1 .. Len(middle) : Encode(m)[i] = middle[i]
      /\ Encode(m)[Len(middle) + 1] = Newline
  <2> DEFINE last == <<Newline>>
  <2>1. last \in Seq(Char) /\ Len(last) = 1 /\ last[1] = Newline /\ Encode(m) = middle \o last
    BY <1>1, <1>2
  <2> HIDE DEF last
  <2>a. middle \in Seq(Char) /\ last \in Seq(Char)
    BY <1>4, <2>1
  <2>2. /\ middle \o last \in Seq(Char) /\ Len(middle \o last) = Len(middle) + Len(last)
        /\ \A i \in 1 .. Len(middle) + Len(last) :
             (middle \o last)[i] = IF i <= Len(middle) THEN middle[i] ELSE last[i - Len(middle)]
    BY <2>a, ConcatProperties, Zenon
  <2>3. Len(middle) \in Nat
    BY <1>4
  <2> QED
    BY <2>1, <2>2, <2>3
<1>6. Len(tag) \in Nat /\ Len(data) \in Nat
  BY <1>1
<1>7. \A i \in 1 .. Len(tag) : Encode(m)[i] = tag[i]
  BY <1>3, <1>4, <1>5, <1>6
<1>8. Encode(m)[Len(tag) + 1] = Colon
  BY <1>3, <1>4, <1>5, <1>6
<1>9. \A i \in 1 .. Len(data) : Encode(m)[Len(tag) + 1 + i] = data[i]
  BY <1>3, <1>4, <1>5, <1>6
<1>10. Len(middle) + 1 = Len(tag) + Len(data) + 2
  BY <1>3, <1>4, <1>6
<1> QED
  BY <1>1, <1>5, <1>7, <1>8, <1>9, <1>10 DEF tag, data

\* The only newline of an encoded message is its last character, and the first
\* colon is the one behind the tag.
LEMMA EncodedPlain ==
  ASSUME NEW m \in Messages
  PROVE  /\ \A i \in 1 .. Len(Encode(m)) - 1 : Encode(m)[i] # Newline
         /\ \A i \in 1 .. Len(m.tag) : Encode(m)[i] # Colon
<1> DEFINE line == Encode(m)
           tag == m.tag
           data == m.data
<1>1. /\ tag \in Seq(Char) /\ data \in Seq(Char)
      /\ Len(line) = Len(tag) + Len(data) + 2
      /\ \A i \in 1 .. Len(tag) : line[i] = tag[i]
      /\ line[Len(tag) + 1] = Colon
      /\ \A i \in 1 .. Len(data) : line[Len(tag) + 1 + i] = data[i]
  BY EncodedParts
<1>2. /\ \A i \in 1 .. Len(tag) : tag[i] # Colon /\ tag[i] # Newline
      /\ \A i \in 1 .. Len(data) : data[i] # Newline
  BY <1>1, PlainAssumption DEF ToSet
<1>3. Colon # Newline
  OBVIOUS
<1> HIDE DEF line, tag, data
<1>4. ASSUME NEW i \in 1 .. Len(line) - 1
      PROVE  line[i] # Newline
  <2>0. Len(tag) \in Nat /\ Len(data) \in Nat
    BY <1>1
  <2>1. CASE i <= Len(tag) + 1
    <3>1. i \in 1 .. Len(tag) \/ i = Len(tag) + 1
      BY <2>0, <2>1
    <3> QED
      BY <1>1, <1>2, <1>3, <3>1
  <2>2. CASE i > Len(tag) + 1
    <3>1. i - Len(tag) - 1 \in 1 .. Len(data) /\ Len(tag) + 1 + (i - Len(tag) - 1) = i
      BY <1>1, <2>2
    <3>2. line[i] = data[i - Len(tag) - 1]
      BY <1>1, <3>1
    <3> QED
      BY <1>2, <3>1, <3>2
  <2> QED
    BY <1>1, <2>1, <2>2
<1>5. \A i \in 1 .. Len(tag) : line[i] # Colon
  BY <1>1, <1>2
<1> QED
  BY <1>4, <1>5 DEF line, tag

\* A message that is encoded and decoded is what it was, up to a carriage return.
LEMMA DecodeEncode ==
  ASSUME NEW m \in Messages
  PROVE  Decode(Encode(m)) = AsReceived(m)
<1> DEFINE line == Encode(m)
           tag == m.tag
           data == m.data
           cr == Find(data, 1, {CR})
           colon == Len(tag) + 1
           end == colon + cr
<1>1. /\ tag \in Seq(Char) /\ data \in Seq(Char) /\ line \in Seq(Char)
      /\ Len(line) = Len(tag) + Len(data) + 2
      /\ \A i \in 1 .. Len(tag) : line[i] = tag[i] /\ line[i] # Colon
      /\ line[Len(tag) + 1] = Colon
      /\ \A i \in 1 .. Len(data) : line[Len(tag) + 1 + i] = data[i]
      /\ line[Len(tag) + Len(data) + 2] = Newline
      /\ \A i \in 1 .. Len(line) - 1 : line[i] # Newline
  BY EncodedParts, EncodedPlain
<1>2. AsReceived(m) = [tag |-> tag, data |-> SubSeq(data, 1, cr - 1)]
  <2>1. m \in [tag : Seq(Char), data : Seq(Char)]
    OBVIOUS
  <2>2. \A x : [m EXCEPT !.data = x] = [tag |-> tag, data |-> x]
    BY <2>1
  <2>3. AsReceived(m) = [m EXCEPT !.data = SubSeq(data, 1, cr - 1)]
    BY DEF AsReceived
  <2> HIDE DEF tag, data, cr
  <2> QED
    BY <2>2, <2>3
<1>3. Decode(line) = LET c == Find(line, 1, {Colon})
                         e == Find(line, c + 1, {CR, Newline})
                     IN  [tag |-> SubSeq(line, 1, c - 1), data |-> SubSeq(line, c + 1, e - 1)]
  BY DEF Decode
<1> HIDE DEF line, tag, data
<1>4. Len(tag) \in Nat /\ Len(data) \in Nat /\ 1 \in Nat \ {0}
  BY <1>1
<1>5. /\ cr \in 1 .. Len(data) + 1
      /\ cr <= Len(data) => data[cr] = CR
      /\ \A j \in 1 .. Len(data) : j < cr => data[j] # CR
  <2>1. /\ cr \in 1 .. Len(data) + 1
        /\ cr <= Len(data) => data[cr] \in {CR}
        /\ \A j \in 1 .. Len(data) : j < cr => data[j] \notin {CR}
    BY <1>1, <1>4, FindIs
  <2> QED
    BY <2>1
<1> HIDE DEF cr
<1>6. Find(line, 1, {Colon}) = colon
  <2>1. colon \in 1 .. Len(line) /\ line[colon] \in {Colon}
    BY <1>1, <1>4
  <2>2. \A j \in 1 .. colon - 1 : line[j] \notin {Colon}
    BY <1>1, <1>4
  <2> HIDE DEF colon
  <2> QED
    BY <1>1, <1>4, <2>1, <2>2, FoundAt, Zenon
<1>7. Find(line, colon + 1, {CR, Newline}) = end
  <2>1. end \in colon + 1 .. Len(line)
    BY <1>1, <1>4, <1>5
  <2>2. line[end] \in {CR, Newline}
    <3>1. CASE cr <= Len(data)
      <4>1. cr \in 1 .. Len(data) /\ end = Len(tag) + 1 + cr
        BY <1>4, <1>5, <3>1
      <4>2. line[end] = data[cr]
        BY <1>1, <4>1
      <4> QED
        BY <1>5, <3>1, <4>2
    <3>2. CASE cr = Len(data) + 1
      <4>1. end = Len(tag) + Len(data) + 2
        BY <1>4, <3>2
      <4> QED
        BY <1>1, <4>1
    <3>3. cr <= Len(data) \/ cr = Len(data) + 1
      BY <1>4, <1>5
    <3> QED
      BY <3>1, <3>2, <3>3, Zenon
  <2>3. \A j \in colon + 1 .. end - 1 : line[j] \notin {CR, Newline}
    <3> SUFFICES ASSUME NEW j \in colon + 1 .. end - 1 PROVE line[j] # CR /\ line[j] # Newline
      OBVIOUS
    <3>1. j - colon \in 1 .. Len(data) /\ j - colon < cr /\ Len(tag) + 1 + (j - colon) = j
      BY <1>4, <1>5
    <3>2. line[j] = data[j - colon]
      BY <1>1, <3>1
    <3>3. j \in 1 .. Len(line) - 1
      BY <1>1, <1>4, <1>5
    <3> QED
      BY <1>1, <1>5, <3>1, <3>2, <3>3
  <2>4. colon + 1 \in Nat \ {0}
    BY <1>4
  <2> HIDE DEF end, colon
  <2> QED
    BY <1>1, <2>1, <2>2, <2>3, <2>4, FoundAt, Zenon
<1>8. SubSeq(line, 1, colon - 1) = tag
  <2>1. /\ colon - 1 = Len(tag) /\ Len(tag) <= Len(line)
        /\ \A i \in 1 .. Len(tag) : line[i] = tag[i]
    BY <1>1, <1>4
  <2>2. SubSeq(line, 1, Len(tag)) = SubSeq(tag, 1, Len(tag))
    BY <1>1, <1>4, <2>1, SameSubSeq
  <2>3. SubSeq(tag, 1, Len(tag)) = tag
    BY <1>1, SubSeqFull
  <2> QED
    BY <2>1, <2>2, <2>3
<1>9. SubSeq(line, colon + 1, end - 1) = SubSeq(data, 1, cr - 1)
  <2> DEFINE p == SubSeq(line, colon + 1, end - 1)
             q == SubSeq(data, 1, cr - 1)
  <2>1. end - 1 <= Len(line) /\ end - 1 \in Int /\ colon + 1 \in Int /\ colon + 1 >= 1
        /\ end - 1 - (colon + 1) + 1 = cr - 1 /\ cr - 1 \in Nat /\ cr - 1 <= Len(data)
    BY <1>1, <1>4, <1>5
  <2>2. \A i \in colon + 1 .. end - 1 : line[i] \in Char
    BY <1>1, <1>4, <2>1
  <2>3. \A i \in 1 .. cr - 1 : data[i] \in Char
    BY <1>1, <2>1
  <2>4. /\ p \in Seq(Char) /\ Len(p) = cr - 1
        /\ \A i \in 1 .. cr - 1 : p[i] = line[colon + 1 + i - 1]
    <3> HIDE DEF end, colon
    <3>1. /\ p \in Seq(Char) 
          /\ Len(p) = IF colon + 1 <= end - 1 THEN end - 1 - (colon + 1) + 1 ELSE 0
          /\ \A i \in 1 .. end - 1 - (colon + 1) + 1 : p[i] = line[colon + 1 + i - 1]
      BY <2>1, <2>2, SubSeqProperties
    <3> QED
      BY <2>1, <3>1
  <2>5. /\ q \in Seq(Char) /\ Len(q) = cr - 1
        /\ \A i \in 1 .. cr - 1 : q[i] = data[i]
    <3> DEFINE z == cr - 1
    <3>1. z \in Nat /\ 1 \in Int /\ z \in Int /\ \A i \in 1 .. z : data[i] \in Char
      BY <2>1, <2>3
    <3>2. q = SubSeq(data, 1, z)
      OBVIOUS
    <3> HIDE DEF z, q
    <3>3. /\ q \in Seq(Char) /\ Len(q) = IF 1 <= z THEN z - 1 + 1 ELSE 0
          /\ \A i \in 1 .. z - 1 + 1 : q[i] = data[1 + i - 1]
      BY <3>1, <3>2, SubSeqProperties
    <3>4. q \in Seq(Char) /\ Len(q) = z /\ \A i \in 1 .. z : q[i] = data[i]
      BY <3>1, <3>3
    <3> QED
      BY <3>4 DEF z
  <2>6. ASSUME NEW i \in 1 .. cr - 1 PROVE line[colon + 1 + i - 1] = data[i]
    <3>1. i \in 1 .. Len(data) /\ colon + 1 + i - 1 = Len(tag) + 1 + i
      BY <1>4, <1>5
    <3>2. line[Len(tag) + 1 + i] = data[i]
      BY <1>1, <3>1
    <3> HIDE DEF colon
    <3> QED
      BY <3>1, <3>2
  <2> HIDE DEF p, q
  <2>7. p = q
    BY <2>4, <2>5, <2>6, SeqEqual
  <2> QED
    BY <2>7 DEF p, q
<1> HIDE DEF end, colon
<1> QED
  BY <1>2, <1>3, <1>6, <1>7, <1>8, <1>9 DEF line

-----------------------------------------------------------------------------
(***************************************************************************)
(* What receive has just read.                                             *)
(***************************************************************************)

\* The buffer behind what rio_readlineb has written to it may hold anything.
LEMMA BufferIs ==
  RioInv => \A left \in Leftovers :
              /\ Buffer(left) \in Seq(Cell) /\ Len(Buffer(left)) = maxlen
              /\ \A i \in 1 .. maxlen : buf[i - 1] # Junk => Buffer(left)[i] = buf[i - 1]
<1> SUFFICES ASSUME RioInv, NEW left \in Leftovers
             PROVE  /\ Buffer(left) \in Seq(Cell) /\ Len(Buffer(left)) = maxlen
                    /\ \A i \in 1 .. maxlen : buf[i - 1] # Junk => Buffer(left)[i] = buf[i - 1]
  OBVIOUS
<1>1. buf \in [0 .. maxlen - 1 -> Cell] /\ left \in [0 .. maxlen - 1 -> Char \cup {Junk}]
      /\ maxlen \in Nat
  BY DEF RioInv, TypeOK
<1> DEFINE e(i) == IF buf[i - 1] = Junk THEN left[i - 1] ELSE buf[i - 1]
<1>2. \A i \in 1 .. maxlen : e(i) \in Cell
  <2> SUFFICES ASSUME NEW i \in 1 .. maxlen PROVE e(i) \in Cell
    OBVIOUS
  <2>1. i - 1 \in 0 .. maxlen - 1
    BY <1>1
  <2>2. buf[i - 1] \in Cell /\ left[i - 1] \in Cell
    BY <1>1, <2>1 DEF Cell
  <2> QED
    BY <2>2
<1>3. Buffer(left) = [i \in 1 .. maxlen |-> e(i)]
  BY DEF Buffer
<1>4. \A i \in 1 .. maxlen : buf[i - 1] # Junk => e(i) = buf[i - 1]
  OBVIOUS
<1> HIDE DEF e
<1>5. Buffer(left) \in Seq(Cell) /\ Len(Buffer(left)) = maxlen
  BY <1>1, <1>2, <1>3
<1> QED
  BY <1>3, <1>4, <1>5

\* The line that was returned is the beginning of the buffer, and no newline is
\* in front of its end.
LEMMA LineIs ==
  RioInv /\ rpc = "idle" /\ ret > 0 =>
    /\ ret \in 1 .. maxlen - 1 /\ start \in Nat /\ start + ret <= Len(stream)
    /\ Taken = start + ret
    /\ Line \in Seq(Char) /\ Len(Line) = ret /\ Last(Line) = Line[ret]
    /\ \A i \in 1 .. ret : Line[i] = stream[start + i] /\ Line[i] = buf[i - 1]
    /\ \A i \in 1 .. ret - 1 : Line[i] # Newline
<1> SUFFICES ASSUME RioInv, rpc = "idle", ret > 0
             PROVE  /\ ret \in 1 .. maxlen - 1 /\ start \in Nat /\ start + ret <= Len(stream)
                    /\ Taken = start + ret
                    /\ Line \in Seq(Char) /\ Len(Line) = ret /\ Last(Line) = Line[ret]
                    /\ \A i \in 1 .. ret : Line[i] = stream[start + i] /\ Line[i] = buf[i - 1]
                    /\ \A i \in 1 .. ret - 1 : Line[i] # Newline
  OBVIOUS
<1>1. ret \in 1 .. maxlen - 1 /\ start \in Nat /\ stream \in Seq(Char) /\ maxlen \in Nat
  BY DEF RioInv, TypeOK
<1>2. /\ Taken = start + ret
      /\ \A i \in 0 .. ret - 1 : buf[i] = stream[start + i + 1]
      /\ \A i \in 0 .. ret - 2 : buf[i] # Newline
  BY DEF RioInv, ReturnsLine
<1>3. start + ret <= Len(stream) /\ Len(stream) \in Nat
  BY <1>2, Counts
<1>4. /\ Line \in Seq(Char) /\ Len(Line) = ret
      /\ \A i \in 1 .. ret : Line[i] = stream[start + i]
  <2> DEFINE a == start + 1
             z == start + ret
  <2>1. a \in Int /\ z \in Int /\ a <= z /\ \A i \in a .. z : stream[i] \in Char
    BY <1>1, <1>3
  <2>2. Line = SubSeq(stream, a, z)
    BY DEF Line
  <2>3. z - a + 1 = ret /\ \A i \in 1 .. ret : a + i - 1 = start + i
    BY <1>1
  <2> HIDE DEF a, z
  <2>4. /\ Line \in Seq(Char) /\ Len(Line) = IF a <= z THEN z - a + 1 ELSE 0
        /\ \A i \in 1 .. z - a + 1 : Line[i] = stream[a + i - 1]
    BY <2>1, <2>2, SubSeqProperties
  <2> QED
    BY <2>1, <2>3, <2>4
<1>5. ASSUME NEW i \in 1 .. ret PROVE Line[i] = buf[i - 1]
  <2>1. i - 1 \in 0 .. ret - 1 /\ start + (i - 1) + 1 = start + i
    BY <1>1
  <2> QED
    BY <1>2, <1>4, <2>1
<1>6. ASSUME NEW i \in 1 .. ret - 1 PROVE Line[i] # Newline
  <2>1. i \in 1 .. ret /\ i - 1 \in 0 .. ret - 2
    BY <1>1
  <2> QED
    BY <1>2, <1>5, <2>1
<1>7. Last(Line) = Line[ret]
  BY <1>4 DEF Last
<1> QED
  BY <1>1, <1>2, <1>3, <1>4, <1>5, <1>6, <1>7

\* What the buffer holds behind the line makes no difference to what is received.
LEMMA Decoded ==
  RioInv /\ rpc = "idle" /\ ret > 0 /\ IsWhole /\ Colon \in ToSet(Line) =>
    \A left \in Leftovers : Decode(Buffer(left)) = Decode(Line)
<1> SUFFICES ASSUME RioInv, rpc = "idle", ret > 0, IsWhole, Colon \in ToSet(Line),
                    NEW left \in Leftovers
             PROVE  Decode(Buffer(left)) = Decode(Line)
  OBVIOUS
<1> DEFINE line == Line
           b == Buffer(left)
<1>1. /\ line \in Seq(Char) /\ Len(line) = ret /\ ret \in 1 .. maxlen - 1
      /\ line[ret] = Newline
      /\ \A i \in 1 .. ret : line[i] = buf[i - 1]
  BY LineIs DEF IsWhole
<1>2. PICK k \in 1 .. Len(line) : line[k] = Colon
  BY <1>1 DEF ToSet
<1>3. /\ b \in Seq(Cell) /\ Len(b) = maxlen
      /\ \A i \in 1 .. maxlen : buf[i - 1] # Junk => b[i] = buf[i - 1]
  BY BufferIs
<1> HIDE DEF line, b
<1>4. \A i \in 1 .. ret : line[i] \in Char /\ line[i] # Junk
  BY <1>1
<1>5. ASSUME NEW i \in 1 .. Len(line) PROVE b[i] = line[i]
  <2>1. i \in 1 .. ret /\ i \in 1 .. maxlen
    BY <1>1
  <2>2. buf[i - 1] = line[i] /\ buf[i - 1] # Junk
    BY <1>1, <1>4, <2>1
  <2> QED
    BY <1>3, <2>1, <2>2
<1>6. line \in Seq(Cell)
  BY <1>1 DEF Cell
<1>7. Len(line) <= Len(b) /\ line[Len(line)] = Newline
  BY <1>1, <1>3
<1>8. Decode(b) = Decode(line)
  BY <1>2, <1>3, <1>5, <1>6, <1>7, DecodePrefix
<1> QED
  BY <1>8 DEF line, b

\* A line that was returned stays what it was while others are written.
LEMMA SameLine ==
  ASSUME RioInv, rpc = "idle", ret > 0, UNCHANGED <<ret, start>>, stream' \in Seq(Char),
         Len(stream) <= Len(stream'), \A i \in 1 .. Len(stream) : stream'[i] = stream[i]
  PROVE  Line' = Line
<1> DEFINE a == start + 1
           z == start + ret
           old == stream
           new == stream'
<1>1. ret \in Nat /\ start \in Nat /\ z <= Len(old) /\ old \in Seq(Char)
  BY LineIs DEF RioInv, TypeOK
<1>2. a \in Nat \ {0} /\ z \in Nat /\ z <= Len(old) /\ z <= Len(new)
      /\ \A i \in a .. z : new[i] = old[i]
  BY <1>1
<1>3. Line' = SubSeq(new, a, z) /\ Line = SubSeq(old, a, z)
  BY DEF Line
<1>4. new \in Seq(Char)
  OBVIOUS
<1> HIDE DEF a, z, old, new
<1> QED
  BY <1>1, <1>2, <1>3, <1>4, SameSubSeq

-----------------------------------------------------------------------------
(***************************************************************************)
(* What a step does to the line that was returned.                         *)
(***************************************************************************)

\* receive returns.
Returns == ReceiveReads /\ rpc' = "idle"

\* It was reading before.
LEMMA RioReads == ReceiveReads => rpc = "read"
BY DEF ReceiveReads, Reading, Refill, ReadError, ReadEof, TakeByte, Refilling

\* What receive returned stays until it is called again.
LEMMA Stays ==
  ASSUME ConnInv, ConnInv', [ConnNext]_vars, ~Returns, rpc' = "idle"
  PROVE  /\ UNCHANGED <<rpc, ret, start, got, msg, recvResult, fetched, rio_cnt>>
         /\ \E bytes \in Seq(Char) : stream' = stream \o bytes
<1> DEFINE Goal == /\ UNCHANGED <<rpc, ret, start, got, msg, recvResult, fetched, rio_cnt>>
                   /\ \E bytes \in Seq(Char) : stream' = stream \o bytes
<1>0. stream \in Seq(Char)
  BY DEF ConnInv, RioInv, TypeOK
<1>1. ASSUME UNCHANGED stream PROVE \E bytes \in Seq(Char) : stream' = stream \o bytes
  <2>1. <<>> \in Seq(Char) /\ stream' = stream \o <<>>
    BY <1>0, <1>1
  <2> QED
    BY <2>1
<1>2. ASSUME NEW m \in Messages, SendRefused(m) \/ SendAgain(m) PROVE Goal
  BY <1>1, <1>2 DEF SendRefused, SendAgain, rioRunVars, writerVars, rioVars, lineVars, recvVars
<1>3. ASSUME NEW m \in Messages, SendBegin(m) PROVE Goal
  <2>1. Encode(m) \in Seq(Char)
    BY EncodedParts
  <2> QED
    BY <1>3, <2>1 DEF SendBegin, Write, rioVars, lineVars, recvVars
<1>4. CASE SendWrites
  <2>1. UNCHANGED <<stream, fetched, rioVars, lineVars, recvVars>>
    BY <1>4 DEF SendWrites, Sending, WriteSome, WriteFails
  <2> QED
    BY <1>1, <2>1 DEF rioVars, lineVars, recvVars
<1>5. CASE OtherWrites
  BY <1>5 DEF OtherWrites, Write, rioVars, lineVars, recvVars
<1>6. CASE ReceiveBegin
  BY <1>6 DEF ReceiveBegin, ReadLine
<1>7. CASE Environment
  <2>1. CASE CloseWriter \/ Reset
    BY <1>1, <1>7, <2>1 DEF Environment, CloseWriter, Reset, writerVars, rioVars, lineVars, recvVars
  <2>2. CASE CloseReader
    BY <2>2 DEF CloseReader
  <2>3. CASE Interrupted
    BY <2>3 DEF Interrupted, Refilling, lineVars
  <2> QED
    BY <1>7, <2>1, <2>2, <2>3 DEF Environment
<1>8. CASE UNCHANGED vars
  BY <1>1, <1>8 DEF vars, rioRunVars, writerVars, rioVars, lineVars, recvVars
<1>9. ~ReceiveReads
  BY DEF Returns
<1> QED
  BY <1>2, <1>3, <1>4, <1>5, <1>6, <1>7, <1>8, <1>9 DEF ConnNext

\* The line stays with it.
LEMMA LineStays ==
  ASSUME ConnInv, ConnInv', [ConnNext]_vars, ~Returns, Received'
  PROVE  Received /\ Line' = Line /\ UNCHANGED <<got, msg>>
<1>1. rpc' = "idle"
  BY DEF Received
<1>2. UNCHANGED <<rpc, ret, start, got, msg, recvResult>>
  BY <1>1, Stays
<1>3. Received
  BY <1>2 DEF Received
<1>4. RioInv /\ rpc = "idle" /\ ret > 0
  BY <1>3 DEF ConnInv, Received
<1>5. PICK bytes \in Seq(Char) : stream' = stream \o bytes
  BY <1>1, Stays
<1>6. /\ stream' \in Seq(Char) /\ Len(stream) <= Len(stream')
      /\ \A i \in 1 .. Len(stream) : stream'[i] = stream[i]
  BY <1>4, <1>5, Appended DEF RioInv
<1> QED
  BY <1>2, <1>3, <1>4, <1>6, SameLine

\* What receive answers.
LEMMA Answers ==
  ASSUME ConnInv', Returns
  PROVE  /\ recvResult' = IF ret' > MAX_LEN THEN "INVALID_MSG"
                           ELSE IF ret' > 0 THEN "SUCCESS" ELSE "EOF_OR_ERROR"
         /\ got' = IF ret' \in 1 .. MAX_LEN THEN got + 1 ELSE got
         /\ \/ ret' > MAX_LEN /\ UNCHANGED msg
            \/ \E left \in Leftovers : msg' = Decode(Buffer(left)')
         /\ ret' \in 1 .. MAX_LEN => \E left \in Leftovers : msg' = Decode(Buffer(left)')
<1>1. ReceiveEnd
  BY DEF Returns, ReceiveReads
<1>2. ret' \in Int
  BY DEF ConnInv, RioInv, TypeOK
<1>3. CASE ret' > MAX_LEN
  <2>1. recvResult' = "INVALID_MSG" /\ UNCHANGED <<got, msg>>
    BY <1>1, <1>3, Zenon DEF ReceiveEnd
  <2> QED
    BY <1>2, <1>3, <2>1
<1>4. CASE ~ (ret' > MAX_LEN)
  <2>1. /\ \E left \in Leftovers : msg' = Decode(Buffer(left)')
        /\ recvResult' = IF ret' > 0 THEN "SUCCESS" ELSE "EOF_OR_ERROR"
        /\ got' = IF ret' > 0 THEN got + 1 ELSE got
    BY <1>1, <1>4, Zenon DEF ReceiveEnd
  <2>2. ret' \in 1 .. MAX_LEN <=> ret' > 0
    BY <1>2, <1>4
  <2>3. got' = IF ret' \in 1 .. MAX_LEN THEN got + 1 ELSE got
    BY <2>1, <2>2
  <2> QED
    BY <1>4, <2>1, <2>3, Zenon
<1> QED
  BY <1>3, <1>4

-----------------------------------------------------------------------------
(***************************************************************************)
(* Types, and what a line becomes.                                         *)
(***************************************************************************)
LEMMA ConnTypesStep ==
  ASSUME ConnTypeOK, ConnInv, ConnInv', [ConnNext]_vars
  PROVE  ConnTypeOK'
<1>1. TypeOK'
  BY DEF ConnInv, RioInv
<1>2. CASE Returns
  <2>1. UNCHANGED sendVars
    BY <1>2 DEF Returns, ReceiveReads
  <2>0. (RioInv => \A left \in Leftovers :
            /\ Buffer(left) \in Seq(Cell) /\ Len(Buffer(left)) = maxlen
            /\ \A i \in 1 .. maxlen : buf[i - 1] # Junk => Buffer(left)[i] = buf[i - 1])'
    BY BufferIs, PTL
  <2>2. ASSUME NEW left \in Leftovers, msg' = Decode(Buffer(left)')
        PROVE  msg'.tag \in Seq(Cell) /\ msg'.data \in Seq(Cell)
    <3>1. Buffer(left)' \in Seq(Cell)
      BY <2>0 DEF ConnInv
    <3> QED
      BY <2>2, <3>1, DecodeTypes, Zenon
  <2>3. msg'.tag \in Seq(Cell) /\ msg'.data \in Seq(Cell)
    <3>1. (\E left \in Leftovers : msg' = Decode(Buffer(left)')) \/ UNCHANGED msg
      BY <1>2, Answers
    <3> QED
      BY <2>2, <3>1, Zenon DEF ConnTypeOK
  <2>4. recvResult' \in Result /\ got' \in Nat
    BY <1>2, Answers DEF ConnTypeOK, Result
  <2> QED
    BY <1>1, <2>1, <2>3, <2>4 DEF ConnTypeOK, sendVars
<1>3. ASSUME UNCHANGED recvVars, writer' = writer, sendResult' \in Result,
             accepted' \in Seq(Messages)
      PROVE  ConnTypeOK'
  BY <1>1, <1>3 DEF ConnTypeOK, recvVars
<1>4. CASE \E m \in Messages : SendBegin(m)
  <2> PICK m \in Messages : SendBegin(m)
    BY <1>4
  <2>1. /\ UNCHANGED recvVars /\ writer' = writer /\ sendResult' = sendResult
        /\ accepted' = Append(accepted, m)
    BY DEF SendBegin
  <2>2. accepted \in Seq(Messages) /\ sendResult \in Result
    BY DEF ConnTypeOK
  <2>3. Append(accepted, m) \in Seq(Messages)
    BY <2>2, AppendProperties
  <2> QED
    BY <1>3, <2>1, <2>2, <2>3
<1>5. ASSUME UNCHANGED recvVars, UNCHANGED <<writer, accepted>>,
             sendResult' \in {sendResult, "SUCCESS", "EOF_OR_ERROR", "INVALID_MSG"}
      PROVE  ConnTypeOK'
  BY <1>3, <1>5 DEF ConnTypeOK, Result
<1>6. CASE ReceiveReads /\ rpc' # "idle"
  BY <1>5, <1>6 DEF ReceiveReads, sendVars
<1>7. CASE \E m \in Messages : SendRefused(m) \/ SendAgain(m)
  BY <1>5, <1>7 DEF SendRefused, SendAgain
<1>8. CASE SendWrites
  <2>1. sendResult' \in {sendResult, "SUCCESS", "EOF_OR_ERROR"}
    BY <1>8 DEF SendWrites
  <2> QED
    BY <1>5, <1>8, <2>1 DEF SendWrites
<1>9. CASE OtherWrites \/ ReceiveBegin \/ Environment \/ UNCHANGED vars
  BY <1>5, <1>9 DEF OtherWrites, ReceiveBegin, Environment, vars, sendVars
<1> QED
  BY <1>2, <1>4, <1>6, <1>7, <1>8, <1>9 DEF ConnNext, Returns

LEMMA DecodesStep ==
  ASSUME DecodesLine, ConnInv, ConnInv', [ConnNext]_vars
  PROVE  DecodesLine'
<1> SUFFICES ASSUME Received', IsWhole', (Colon \in ToSet(Line))'
             PROVE  (msg = Decode(Line))'
  BY DEF DecodesLine
<1>1. CASE Returns
  <2>1. (Received => ret \in 1 .. MAX_LEN)' /\ RioInv'
    BY DEF ConnInv
  <2>2. ret' \in 1 .. MAX_LEN /\ ret' > 0 /\ rpc' = "idle"
    BY <2>1 DEF Received
  <2>4. (RioInv /\ rpc = "idle" /\ ret > 0 /\ IsWhole /\ Colon \in ToSet(Line) =>
           \A left \in Leftovers : Decode(Buffer(left)) = Decode(Line))'
    BY Decoded, PTL
  <2>3. PICK left \in Leftovers : msg' = Decode(Buffer(left)')
    BY <1>1, <2>2, Answers
  <2>5. (Decode(Buffer(left)) = Decode(Line))'
    BY <2>1, <2>2, <2>4
  <2> QED
    BY <2>3, <2>5
<1>2. CASE ~Returns
  <2>1. Received /\ Line' = Line /\ UNCHANGED <<got, msg>>
    BY <1>2, LineStays
  <2>2. IsWhole /\ Colon \in ToSet(Line)
    BY <2>1 DEF IsWhole
  <2> QED
    BY <2>1, <2>2 DEF DecodesLine
<1> QED
  BY <1>1, <1>2

-----------------------------------------------------------------------------
(***************************************************************************)
(* The messages of the stream.                                             *)
(***************************************************************************)

\* A step that neither sends nor returns.
LEMMA RoundStays ==
  ASSUME RoundInv, UNCHANGED <<writer, accepted, stream, got>>,
         rpc' = "read" => \/ rpc = "read" /\ start' = start
                          \/ rpc = "idle" /\ recvResult = "SUCCESS" /\ start' = Taken,
         rpc' = "idle" => rpc = "idle" /\ recvResult' = recvResult /\ Taken' = Taken,
         conn # "up" => conn' # "up" /\ Written' = Written,
         Received' => Received /\ Line' = Line
  PROVE  RoundInv'
<1> SUFFICES ASSUME writer = "connection" PROVE RoundInv'
  BY DEF RoundInv
<1>1. PICK b \in [0 .. Len(accepted) -> 0 .. Len(stream)] :
         /\ Ends(b)
         /\ rpc = "read" => Between(start, b)
         /\ rpc = "idle" /\ recvResult = "SUCCESS" => Between(Taken, b)
  BY DEF RoundInv
<1>2. Ends(b)'
  BY <1>1 DEF Ends
<1>3. rpc' = "read" => Between(start, b)'
  BY <1>1 DEF Between
<1>4. (rpc = "idle" /\ recvResult = "SUCCESS")' => Between(Taken, b)'
  BY <1>1 DEF Between
<1>5. (Received /\ IsWhole)' => (Line = Encode(accepted[got]))'
  BY DEF RoundInv, IsWhole
<1>6. got' \in 0 .. Len(accepted')
  BY DEF RoundInv
<1>7. b \in [0 .. Len(accepted') -> 0 .. Len(stream')]
  OBVIOUS
<1> QED
  BY <1>2, <1>3, <1>4, <1>5, <1>6, <1>7 DEF RoundInv

\* A message that is sent is one more.
LEMMA RoundSends ==
  ASSUME RoundInv, ConnTypeOK, ConnInv, ConnInv', NEW m \in Messages, SendBegin(m)
  PROVE  RoundInv'
<1> DEFINE line == Encode(m)
           count == Len(accepted)
           size == Len(stream)
<1>1. writer = "connection" /\ writer' = "connection"
  BY DEF SendBegin
<1>2. line \in Seq(Char) /\ Len(line) \in Nat
  BY EncodedLine
<1>3. /\ accepted' = Append(accepted, m) /\ stream' = stream \o line
      /\ nleft = 0 /\ nleft' = Len(line)
      /\ UNCHANGED <<got, msg, recvResult, conn, rpc, ret, start, fetched, rio_cnt>>
  BY DEF SendBegin, Write, ConnInv, RioInv, TypeOK, rioVars, lineVars, recvVars
<1>4. accepted \in Seq(Messages) /\ stream \in Seq(Char) /\ count \in Nat /\ size \in Nat
  BY DEF ConnTypeOK, TypeOK
<1>5. /\ Len(accepted') = count + 1
      /\ accepted'[count + 1] = m
      /\ \A k \in 1 .. count : accepted'[k] = accepted[k]
  BY <1>3, <1>4, AppendProperties
<1>6. /\ Len(stream') = size + Len(line) /\ stream' \in Seq(Char)
      /\ \A i \in 1 .. size : stream'[i] = stream[i]
      /\ \A i \in 1 .. Len(line) : stream'[size + i] = line[i]
  <2> HIDE DEF line
  <2> QED
    BY <1>2, <1>3, <1>4
<1>7. Taken' = Taken /\ Written' = Written
  BY <1>3, <1>4, <1>6, <1>2 DEF Taken, Unread, Written
<1>8. PICK b \in [0 .. count -> 0 .. size] :
         /\ Ends(b)
         /\ rpc = "read" => Between(start, b)
         /\ rpc = "idle" /\ recvResult = "SUCCESS" => Between(Taken, b)
  BY <1>1 DEF RoundInv
<1>9. got \in 0 .. count
  BY <1>1 DEF RoundInv
<1> HIDE DEF line, count, size
<1>10. PICK c \in [0 .. Len(accepted') -> 0 .. Len(stream')] :
         /\ \A k \in 0 .. count : c[k] = b[k]
         /\ c[count + 1] = size + Len(line)
  <2> DEFINE f == [k \in 0 .. count + 1 |-> IF k <= count THEN b[k] ELSE size + Len(line)]
  <2>1. f \in [0 .. Len(accepted') -> 0 .. Len(stream')]
    BY <1>2, <1>4, <1>5, <1>6
  <2>2. (\A k \in 0 .. count : f[k] = b[k]) /\ f[count + 1] = size + Len(line)
    BY <1>4
  <2> HIDE DEF f
  <2> QED
    BY <2>1, <2>2
<1>11. Ends(c)'
  <2>1. c[0] = 0 /\ c[count + 1] = Len(stream')
    BY <1>4, <1>6, <1>8, <1>10 DEF Ends
  <2>2. ASSUME NEW k \in 1 .. count + 1
        PROVE  /\ c[k] = c[k - 1] + Len(Encode(accepted'[k]))
               /\ \A i \in 1 .. Len(Encode(accepted'[k])) :
                    stream'[c[k - 1] + i] = Encode(accepted'[k])[i]
    <3>1. CASE k <= count
      <4> DEFINE l == Encode(accepted[k])
      <4>1. k \in 1 .. count /\ k \in 0 .. count /\ k - 1 \in 0 .. count
        BY <1>4, <3>1
      <4>2. /\ c[k] = b[k] /\ c[k - 1] = b[k - 1] /\ accepted'[k] = accepted[k]
            /\ b[k] \in 0 .. size /\ b[k - 1] \in 0 .. size
        BY <1>5, <1>8, <1>10, <4>1
      <4>3. b[k] = b[k - 1] + Len(l) /\ \A i \in 1 .. Len(l) : stream[b[k - 1] + i] = l[i]
        BY <1>8, <4>1 DEF Ends, count
      <4>4. Len(l) \in Nat
        <5>1. accepted[k] \in Messages
          BY <1>4, <4>1 DEF count
        <5> QED
          BY <5>1, EncodedParts
      <4> HIDE DEF l
      <4>5. ASSUME NEW i \in 1 .. Len(l) PROVE b[k - 1] + i \in 1 .. size
        <5>1. b[k - 1] + Len(l) <= size /\ b[k - 1] \in Nat
          BY <4>2, <4>3
        <5> QED
          BY <1>4, <4>4, <5>1
      <4>6. \A i \in 1 .. Len(l) : stream'[b[k - 1] + i] = l[i]
        BY <1>6, <4>3, <4>5
      <4> QED
        BY <4>2, <4>3, <4>6 DEF l
    <3>2. CASE k = count + 1
      <4>1. c[k - 1] = size
        <5>1. count \in 0 .. count /\ k - 1 = count
          BY <1>4, <3>2
        <5>2. c[k - 1] = b[count]
          BY <1>10, <5>1
        <5> QED
          BY <1>8, <5>2 DEF Ends, count, size
      <4>2. Encode(accepted'[k]) = line
        BY <1>5, <3>2 DEF line
      <4>3. c[k] = size + Len(line)
        BY <1>10, <3>2
      <4> QED
        BY <1>6, <4>1, <4>2, <4>3
    <3>3. k <= count \/ k = count + 1
      BY <1>4
    <3> QED
      BY <3>1, <3>2, <3>3, Zenon
  <2> QED
    BY <1>5, <2>1, <2>2 DEF Ends
<1>12. c[got] = b[got]
  BY <1>9, <1>10
<1>13. rpc' = "read" => Between(start, c)'
  BY <1>3, <1>7, <1>8, <1>12 DEF Between
<1>14. (rpc = "idle" /\ recvResult = "SUCCESS")' => Between(Taken, c)'
  BY <1>3, <1>7, <1>8, <1>12 DEF Between
<1>15. ASSUME Received', IsWhole' PROVE (Line = Encode(accepted[got]))'
  <2>1. ~Returns
    <3>1. ReceiveReads => stream' = stream /\ nleft' = nleft /\ rpc = "read"
      BY DEF ReceiveReads, Reading, Refill, ReadError, ReadEof, TakeByte, Refilling, writerVars
    <3> QED
      BY <1>3, <3>1, <1>15 DEF Returns, Received
  <2>2. [ConnNext]_vars
    BY DEF ConnNext
  <2>3. Received /\ Line' = Line
    BY <1>15, <2>1, <2>2, LineStays
  <2>4. Line = Encode(accepted[got])
    BY <1>1, <1>15, <2>3 DEF RoundInv, IsWhole
  <2>5. got \in 1 .. count
    BY <1>9, <2>3 DEF Received
  <2> QED
    BY <1>3, <1>5, <2>3, <2>4, <2>5
<1>16. got' \in 0 .. Len(accepted')
  BY <1>3, <1>4, <1>5, <1>9
<1> QED
  BY <1>10, <1>11, <1>13, <1>14, <1>15, <1>16 DEF RoundInv

\* From where a message begins, a whole line is that message.
LEMMA LineIsMessage ==
  \A m \in Messages :
    RioInv /\ rpc = "idle" /\ ret > 0 /\ IsWhole /\ start + Len(Encode(m)) <= Len(stream)
      /\ (\A i \in 1 .. Len(Encode(m)) : stream[start + i] = Encode(m)[i])
    => Line = Encode(m)
<1> SUFFICES ASSUME RioInv, rpc = "idle", ret > 0, IsWhole, NEW m \in Messages,
                    start + Len(Encode(m)) <= Len(stream),
                    \A i \in 1 .. Len(Encode(m)) : stream[start + i] = Encode(m)[i]
             PROVE  Line = Encode(m)
  OBVIOUS
<1> DEFINE line == Line
           e == Encode(m)
<1>1. /\ line \in Seq(Char) /\ Len(line) = ret /\ ret \in Nat /\ line[ret] = Newline
      /\ \A i \in 1 .. ret : line[i] = stream[start + i]
      /\ \A i \in 1 .. ret - 1 : line[i] # Newline
  BY LineIs DEF IsWhole
<1>2. /\ e \in Seq(Char) /\ Len(e) \in Nat /\ e[Len(e)] = Newline /\ Len(e) > 0
      /\ \A i \in 1 .. Len(e) - 1 : e[i] # Newline
  BY EncodedLine, EncodedPlain
<1>3. \A i \in 1 .. Len(e) : stream[start + i] = e[i]
  OBVIOUS
<1> HIDE DEF line, e
<1>4. ~ (ret < Len(e))
  <2> SUFFICES ASSUME ret < Len(e) PROVE FALSE
    OBVIOUS
  <2>1. ret \in 1 .. ret /\ ret \in 1 .. Len(e) /\ ret \in 1 .. Len(e) - 1
    BY <1>1, <1>2
  <2> QED
    BY <1>1, <1>2, <1>3, <2>1
<1>5. ~ (Len(e) < ret)
  <2> SUFFICES ASSUME Len(e) < ret PROVE FALSE
    OBVIOUS
  <2>1. Len(e) \in 1 .. ret /\ Len(e) \in 1 .. Len(e) /\ Len(e) \in 1 .. ret - 1
    BY <1>1, <1>2
  <2> QED
    BY <1>1, <1>2, <1>3, <2>1
<1>6. Len(line) = Len(e)
  BY <1>1, <1>2, <1>4, <1>5
<1>7. \A i \in 1 .. Len(line) : line[i] = e[i]
  BY <1>1, <1>3, <1>6
<1>8. line = e
  BY <1>1, <1>2, <1>6, <1>7, SeqEqual
<1> QED
  BY <1>8 DEF line, e

\* Nothing is taken that was not written.
LEMMA TakenIsWritten == RioInv => Written \in Nat /\ Taken <= Written
BY Counts

\* receive returns the next message, or the beginning of one whose sender is gone.
LEMMA RoundReturns ==
  ASSUME RoundInv, ConnTypeOK, ConnInv, ConnInv', Returns
  PROVE  RoundInv'
<1> SUFFICES ASSUME writer' = "connection" PROVE RoundInv'
  BY DEF RoundInv
<1>1. /\ UNCHANGED <<writer, accepted, stream, nleft, conn, start>>
      /\ rpc = "read" /\ rpc' = "idle"
  BY DEF Returns, ReceiveReads, Reading, Refill, ReadError, ReadEof, TakeByte, Refilling,
         writerVars, sendVars, lineVars
<1>2. PICK b \in [0 .. Len(accepted) -> 0 .. Len(stream)] : Ends(b) /\ Between(start, b)
  BY <1>1 DEF RoundInv
<1>3. got \in 0 .. Len(accepted)
  BY <1>1 DEF RoundInv
<1>4. Ends(b)'
  BY <1>1, <1>2 DEF Ends
<1>5. b \in [0 .. Len(accepted') -> 0 .. Len(stream')]
  BY <1>1
<1>6. ret' \in Int /\ MAX_LEN \in Nat
  BY DEF ConnInv, RioInv, TypeOK
<1>7. CASE ret' \notin 1 .. MAX_LEN
  <2>1. recvResult' # "SUCCESS" /\ got' = got
    BY <1>6, <1>7, Answers
  <2> QED
    BY <1>1, <1>3, <1>4, <1>5, <2>1 DEF RoundInv, Received
<1>8. CASE ret' \in 1 .. MAX_LEN
  <2>1. recvResult' = "SUCCESS" /\ got' = got + 1
    BY <1>6, <1>8, Answers
  <2>2. Received'
    BY <1>1, <1>3, <2>1 DEF Received
  <2>3. RioInv' /\ ret' > 0
    BY <1>8 DEF ConnInv
  <2>a. (RioInv /\ rpc = "idle" /\ ret > 0 =>
           /\ ret \in 1 .. maxlen - 1 /\ start \in Nat /\ start + ret <= Len(stream)
           /\ Taken = start + ret
           /\ Line \in Seq(Char) /\ Len(Line) = ret /\ Last(Line) = Line[ret]
           /\ \A i \in 1 .. ret : Line[i] = stream[start + i] /\ Line[i] = buf[i - 1]
           /\ \A i \in 1 .. ret - 1 : Line[i] # Newline)'
    BY LineIs, PTL
  <2>4. /\ start' \in Nat /\ start' + ret' <= Len(stream') /\ Taken' = start' + ret'
        /\ Len(Line') = ret'
    BY <1>1, <2>3, <2>a
  <2>5. Written' = Written /\ Written \in Nat /\ Taken' <= Written'
    <3>1. (RioInv => Written \in Nat /\ Taken <= Written)'
      BY TakenIsWritten, PTL
    <3>2. Written' = Written
      BY <1>1 DEF Written
    <3> QED
      BY <2>3, <3>1, <3>2
  <2>6. start = b[got]
    <3>2. start' = start /\ ret' \in Nat \ {0}
      BY <1>1, <1>6, <1>8
    <3>0. start \in Nat /\ ret' \in Nat \ {0} /\ start + ret' <= Written
      BY <2>4, <2>5, <3>2
    <3>1. start # Written
      BY <2>5, <3>0
    <3> QED
      BY <1>2, <3>1 DEF Between
  <2>7. got + 1 \in 1 .. Len(accepted) /\ (got + 1) - 1 = got
    <3>1. got # Len(accepted)
      BY <1>1, <1>2, <1>6, <1>8, <2>4, <2>6 DEF Ends
    <3>2. Len(accepted) \in Nat
      BY DEF ConnTypeOK
    <3> QED
      BY <1>3, <3>1, <3>2
  <2>0. (\A m \in Messages :
           RioInv /\ rpc = "idle" /\ ret > 0 /\ IsWhole /\ start + Len(Encode(m)) <= Len(stream)
             /\ (\A i \in 1 .. Len(Encode(m)) : stream[start + i] = Encode(m)[i])
           => Line = Encode(m))'
    BY LineIsMessage, PTL
  <2>8. PICK m \in Messages : m = accepted[got + 1]
    BY <2>7 DEF ConnTypeOK
  <2>9. /\ b[got + 1] = start + Len(Encode(m))
        /\ \A i \in 1 .. Len(Encode(m)) : stream[start + i] = Encode(m)[i]
        /\ b[got + 1] <= Len(stream)
    <3>1. /\ b[got + 1] = b[(got + 1) - 1] + Len(Encode(accepted[got + 1]))
          /\ \A i \in 1 .. Len(Encode(accepted[got + 1])) :
               stream[b[(got + 1) - 1] + i] = Encode(accepted[got + 1])[i]
      BY <1>2, <2>7, Zenon DEF Ends
    <3>2. b[got + 1] \in 0 .. Len(stream)
      BY <1>2, <1>3, <2>7
    <3> QED
      BY <2>6, <2>7, <2>8, <3>1, <3>2
  <2>10. CASE IsWhole'
    <3>1. (Line = Encode(m))'
      <4>1. start' + Len(Encode(m)) <= Len(stream')
            /\ \A i \in 1 .. Len(Encode(m)) : stream'[start' + i] = Encode(m)[i]
        BY <1>1, <2>9
      <4> QED
        BY <1>1, <2>0, <2>3, <2>10, <4>1
    <3>2. ret' = Len(Encode(m))
      BY <2>4, <3>1
    <3>3. Between(Taken, b)'
      BY <1>1, <2>1, <2>4, <2>9, <3>2 DEF Between
    <3>4. (Line = Encode(accepted[got]))'
      BY <1>1, <2>1, <2>8, <3>1
    <3> QED
      BY <1>1, <1>4, <1>5, <2>1, <2>7, <3>3, <3>4 DEF RoundInv
  <2>11. CASE ~IsWhole'
    <3>1. (conn # "up" /\ Taken = Written)'
      <4>1. (ConnInv => NeverCut)'
        BY CutLast, PTL
      <4> QED
        BY <2>2, <2>11, <4>1 DEF NeverCut
    <3>2. Between(Taken, b)'
      BY <3>1 DEF Between
    <3> QED
      BY <1>1, <1>4, <1>5, <2>1, <2>7, <2>11, <3>2 DEF RoundInv
  <2> QED
    BY <2>10, <2>11
<1> QED
  BY <1>7, <1>8

LEMMA RoundStep ==
  ASSUME RoundInv, ConnTypeOK, ConnInv, ConnInv', [ConnNext]_vars
  PROVE  RoundInv'
<1>1. CASE Returns
  BY <1>1, RoundReturns
<1>2. CASE \E m \in Messages : SendBegin(m)
  BY <1>2, RoundSends
<1>3. CASE OtherWrites
  BY <1>3 DEF OtherWrites, RoundInv, sendVars
<1>4. ASSUME ~Returns, UNCHANGED <<writer, accepted, stream, got>>,
             rpc' = "read" => \/ rpc = "read" /\ start' = start
                              \/ rpc = "idle" /\ recvResult = "SUCCESS" /\ start' = Taken,
             conn # "up" => conn' # "up" /\ nleft' = nleft
      PROVE  RoundInv'
  <2>1. rpc' = "idle" => rpc = "idle" /\ recvResult' = recvResult /\ Taken' = Taken
    <3> SUFFICES ASSUME rpc' = "idle" PROVE UNCHANGED <<rpc, recvResult, fetched, rio_cnt>>
      BY DEF Taken, Unread
    <3> QED
      BY <1>4, Stays
  <2>2. conn # "up" => conn' # "up" /\ Written' = Written
    BY <1>4 DEF Written
  <2>3. Received' => Received /\ Line' = Line
    BY <1>4, LineStays
  <2> QED
    BY <1>4, <2>1, <2>2, <2>3, RoundStays
<1>5. ASSUME ~Returns, UNCHANGED <<writer, accepted, stream, nleft, got, conn, rpc, start>>
      PROVE  RoundInv'
  BY <1>4, <1>5
<1>6. CASE ReceiveReads /\ ~Returns
  <2>1. UNCHANGED <<writer, accepted, stream, nleft, conn, start>> /\ rpc = "read"
    BY <1>6 DEF ReceiveReads, Reading, Refill, ReadError, ReadEof, TakeByte, Refilling,
                writerVars, sendVars, lineVars
  <2>2. got' = got
    BY <1>6 DEF Returns, ReceiveReads, recvVars
  <2> QED
    BY <1>4, <1>6, <2>1, <2>2
<1>7. CASE ReceiveBegin
  <2>1. UNCHANGED <<writer, accepted, stream, nleft, got, conn>>
        /\ rpc = "idle" /\ recvResult = "SUCCESS" /\ start' = Taken /\ rpc' = "read"
    BY <1>7 DEF ReceiveBegin, ReadLine, writerVars, sendVars, recvVars
  <2>2. ~Returns
    BY <2>1 DEF Returns
  <2> QED
    BY <1>4, <2>1, <2>2
<1>8. CASE SendWrites
  <2>1. UNCHANGED <<writer, accepted, stream, got, conn, rpc, start>>
        /\ (conn # "up" => nleft' = nleft)
    BY <1>8 DEF SendWrites, Sending, WriteSome, WriteFails, lineVars, recvVars
  <2>2. ~Returns
    BY <2>1, RioReads DEF Returns
  <2> QED
    BY <1>4, <2>1, <2>2
<1>9. CASE Environment
  <2>1. UNCHANGED <<writer, accepted, stream, nleft, got, start>>
        /\ (rpc' = rpc \/ rpc' = "closed") /\ (conn # "up" => conn' # "up")
    BY <1>9 DEF Environment, CloseWriter, CloseReader, Reset, Interrupted, Refilling,
                writerVars, lineVars, sendVars, recvVars
  <2>2. ~Returns
    BY <2>1, RioReads DEF Returns
  <2> QED
    BY <1>4, <2>1, <2>2
<1>10. CASE \E m \in Messages : SendRefused(m) \/ SendAgain(m)
  <2>1. UNCHANGED <<writer, accepted, stream, nleft, got, conn, rpc, start>>
    BY <1>10 DEF SendRefused, SendAgain, rioRunVars, writerVars, lineVars, recvVars
  <2> QED
    BY <1>5, <2>1, RioReads DEF Returns
<1>11. CASE UNCHANGED vars
  <2>1. UNCHANGED <<writer, accepted, stream, nleft, got, conn, rpc, start>>
    BY <1>11 DEF vars, rioRunVars, writerVars, lineVars, sendVars, recvVars
  <2> QED
    BY <1>5, <2>1, RioReads DEF Returns
<1> QED
  BY <1>1, <1>2, <1>3, <1>6, <1>7, <1>8, <1>9, <1>10, <1>11 DEF ConnNext

-----------------------------------------------------------------------------
\* The variables keep their types, and nothing is stored outside buf and rio_buf.
THEOREM ConnTypes == ConnSpec => []ConnTypeOK
<1>1. ConnInit => ConnTypeOK
  BY InitInv DEF ConnInit, Init, RioInv, ConnTypeOK, Result
<1>2. ConnTypeOK /\ ConnInv /\ ConnInv' /\ [ConnNext]_vars => ConnTypeOK'
  BY ConnTypesStep
<1> QED
  BY <1>1, <1>2, ConnInvariance, PTL DEF ConnSpec

\* Whatever the stack held before, receive makes of a whole line with a colon what
\* is in the line.
THEOREM LinesDecoded == ConnSpec => []DecodesLine
<1>1. ConnInit => DecodesLine
  BY DEF ConnInit, DecodesLine, Received
<1>2. DecodesLine /\ ConnInv /\ ConnInv' /\ [ConnNext]_vars => DecodesLine'
  BY DecodesStep
<1> QED
  BY <1>1, <1>2, ConnInvariance, PTL DEF ConnSpec

\* Where the messages of the stream end, and that receive is between two of them.
THEOREM MessagesInStep == ConnSpec => []RoundInv
<1>1. ConnInit => RoundInv
  <2> SUFFICES ASSUME ConnInit PROVE RoundInv
    OBVIOUS
  <2> DEFINE b == [k \in {0} |-> 0]
  <2>1. /\ accepted = <<>> /\ stream = <<>> /\ got = 0 /\ rpc = "idle"
        /\ fetched = 0 /\ rio_cnt = 0
    BY DEF ConnInit, Init, InitBuffer
  <2>2. Len(accepted) = 0 /\ Len(stream) = 0 /\ 0 .. 0 = {0}
    BY <2>1
  <2>3. b \in [0 .. Len(accepted) -> 0 .. Len(stream)] /\ b[0] = 0
    BY <2>2
  <2>4. Ends(b) /\ Between(Taken, b)
    BY <2>1, <2>2, <2>3 DEF Ends, Between, Taken, Unread
  <2> HIDE DEF b
  <2> QED
    BY <2>1, <2>2, <2>3, <2>4 DEF RoundInv, Received
<1>2. RoundInv /\ ConnTypeOK /\ ConnInv /\ ConnInv' /\ [ConnNext]_vars => RoundInv'
  BY RoundStep
<1> QED
  BY <1>1, <1>2, ConnInvariance, ConnTypes, PTL DEF ConnSpec

\* What one Connection sends the other receives: in order, nothing doubled or left
\* out, and equal up to a carriage return.
THEOREM MessagesGoThrough == ConnSpec => []RoundTrip
<1>1. RoundInv /\ ConnTypeOK /\ DecodesLine => RoundTrip
  <2> SUFFICES ASSUME RoundInv, ConnTypeOK, DecodesLine, Received, IsWhole, writer = "connection"
               PROVE  got <= Len(accepted) /\ msg = AsReceived(accepted[got])
    BY DEF RoundTrip
  <2>1. got \in 1 .. Len(accepted) /\ Line = Encode(accepted[got])
    BY DEF RoundInv, Received
  <2>2. PICK m \in Messages : m = accepted[got]
    BY <2>1 DEF ConnTypeOK
  <2>3. Colon \in ToSet(Line)
    <3> DEFINE line == Encode(m)
               k == Len(m.tag)
               d == Len(m.data)
    <3>1. /\ Len(line) = k + d + 2 /\ line[k + 1] = Colon
          /\ line \in Seq(Char) /\ m.tag \in Seq(Char) /\ m.data \in Seq(Char)
      BY EncodedParts
    <3>2. k \in Nat /\ d \in Nat
      BY <3>1
    <3> HIDE DEF line, k, d
    <3>3. k + 1 \in DOMAIN line /\ line[k + 1] = Colon
      BY <3>1, <3>2
    <3>4. Colon \in ToSet(line)
      BY <3>3, Zenon DEF ToSet
    <3> QED
      BY <2>1, <2>2, <3>4 DEF line
  <2>4. msg = Decode(Encode(m))
    BY <2>1, <2>2, <2>3 DEF DecodesLine
  <2> QED
    BY <2>1, <2>2, <2>4, DecodeEncode
<1> QED
  BY <1>1, MessagesInStep, ConnTypes, LinesDecoded, PTL
=============================================================================
