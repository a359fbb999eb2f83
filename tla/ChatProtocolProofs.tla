------------------------- MODULE ChatProtocolProofs -------------------------
(***************************************************************************)
(* The clients and the server stay in step, and a receiver prints what was *)
(* said in its room under another name and is not too long, for any number *)
(* of clients, any names, rooms and texts without a newline, and any       *)
(* lengths of the words.                                                   *)
(*                                                                         *)
(* The first part is about texts: what is left of a message that is sent   *)
(* and received, and where the receiver takes a delivery apart.  The       *)
(* second is about one client and its worker (StepInv), the third about    *)
(* what is said in a receiver's room and what it prints (PrintInv).        *)
(***************************************************************************)
EXTENDS ChatProtocol, SequenceTheorems, FiniteSetTheorems, WellFoundedInduction, TLAPS

-----------------------------------------------------------------------------
(***************************************************************************)
(* Texts.                                                                  *)
(***************************************************************************)

\* A set of natural numbers has a least element.
LEMMA Least ==
  ASSUME NEW S \in SUBSET Nat, S # {}
  PROVE  Min(S) \in S /\ \A j \in S : Min(S) =< j
<1> DEFINE R == {ss \in Nat \X Nat : ss[1] < ss[2]}
<1>1. IsWellFoundedOn(R, Nat)
  BY NatLessThanWellFounded DEF OpToRel
<1>2. \A x, y \in Nat : y < x => <<y, x>> \in R
  OBVIOUS
<1> HIDE DEF R
<1>3. PICK x \in S : \A y \in S : ~ (<<y, x>> \in R)
  BY <1>1, WFMin, Zenon
<1>4. \A y \in S : x =< y
  <2>1. \A y \in S : y \in Nat /\ x \in Nat /\ ~ (y < x)
    BY <1>2, <1>3
  <2> QED
    BY <2>1
<1> QED
  BY <1>3, <1>4, Zenon DEF Min

\* Find goes to the first of the words it looks for, or behind the text.
LEMMA FindIs ==
  ASSUME NEW T, NEW s \in Seq(T), NEW i \in Nat \ {0}, NEW cs
  PROVE  /\ Find(s, i, cs) \in 1 .. Len(s) + 1
         /\ Find(s, i, cs) <= Len(s) => Find(s, i, cs) >= i /\ s[Find(s, i, cs)] \in cs
         /\ \A j \in i .. Len(s) : j < Find(s, i, cs) => s[j] \notin cs
<1> DEFINE S == {j \in i .. Len(s) : s[j] \in cs} \cup {Len(s) + 1}
<1>1. Len(s) \in Nat
  OBVIOUS
<1>2. S \in SUBSET Nat /\ S # {}
  BY <1>1
<1>3. Find(s, i, cs) = Min(S)
  BY DEF Find
<1>4. /\ Len(s) + 1 \in S
      /\ \A j \in S : j \in 1 .. Len(s) + 1 /\ (j <= Len(s) => j >= i /\ s[j] \in cs)
      /\ \A j \in i .. Len(s) : s[j] \in cs => j \in S
  BY <1>1
<1> HIDE DEF S
<1>5. Find(s, i, cs) \in S /\ \A j \in S : Find(s, i, cs) =< j
  BY <1>2, <1>3, Least
<1> QED
  BY <1>1, <1>4, <1>5

\* There is only one first place.
LEMMA FoundAt ==
  ASSUME NEW T, NEW s \in Seq(T), NEW i \in Nat \ {0}, NEW cs, NEW k \in i .. Len(s),
         s[k] \in cs, \A j \in i .. k - 1 : s[j] \notin cs
  PROVE  Find(s, i, cs) = k
<1> DEFINE f == Find(s, i, cs)
<1>1. /\ f \in 1 .. Len(s) + 1
      /\ f <= Len(s) => f >= i /\ s[f] \in cs
      /\ \A j \in i .. Len(s) : j < f => s[j] \notin cs
  BY FindIs
<1> HIDE DEF f
<1>2. Len(s) \in Nat
  OBVIOUS
<1>3. f <= k
  BY <1>1, <1>2
<1>4. f \in i .. k /\ s[f] \in cs
  BY <1>1, <1>2, <1>3
<1>5. f = k
  BY <1>2, <1>4
<1> QED
  BY <1>5 DEF f

\* The words that the programs look for.
LEMMA Words ==
  /\ Colon \in Word /\ CR \in Word /\ Newline \in Word /\ Colon # CR /\ Colon # Newline
  /\ \A t \in Tags : t \in Word /\ t # Colon
BY ProtocolAssumption, AnswersAssumption

\* Two texts one behind the other.
LEMMA Concat ==
  ASSUME NEW T, NEW s \in Seq(T), NEW t \in Seq(T)
  PROVE  /\ s \o t \in Seq(T) /\ Len(s \o t) = Len(s) + Len(t)
         /\ \A i \in 1 .. Len(s) : (s \o t)[i] = s[i]
         /\ \A i \in 1 .. Len(t) : (s \o t)[Len(s) + i] = t[i]
<1> DEFINE st == s \o t
<1>1. Len(s) \in Nat /\ Len(t) \in Nat
  OBVIOUS
<1>2. /\ st \in Seq(T) /\ Len(st) = Len(s) + Len(t)
      /\ \A i \in 1 .. Len(s) + Len(t) : st[i] = IF i <= Len(s) THEN s[i] ELSE t[i - Len(s)]
  BY ConcatProperties, Zenon
<1> HIDE DEF st
<1>3. \A i \in 1 .. Len(s) : st[i] = s[i]
  BY <1>1, <1>2
<1>4. ASSUME NEW i \in 1 .. Len(t) PROVE st[Len(s) + i] = t[i]
  <2>1. /\ Len(s) + i \in 1 .. Len(s) + Len(t) /\ ~ (Len(s) + i <= Len(s))
        /\ (Len(s) + i) - Len(s) = i
    BY <1>1
  <2> QED
    BY <1>2, <2>1
<1> QED
  BY <1>2, <1>3, <1>4 DEF st

\* A part of a text.
LEMMA PartOf ==
  ASSUME NEW T, NEW s \in Seq(T), NEW a \in Nat \ {0}, NEW z \in Nat, a <= z + 1, z <= Len(s)
  PROVE  /\ SubSeq(s, a, z) \in Seq(T) /\ Len(SubSeq(s, a, z)) = z - a + 1
         /\ \A i \in 1 .. z - a + 1 : SubSeq(s, a, z)[i] = s[a + i - 1]
<1> DEFINE p == SubSeq(s, a, z)
<1>1. \A i \in a .. z : s[i] \in T
  OBVIOUS
<1>2. /\ p \in Seq(T) /\ Len(p) = IF a <= z THEN z - a + 1 ELSE 0
      /\ \A i \in 1 .. z - a + 1 : p[i] = s[a + i - 1]
  BY <1>1, SubSeqProperties
<1> HIDE DEF p
<1>3. Len(p) = z - a + 1
  BY <1>2
<1> QED
  BY <1>2, <1>3 DEF p

\* A message that is encoded: its tag, a colon, its data and a newline.
LEMMA Encoded ==
  ASSUME NEW t \in Word, NEW d \in Seq(Word)
  PROVE  /\ Encode(Msg(t, d)) \in Seq(Word)
         /\ Len(Encode(Msg(t, d))) = Len(d) + 3
         /\ Encode(Msg(t, d))[1] = t
         /\ Encode(Msg(t, d))[2] = Colon
         /\ \A i \in 1 .. Len(d) : Encode(Msg(t, d))[i + 2] = d[i]
         /\ Encode(Msg(t, d))[Len(d) + 3] = Newline
<1> DEFINE tag == <<t>>
           colon == <<Colon>>
           last == <<Newline>>
           front == tag \o colon
           body == front \o d
           line == body \o last
<1>1. Encode(Msg(t, d)) = line
  BY DEF Encode, Msg
<1>2. /\ tag \in Seq(Word) /\ Len(tag) = 1 /\ tag[1] = t
      /\ colon \in Seq(Word) /\ Len(colon) = 1 /\ colon[1] = Colon
      /\ last \in Seq(Word) /\ Len(last) = 1 /\ last[1] = Newline
      /\ Len(d) \in Nat
  BY Words
<1> HIDE DEF tag, colon, last
<1>3. front \in Seq(Word) /\ Len(front) = 2 /\ front[1] = t /\ front[2] = Colon
  <2>1. /\ front \in Seq(Word) /\ Len(front) = Len(tag) + Len(colon)
        /\ \A i \in 1 .. Len(tag) : front[i] = tag[i]
        /\ \A i \in 1 .. Len(colon) : front[Len(tag) + i] = colon[i]
    <3>1. tag \in Seq(Word) /\ colon \in Seq(Word)
      BY <1>2
    <3> QED
      BY <3>1, Concat
  <2> HIDE DEF front
  <2> QED
    BY <1>2, <2>1
<1> HIDE DEF front
<1>4. /\ body \in Seq(Word) /\ Len(body) = Len(front) + Len(d)
      /\ \A i \in 1 .. Len(front) : body[i] = front[i]
      /\ \A i \in 1 .. Len(d) : body[Len(front) + i] = d[i]
  BY <1>3, Concat
<1> HIDE DEF body
<1>5. /\ line \in Seq(Word) /\ Len(line) = Len(body) + Len(last)
      /\ \A i \in 1 .. Len(body) : line[i] = body[i]
      /\ \A i \in 1 .. Len(last) : line[Len(body) + i] = last[i]
  <2>1. body \in Seq(Word) /\ last \in Seq(Word)
    BY <1>2, <1>4
  <2> QED
    BY <2>1, Concat
<1> HIDE DEF line
<1>6. Len(line) = Len(d) + 3 /\ line[1] = t /\ line[2] = Colon
  BY <1>2, <1>3, <1>4, <1>5
<1>7. line[Len(d) + 3] = Newline
  BY <1>2, <1>3, <1>4, <1>5
<1>8. ASSUME NEW i \in 1 .. Len(d) PROVE line[i + 2] = d[i]
  <2>1. i + 2 = Len(front) + i /\ i + 2 \in 1 .. Len(body)
    BY <1>2, <1>3, <1>4
  <2> QED
    BY <1>4, <1>5, <2>1
<1> QED
  BY <1>1, <1>5, <1>6, <1>7, <1>8

\* What is received of a message has its tag, and of its data what comes before the
\* first word that ends a line.
LEMMA LineIs ==
  ASSUME NEW t \in Tags, NEW d \in Seq(Word)
  PROVE  \E n \in 0 .. Len(d) :
           /\ Line(Msg(t, d)) = Msg(t, SubSeq(d, 1, n))
           /\ SubSeq(d, 1, n) \in Text
           /\ n < Len(d) => d[n + 1] \in {CR, Newline}
<1> DEFINE line == Encode(Msg(t, d))
           end == Find(line, 3, {CR, Newline})
<1>0. t \in Word /\ t # Colon /\ Len(d) \in Nat
  BY Words
<1>1. /\ line \in Seq(Word) /\ Len(line) = Len(d) + 3
      /\ line[1] = t /\ line[2] = Colon
      /\ \A i \in 1 .. Len(d) : line[i + 2] = d[i]
      /\ line[Len(d) + 3] = Newline
  BY <1>0, Encoded
<1> HIDE DEF line
<1>2. Find(line, 1, {Colon}) = 2
  <2>1. 2 \in 1 .. Len(line) /\ line[2] \in {Colon}
    BY <1>0, <1>1
  <2>2. \A j \in 1 .. 2 - 1 : line[j] \notin {Colon}
    BY <1>0, <1>1
  <2>3. line \in Seq(Word) /\ 1 \in Nat \ {0} /\ 2 \in 1 .. Len(line)
    BY <1>1, <2>1
  <2> QED
    BY <2>1, <2>2, <2>3, FoundAt
<1>3. /\ end \in 3 .. Len(line) /\ line[end] \in {CR, Newline}
      /\ \A j \in 3 .. end - 1 : line[j] \notin {CR, Newline}
  <2>1. /\ end \in 1 .. Len(line) + 1
        /\ end <= Len(line) => end >= 3 /\ line[end] \in {CR, Newline}
        /\ \A j \in 3 .. Len(line) : j < end => line[j] \notin {CR, Newline}
    <3>1. line \in Seq(Word) /\ 3 \in Nat \ {0}
      BY <1>1
    <3> QED
      BY <3>1, FindIs
  <2> HIDE DEF end
  <2>2. end <= Len(line)
    BY <1>0, <1>1, <2>1
  <2> QED
    BY <1>0, <1>1, <2>1, <2>2
<1>4. Line(Msg(t, d)) = [tag |-> SubSeq(line, 1, 1), data |-> SubSeq(line, 3, end - 1)]
  <2>1. 2 - 1 = 1 /\ 2 + 1 = 3
    OBVIOUS
  <2> QED
    BY <1>2, <2>1, Zenon DEF Line, Decode, line
<1> HIDE DEF end
<1>5. SubSeq(line, 1, 1) = <<t>>
  <2> DEFINE p == SubSeq(line, 1, 1)
             q == <<t>>
  <2>1. 1 \in Nat \ {0} /\ 1 \in Nat /\ 1 <= 1 + 1 /\ 1 <= Len(line)
    BY <1>0, <1>1
  <2>2. /\ p \in Seq(Word) /\ Len(p) = 1 - 1 + 1
        /\ \A i \in 1 .. 1 - 1 + 1 : p[i] = line[1 + i - 1]
    BY <1>1, <2>1, PartOf
  <2>3. q \in Seq(Word) /\ Len(q) = 1 /\ q[1] = t
    BY <1>0
  <2> HIDE DEF p, q
  <2>4. p = q
    BY <1>1, <2>2, <2>3, SeqEqual
  <2> QED
    BY <2>4 DEF p, q
<1> DEFINE n == end - 3
           p == SubSeq(line, 3, end - 1)
           q == SubSeq(d, 1, n)
<1>6. n \in 0 .. Len(d)
  BY <1>0, <1>1, <1>3
<1>7. ASSUME NEW i \in 1 .. n PROVE line[i + 2] = d[i] /\ d[i] \in Word \ {CR, Newline}
  <2>1. i \in 1 .. Len(d) /\ i + 2 \in 3 .. end - 1
    BY <1>0, <1>1, <1>3, <1>6
  <2> QED
    BY <1>1, <1>3, <2>1
<1>8. p \in Seq(Word) /\ Len(p) = n /\ \A i \in 1 .. n : p[i] = line[i + 2]
  <2>1. 3 \in Nat \ {0} /\ end - 1 \in Nat /\ 3 <= end - 1 + 1 /\ end - 1 <= Len(line)
    BY <1>3
  <2>2. /\ p \in Seq(Word) /\ Len(p) = end - 1 - 3 + 1
        /\ \A i \in 1 .. end - 1 - 3 + 1 : p[i] = line[3 + i - 1]
    BY <1>1, <2>1, PartOf
  <2> HIDE DEF p
  <2>3. \A i \in 1 .. n : i \in 1 .. end - 1 - 3 + 1 /\ 3 + i - 1 = i + 2
    BY <1>3
  <2> QED
    BY <1>3, <2>2, <2>3
<1>9. q \in Seq(Word) /\ Len(q) = n /\ \A i \in 1 .. n : q[i] = d[i]
  <2>1. 1 \in Nat \ {0} /\ n \in Nat /\ 1 <= n + 1 /\ n <= Len(d)
    BY <1>6
  <2> HIDE DEF n
  <2>2. /\ q \in Seq(Word) /\ Len(q) = n - 1 + 1
        /\ \A i \in 1 .. n - 1 + 1 : q[i] = d[1 + i - 1]
    BY <2>1, PartOf
  <2> HIDE DEF q
  <2> QED
    BY <2>1, <2>2
<1> HIDE DEF p, q
<1>10. p = q
  <2>1. p \in Seq(Word) /\ q \in Seq(Word) /\ Len(p) = Len(q)
    BY <1>8, <1>9
  <2>2. \A i \in 1 .. Len(p) : p[i] = q[i]
    BY <1>7, <1>8, <1>9
  <2> QED
    BY <2>1, <2>2, SeqEqual
<1>11. q \in Text
  BY <1>7, <1>9 DEF Text
<1>12. n < Len(d) => d[n + 1] \in {CR, Newline}
  <2> SUFFICES ASSUME n < Len(d) PROVE d[n + 1] \in {CR, Newline}
    OBVIOUS
  <2>1. n + 1 \in 1 .. Len(d) /\ (n + 1) + 2 = end
    BY <1>0, <1>3, <1>6
  <2> QED
    BY <1>1, <1>3, <2>1
<1> HIDE DEF n
<1>13. Line(Msg(t, d)) = Msg(t, q)
  BY <1>4, <1>5, <1>10 DEF Msg, p
<1> QED
  BY <1>6, <1>11, <1>12, <1>13 DEF q

\* It is a line.
LEMMA LineType ==
  ASSUME NEW t \in Tags, NEW d \in Seq(Word)
  PROVE  Line(Msg(t, d)) \in Lines /\ Line(Msg(t, d)).tag = <<t>>
<1>1. PICK n \in 0 .. Len(d) : /\ Line(Msg(t, d)) = Msg(t, SubSeq(d, 1, n))
                               /\ SubSeq(d, 1, n) \in Text
  BY LineIs
<1> DEFINE q == SubSeq(d, 1, n)
<1>2. Line(Msg(t, d)) = [tag |-> <<t>>, data |-> q] /\ q \in Text
  BY <1>1 DEF Msg
<1> HIDE DEF q
<1> QED
  BY <1>2 DEF Lines

\* What is sent as one line is a text.
LEMMA OneLineWords ==
  ASSUME NEW d \in OneLine
  PROVE  d \in Seq(Word) /\ \A i \in 1 .. Len(d) : d[i] # Newline
BY DEF OneLine

\* What was received before is received unchanged when it is sent again.
LEMMA LinePlain ==
  ASSUME NEW t \in Tags, NEW d \in Text
  PROVE  Line(Msg(t, d)) = Msg(t, d)
<1>1. d \in Seq(Word) /\ \A i \in 1 .. Len(d) : d[i] \notin {CR, Newline}
  BY DEF Text
<1>2. PICK n \in 0 .. Len(d) : /\ Line(Msg(t, d)) = Msg(t, SubSeq(d, 1, n))
                               /\ n < Len(d) => d[n + 1] \in {CR, Newline}
  BY <1>1, LineIs
<1>3. n = Len(d)
  BY <1>1, <1>2
<1> QED
  BY <1>1, <1>2, <1>3, SubSeqFull

\* Which part of a text another text is.
LEMMA PartIs ==
  ASSUME NEW T, NEW s \in Seq(T), NEW u \in Seq(T), NEW a \in Nat \ {0},
         a + Len(u) - 1 <= Len(s), \A i \in 1 .. Len(u) : s[a + i - 1] = u[i]
  PROVE  SubSeq(s, a, a + Len(u) - 1) = u
<1> DEFINE z == a + Len(u) - 1
           p == SubSeq(s, a, z)
<1>1. Len(u) \in Nat /\ z \in Nat /\ a <= z + 1 /\ z <= Len(s) /\ z - a + 1 = Len(u)
  OBVIOUS
<1> HIDE DEF z
<1>2. /\ p \in Seq(T) /\ Len(p) = z - a + 1
      /\ \A i \in 1 .. z - a + 1 : p[i] = s[a + i - 1]
  BY <1>1, PartOf
<1> HIDE DEF p
<1>3. Len(p) = Len(u) /\ \A i \in 1 .. Len(p) : p[i] = u[i]
  BY <1>1, <1>2
<1>4. p = u
  BY <1>2, <1>3, SeqEqual
<1> QED
  BY <1>4 DEF p, z

\* The parts of a delivery.
LEMMA PayloadParts ==
  ASSUME NEW r \in Text, NEW f \in Text, NEW t \in Text
  PROVE  /\ Payload(r, f, t) \in Text
         /\ Len(Payload(r, f, t)) = Len(r) + Len(f) + Len(t) + 2
         /\ \A i \in 1 .. Len(r) : Payload(r, f, t)[i] = r[i]
         /\ Payload(r, f, t)[Len(r) + 1] = Colon
         /\ \A i \in 1 .. Len(f) : Payload(r, f, t)[Len(r) + 1 + i] = f[i]
         /\ Payload(r, f, t)[Len(r) + Len(f) + 2] = Colon
         /\ \A i \in 1 .. Len(t) : Payload(r, f, t)[Len(r) + Len(f) + 2 + i] = t[i]
<1> DEFINE colon == <<Colon>>
           T == Word \ {CR, Newline}
           p1 == r \o colon
           p2 == p1 \o f
           p3 == p2 \o colon
           p4 == p3 \o t
<1>1. Payload(r, f, t) = p4
  BY DEF Payload
<1>2. colon \in Seq(T) /\ Len(colon) = 1 /\ colon[1] = Colon
  BY Words
<1>3. r \in Seq(T) /\ f \in Seq(T) /\ t \in Seq(T)
  BY DEF Text
<1>4. Len(r) \in Nat /\ Len(f) \in Nat /\ Len(t) \in Nat
  BY <1>3
<1> HIDE DEF colon, T
<1>5. /\ p1 \in Seq(T) /\ Len(p1) = Len(r) + Len(colon)
      /\ \A i \in 1 .. Len(r) : p1[i] = r[i]
      /\ \A i \in 1 .. Len(colon) : p1[Len(r) + i] = colon[i]
  <2>1. r \in Seq(T) /\ colon \in Seq(T)
    BY <1>2, <1>3
  <2> QED
    BY <2>1, Concat
<1> HIDE DEF p1
<1>6. Len(p1) = Len(r) + 1 /\ p1[Len(r) + 1] = Colon
  BY <1>2, <1>4, <1>5
<1>7. /\ p2 \in Seq(T) /\ Len(p2) = Len(p1) + Len(f)
      /\ \A i \in 1 .. Len(p1) : p2[i] = p1[i]
      /\ \A i \in 1 .. Len(f) : p2[Len(p1) + i] = f[i]
  <2>1. p1 \in Seq(T) /\ f \in Seq(T)
    BY <1>3, <1>5
  <2> QED
    BY <2>1, Concat
<1> HIDE DEF p2
<1>8. /\ p3 \in Seq(T) /\ Len(p3) = Len(p2) + Len(colon)
      /\ \A i \in 1 .. Len(p2) : p3[i] = p2[i]
      /\ \A i \in 1 .. Len(colon) : p3[Len(p2) + i] = colon[i]
  <2>1. p2 \in Seq(T) /\ colon \in Seq(T)
    BY <1>2, <1>7
  <2> QED
    BY <2>1, Concat
<1> HIDE DEF p3
<1>9. Len(p3) = Len(r) + Len(f) + 2 /\ p3[Len(r) + Len(f) + 2] = Colon
  BY <1>2, <1>4, <1>6, <1>7, <1>8
<1>10. /\ p4 \in Seq(T) /\ Len(p4) = Len(p3) + Len(t)
       /\ \A i \in 1 .. Len(p3) : p4[i] = p3[i]
       /\ \A i \in 1 .. Len(t) : p4[Len(p3) + i] = t[i]
  <2>1. p3 \in Seq(T) /\ t \in Seq(T)
    BY <1>3, <1>8
  <2> QED
    BY <2>1, Concat
<1> HIDE DEF p4
<1>11. Len(p4) = Len(r) + Len(f) + Len(t) + 2
  BY <1>4, <1>9, <1>10
<1>12. ASSUME NEW i \in 1 .. Len(r) + 1 PROVE p4[i] = p1[i]
  <2>1. i \in 1 .. Len(p1) /\ i \in 1 .. Len(p2) /\ i \in 1 .. Len(p3)
    BY <1>4, <1>6, <1>7, <1>9
  <2> QED
    BY <1>7, <1>8, <1>10, <2>1
<1>13. /\ \A i \in 1 .. Len(r) : p4[i] = r[i]
       /\ p4[Len(r) + 1] = Colon
  BY <1>4, <1>5, <1>6, <1>12
<1>14. ASSUME NEW i \in 1 .. Len(f) PROVE p4[Len(r) + 1 + i] = f[i]
  <2>1. /\ Len(r) + 1 + i = Len(p1) + i
        /\ Len(r) + 1 + i \in 1 .. Len(p2) /\ Len(r) + 1 + i \in 1 .. Len(p3)
    BY <1>4, <1>6, <1>7, <1>9
  <2>2. p4[Len(r) + 1 + i] = p2[Len(p1) + i]
    BY <1>8, <1>10, <2>1
  <2> QED
    BY <1>7, <2>2
<1>15. p4[Len(r) + Len(f) + 2] = Colon
  <2>1. Len(r) + Len(f) + 2 \in 1 .. Len(p3)
    BY <1>4, <1>9
  <2> QED
    BY <1>9, <1>10, <2>1
<1>16. \A i \in 1 .. Len(t) : p4[Len(r) + Len(f) + 2 + i] = t[i]
  BY <1>9, <1>10
<1>17. p4 \in Text
  BY <1>10 DEF T, Text
<1> QED
  BY <1>1, <1>11, <1>13, <1>14, <1>15, <1>16, <1>17

\* Two colons, wherever they are, stop the receiver's loops.
LEMMA TwoColons ==
  ASSUME NEW d \in Text, NEW a \in 1 .. Len(d), NEW b \in a + 1 .. Len(d),
         d[a] = Colon, d[b] = Colon
  PROVE  Stops(d)
<1> DEFINE T == Word \ {CR, Newline}
           i == Find(d, 1, {Colon})
           j == Find(d, i + 1, {Colon})
<1>1. d \in Seq(T) /\ Len(d) \in Nat
  BY DEF Text
<1> HIDE DEF T
<1>2. i \in 1 .. Len(d) + 1 /\ \A k \in 1 .. Len(d) : k < i => d[k] \notin {Colon}
  BY <1>1, FindIs
<1> HIDE DEF i
<1>3. i <= a
  BY <1>1, <1>2
<1>4. j \in 1 .. Len(d) + 1 /\ \A k \in i + 1 .. Len(d) : k < j => d[k] \notin {Colon}
  <2>1. i + 1 \in Nat \ {0}
    BY <1>2
  <2> QED
    BY <1>1, <2>1, FindIs
<1> HIDE DEF j
<1>5. j <= b
  BY <1>1, <1>2, <1>3, <1>4
<1>6. j <= Len(d)
  BY <1>1, <1>4, <1>5
<1> QED
  BY <1>6 DEF Stops, i, j

\* So they stop in a delivery.
LEMMA PayloadStops ==
  ASSUME NEW r \in Text, NEW f \in Text, NEW t \in Text
  PROVE  Payload(r, f, t) \in Text /\ Stops(Payload(r, f, t))
<1> DEFINE p == Payload(r, f, t)
           a == Len(r) + 1
           b == Len(r) + Len(f) + 2
<1>1. p \in Text /\ Len(p) = Len(r) + Len(f) + Len(t) + 2 /\ p[a] = Colon /\ p[b] = Colon
  BY PayloadParts
<1>2. Len(r) \in Nat /\ Len(f) \in Nat /\ Len(t) \in Nat
  BY DEF Text
<1> HIDE DEF p
<1>3. a \in 1 .. Len(p) /\ b \in a + 1 .. Len(p)
  BY <1>1, <1>2
<1> HIDE DEF a, b
<1>4. Stops(p)
  BY <1>1, <1>3, TwoColons
<1> QED
  BY <1>1, <1>4 DEF p

\* What the receiver takes out of a delivery are texts.
LEMMA ParseType ==
  ASSUME NEW d \in Text
  PROVE  Parse(d) \in Sayings
<1> DEFINE T == Word \ {CR, Newline}
           i == Find(d, 1, {Colon})
           j == Find(d, i + 1, {Colon})
<1>1. d \in Seq(T) /\ Len(d) \in Nat
  BY DEF Text
<1>a. Text = Seq(T)
  BY DEF Text
<1> HIDE DEF T
<1>2. i \in 1 .. Len(d) + 1
  BY <1>1, FindIs
<1> HIDE DEF i
<1>3. j \in 1 .. Len(d) + 1
  <2>1. i + 1 \in Nat \ {0}
    BY <1>2
  <2> QED
    BY <1>1, <2>1, FindIs
<1> HIDE DEF j
<1> DEFINE p == SubSeq(d, i + 1, j - 1)
           q == SubSeq(d, j + 1, Len(d))
<1>4. Parse(d) = [from |-> p, text |-> q]
  BY DEF Parse, i, j
<1>5. p \in Seq(T)
  <2>1. i + 1 \in Int /\ j - 1 \in Int /\ \A k \in i + 1 .. j - 1 : d[k] \in T
    BY <1>1, <1>2, <1>3
  <2> QED
    BY <2>1, SubSeqProperties
<1>6. q \in Seq(T)
  <2>1. j + 1 \in Int /\ Len(d) \in Int /\ \A k \in j + 1 .. Len(d) : d[k] \in T
    BY <1>1, <1>3
  <2> QED
    BY <2>1, SubSeqProperties
<1> HIDE DEF p, q
<1> QED
  BY <1>a, <1>4, <1>5, <1>6 DEF Sayings

\* Where the names are plain, they are who spoke and what was said.
LEMMA ParsePayload ==
  ASSUME NEW r \in Text, NEW f \in Text, NEW t \in Text, IsPlain(r), IsPlain(f)
  PROVE  Parse(Payload(r, f, t)) = [from |-> f, text |-> t]
<1> DEFINE T == Word \ {CR, Newline}
           p == Payload(r, f, t)
           i == Len(r) + 1
           j == Len(r) + Len(f) + 2
<1>1. /\ p \in Text /\ Len(p) = Len(r) + Len(f) + Len(t) + 2
      /\ \A k \in 1 .. Len(r) : p[k] = r[k]
      /\ p[i] = Colon
      /\ \A k \in 1 .. Len(f) : p[Len(r) + 1 + k] = f[k]
      /\ p[j] = Colon
      /\ \A k \in 1 .. Len(t) : p[j + k] = t[k]
  BY PayloadParts
<1> HIDE DEF p
<1>2. p \in Seq(T) /\ r \in Seq(T) /\ f \in Seq(T) /\ t \in Seq(T)
  BY <1>1 DEF Text
<1> HIDE DEF T
<1>3. Len(r) \in Nat /\ Len(f) \in Nat /\ Len(t) \in Nat
  BY <1>2
<1>4. (\A k \in 1 .. Len(r) : r[k] # Colon) /\ (\A k \in 1 .. Len(f) : f[k] # Colon)
  BY DEF IsPlain, ToSet
<1>5. Find(p, 1, {Colon}) = i
  <2>1. i \in 1 .. Len(p) /\ p[i] \in {Colon} /\ 1 \in Nat \ {0}
    BY <1>1, <1>3
  <2>2. \A k \in 1 .. i - 1 : p[k] \notin {Colon}
    BY <1>1, <1>3, <1>4
  <2> HIDE DEF i
  <2> QED
    BY <1>2, <2>1, <2>2, FoundAt
<1>6. Find(p, i + 1, {Colon}) = j
  <2>1. j \in i + 1 .. Len(p) /\ p[j] \in {Colon} /\ i + 1 \in Nat \ {0}
    BY <1>1, <1>3
  <2>2. ASSUME NEW k \in i + 1 .. j - 1 PROVE p[k] \notin {Colon}
    <3>1. k - i \in 1 .. Len(f) /\ Len(r) + 1 + (k - i) = k
      BY <1>3
    <3>2. p[k] = f[k - i]
      BY <1>1, <3>1
    <3> QED
      BY <1>4, <3>1, <3>2
  <2> HIDE DEF i, j
  <2> QED
    BY <1>2, <2>1, <2>2, FoundAt
<1>7. SubSeq(p, i + 1, j - 1) = f
  <2> DEFINE a == i + 1
  <2>1. a \in Nat \ {0} /\ a + Len(f) - 1 <= Len(p) /\ a + Len(f) - 1 = j - 1
    BY <1>1, <1>3
  <2>2. \A k \in 1 .. Len(f) : p[a + k - 1] = f[k]
    <3>1. \A k \in 1 .. Len(f) : a + k - 1 = Len(r) + 1 + k
      BY <1>3
    <3> QED
      BY <1>1, <3>1
  <2> HIDE DEF a
  <2>3. SubSeq(p, a, a + Len(f) - 1) = f
    BY <1>2, <2>1, <2>2, PartIs
  <2> QED
    BY <2>1, <2>3 DEF a
<1>8. SubSeq(p, j + 1, Len(p)) = t
  <2> DEFINE a == j + 1
  <2>1. a \in Nat \ {0} /\ a + Len(t) - 1 <= Len(p) /\ a + Len(t) - 1 = Len(p)
    BY <1>1, <1>3
  <2>2. \A k \in 1 .. Len(t) : p[a + k - 1] = t[k]
    <3>1. \A k \in 1 .. Len(t) : a + k - 1 = j + k
      BY <1>3
    <3> QED
      BY <1>1, <3>1
  <2> HIDE DEF a
  <2>3. SubSeq(p, a, a + Len(t) - 1) = t
    BY <1>2, <2>1, <2>2, PartIs
  <2> QED
    BY <2>1, <2>3 DEF a
<1> HIDE DEF i, j
<1> QED
  BY <1>5, <1>6, <1>7, <1>8, Zenon DEF Parse, p

-----------------------------------------------------------------------------
(***************************************************************************)
(* A client and its worker: StepInv says of each of them where it is when  *)
(* the other is somewhere, and what is then between them.                  *)
(***************************************************************************)

\* What is between a client and its worker: nothing, a message, or its answer.
Silent(c) == up[c] = <<>> /\ down[c] = <<>>
Asking(c) == Len(up[c]) = 1 /\ up[c][1] = Line(asked[c]) /\ down[c] = <<>>
Answered(c) ==
  /\ up[c] = <<>> /\ down[c] # <<>>
  /\ LET m == Head(down[c]) IN <<m.tag[1], m.data[1]>> \in Answers(asked[c])

Delivers(c, i) == \A j \in i .. Len(down[c]) : down[c][j].tag = <<"delivery">>

At(c, places) == wpc[c] \in places \cup {"done"}
Asked(c, tags) == asked[c].tag \in {<<t>> : t \in tags}

\* Where the client is, where its worker may then be, and what is on its way.
InTurn(c) ==
  \/ cpc[c] = "ended"
  \/ cpc[c] = "connect" /\ wpc[c] = "none" /\ Silent(c)
  \/ cpc[c] = "login" /\ At(c, {"backlog", "login"}) /\ Silent(c)
  \/ /\ cpc[c] = "login_sent" /\ Asked(c, {LoginTag(c)})
     /\ \/ At(c, {"backlog", "login"}) /\ Asking(c)
        \/ At(c, {IF c \in Senders THEN "command" ELSE "join"}) /\ Answered(c) /\ Len(down[c]) = 1
  \/ c \in Senders /\ cpc[c] = "prompt" /\ At(c, {"command"}) /\ Silent(c)
  \/ /\ c \in Senders /\ cpc[c] = "await" /\ Asked(c, {"join", "leave", "sendall"})
     /\ At(c, {"command"})
     /\ Asking(c) \/ (Answered(c) /\ Len(down[c]) = 1)
  \/ c \in Receivers /\ cpc[c] = "join" /\ At(c, {"join"}) /\ Silent(c)
  \/ /\ c \in Receivers /\ cpc[c] = "join_sent" /\ Asked(c, {"join"})
     /\ \/ At(c, {"join"}) /\ Asking(c)
        \/ At(c, {"deliver"}) /\ Answered(c) /\ Delivers(c, 2)
  \/ c \in Receivers /\ cpc[c] = "listen" /\ At(c, {"deliver"}) /\ Delivers(c, 1)

\* What a worker finds when it reads, be its client there or not.
Finds(c, tags) == up[c] = <<>> \/ (Len(up[c]) = 1 /\ up[c][1].tag \in {<<t>> : t \in tags})

Reads(c) ==
  /\ wpc[c] \in {"none", "backlog", "login"} => Finds(c, {LoginTag(c)})
  /\ wpc[c] = "join" => c \in Receivers /\ Finds(c, {"join"})
  /\ wpc[c] = "command" => c \in Senders /\ Finds(c, {"join", "leave", "sendall", "quit"})
  /\ wpc[c] = "deliver" => c \in Receivers

\* The inductive invariant.
StepInv == TypeOK /\ \A c \in Clients : InTurn(c) /\ Reads(c)

\* A line is taken from a connection.
LEMMA Taking ==
  ASSUME NEW T, NEW s \in Seq(T), s # <<>>
  PROVE  /\ Head(s) \in T /\ Head(s) = s[1]
         /\ Tail(s) \in Seq(T) /\ Len(Tail(s)) = Len(s) - 1 /\ Len(s) \in Nat \ {0}
         /\ \A i \in 1 .. Len(s) - 1 : Tail(s)[i] = s[i + 1]
         /\ Len(s) = 1 => Tail(s) = <<>>
<1>1. Len(s) \in Nat \ {0}
  BY EmptySeq
<1>2. /\ Head(s) \in T /\ Tail(s) \in Seq(T) /\ Len(Tail(s)) = Len(s) - 1
      /\ \A i \in 1 .. Len(Tail(s)) : Tail(s)[i] = s[i + 1]
  BY HeadTailProperties
<1>3. Len(Tail(s)) = 0 => Tail(s) = <<>>
  BY <1>2, EmptySeq
<1> QED
  BY <1>1, <1>2, <1>3

\* A line is put behind those that are there.
LEMMA Adding ==
  ASSUME NEW T, NEW s \in Seq(T), NEW x \in T
  PROVE  /\ Append(s, x) \in Seq(T) /\ Append(s, x) # <<>>
         /\ Len(Append(s, x)) = Len(s) + 1 /\ Len(s) \in Nat
         /\ \A i \in 1 .. Len(s) : Append(s, x)[i] = s[i]
         /\ Append(s, x)[Len(s) + 1] = x
         /\ Head(Append(s, x)) = IF s = <<>> THEN x ELSE Head(s)
<1>1. Len(s) \in Nat /\ Len(<<>>) = 0
  OBVIOUS
<1> DEFINE t == Append(s, x)
<1>2. /\ t \in Seq(T) /\ Len(t) = Len(s) + 1 /\ t[Len(s) + 1] = x
      /\ \A i \in 1 .. Len(s) : t[i] = s[i]
  OBVIOUS
<1> HIDE DEF t
<1>3. t # <<>>
  BY <1>1, <1>2
<1>4. Head(t) = t[1]
  BY <1>2, <1>3, Taking
<1>5. CASE s = <<>>
  BY <1>1, <1>2, <1>3, <1>4, <1>5 DEF t
<1>6. CASE s # <<>>
  <2>1. Head(s) = s[1] /\ Len(s) >= 1
    BY <1>6, Taking
  <2>2. t[1] = s[1]
    BY <1>1, <1>2, <2>1
  <2>3. Head(t) = Head(s)
    BY <1>4, <2>1, <2>2
  <2> QED
    BY <1>1, <1>2, <1>3, <1>6, <2>3 DEF t
<1> QED
  BY <1>5, <1>6

\* What is at one client and its worker.
Frame(c) ==
  \A d \in Clients \ {c} :
    /\ cpc'[d] = cpc[d] /\ asked'[d] = asked[d] /\ up'[d] = up[d] /\ down'[d] = down[d]
    /\ wpc'[d] = wpc[d]

\* Who is where does not change when nothing of it does.
LEMMA SameTurn ==
  ASSUME NEW d, cpc'[d] = cpc[d], asked'[d] = asked[d], up'[d] = up[d],
         down'[d] = down[d], wpc'[d] = wpc[d]
  PROVE  InTurn(d)' = InTurn(d) /\ Reads(d)' = Reads(d)
<1>1. /\ Silent(d)' = Silent(d) /\ Asking(d)' = Asking(d) /\ Answered(d)' = Answered(d)
      /\ Delivers(d, 1)' = Delivers(d, 1) /\ Delivers(d, 2)' = Delivers(d, 2)
      /\ \A places : At(d, places)' = At(d, places)
      /\ \A tags : Asked(d, tags)' = Asked(d, tags)
      /\ \A tags : Finds(d, tags)' = Finds(d, tags)
  BY DEF Silent, Asking, Answered, Delivers, At, Asked, Finds
<1>2. InTurn(d)' = InTurn(d)
  BY <1>1 DEF InTurn
<1>3. Reads(d)' = Reads(d)
  BY <1>1 DEF Reads
<1> QED
  BY <1>2, <1>3

\* A step of one client or of its worker leaves the others where they are.
LEMMA Framed ==
  ASSUME NEW c \in Clients, Frame(c), NEW d \in Clients \ {c}, InTurn(d), Reads(d)
  PROVE  InTurn(d)' /\ Reads(d)'
BY SameTurn DEF Frame

\* Where a client is tells where its worker is and what is between them.
LEMMA Turns ==
  ASSUME NEW c \in Clients, InTurn(c)
  PROVE  /\ cpc[c] = "connect" => wpc[c] = "none" /\ Silent(c)
         /\ cpc[c] = "login" => At(c, {"backlog", "login"}) /\ Silent(c)
         /\ cpc[c] = "login_sent" =>
              /\ Asked(c, {LoginTag(c)})
              /\ \/ At(c, {"backlog", "login"}) /\ Asking(c)
                 \/ /\ At(c, {IF c \in Senders THEN "command" ELSE "join"})
                    /\ Answered(c) /\ Len(down[c]) = 1
         /\ cpc[c] = "prompt" => c \in Senders /\ At(c, {"command"}) /\ Silent(c)
         /\ cpc[c] = "await" =>
              /\ c \in Senders /\ Asked(c, {"join", "leave", "sendall"}) /\ At(c, {"command"})
              /\ Asking(c) \/ (Answered(c) /\ Len(down[c]) = 1)
         /\ cpc[c] = "join" => c \in Receivers /\ At(c, {"join"}) /\ Silent(c)
         /\ cpc[c] = "join_sent" =>
              /\ c \in Receivers /\ Asked(c, {"join"})
              /\ \/ At(c, {"join"}) /\ Asking(c)
                 \/ At(c, {"deliver"}) /\ Answered(c) /\ Delivers(c, 2)
         /\ cpc[c] = "listen" => c \in Receivers /\ At(c, {"deliver"}) /\ Delivers(c, 1)
BY DEF InTurn

\* A worker that reads something has a client that is gone, or that waits for the
\* answer to it.
LEMMA ReadTurns ==
  ASSUME NEW c \in Clients, TypeOK, InTurn(c), up[c] # <<>>, cpc[c] # "ended"
  PROVE  /\ wpc[c] = "login" => cpc[c] = "login_sent" /\ Asked(c, {LoginTag(c)}) /\ Asking(c)
         /\ wpc[c] = "join" => cpc[c] = "join_sent" /\ Asked(c, {"join"}) /\ Asking(c)
         /\ wpc[c] = "command" =>
              cpc[c] = "await" /\ Asked(c, {"join", "leave", "sendall"}) /\ Asking(c)
<1>1. cpc[c] \in ClientPC
  BY DEF TypeOK
<1>2. ~ Silent(c) /\ ~ Answered(c)
  BY DEF Silent, Answered
<1>3. cpc[c] \in {"login_sent", "await", "join_sent", "listen"}
  BY <1>1, <1>2, Turns DEF ClientPC
<1>4. CASE cpc[c] = "login_sent"
  BY <1>2, <1>4, Turns DEF At
<1>5. CASE cpc[c] = "await"
  BY <1>2, <1>5, Turns DEF At
<1>6. CASE cpc[c] = "join_sent"
  BY <1>2, <1>6, Turns DEF At
<1>7. CASE cpc[c] = "listen"
  BY <1>7, Turns DEF At
<1> QED
  BY <1>3, <1>4, <1>5, <1>6, <1>7

\* What one step of c, or of its worker, has to keep.
Keeps(c) == TypeOK' /\ Frame(c) /\ InTurn(c)' /\ Reads(c)'

\* The rest of the state a client's step leaves alone.
LEMMA SendStep ==
  ASSUME TypeOK, NEW c \in Clients, NEW t \in Tags, NEW d \in OneLine,
         NEW from, NEW sent \in ClientPC, NEW failed \in ClientPC,
         Send(c, from, Msg(t, d), sent, failed)
  PROVE  /\ cpc[c] = from
         /\ cpc' \in [Clients -> ClientPC] /\ asked' \in [Clients -> Messages]
         /\ up' \in [Clients -> Seq(Lines)]
         /\ UNCHANGED <<argv, screen, down, server, wpc, username, room, queue, told>>
         /\ Frame(c)
         /\ \/ /\ cpc'[c] = sent /\ up'[c] = Append(up[c], Line(Msg(t, d)))
               /\ asked'[c] = Msg(t, d)
            \/ cpc'[c] \in {failed, "ended"} /\ up'[c] = up[c] /\ asked'[c] = asked[c]
<1> DEFINE m == Msg(t, d)
           x == Line(m)
<1>1. m \in Messages
  BY DEF Msg, Messages
<1>2. x \in Lines
  BY OneLineWords, LineType
<1>3. Send(c, from, m, sent, failed)
  OBVIOUS
<1> HIDE DEF m
<1> HIDE DEF x
<1>4. UNCHANGED <<argv, screen, down, server, wpc, username, room, queue, told>>
  BY <1>3 DEF Send, serverVars
<1>5. CASE /\ Goto(c, from, sent)
           /\ up' = [up EXCEPT ![c] = Append(@, x)]
           /\ asked' = [asked EXCEPT ![c] = m]
  <2>1. Append(up[c], x) \in Seq(Lines)
    BY <1>2, Adding DEF TypeOK
  <2> QED
    BY <1>1, <1>4, <1>5, <2>1 DEF Goto, TypeOK, Frame, m, x
<1>6. CASE (\E to \in {failed, "ended"} : Goto(c, from, to)) /\ UNCHANGED <<up, asked>>
  <2>1. "ended" \in ClientPC
    BY DEF ClientPC
  <2> QED
    BY <1>4, <1>6, <2>1 DEF Goto, TypeOK, Frame
<1> QED
  BY <1>3, <1>5, <1>6, Zenon DEF Send, x

\* A client that sends when nothing is on its way waits for the answer to what it sent.
LEMMA SentLine ==
  ASSUME TypeOK, NEW c \in Clients, NEW t \in Tags, NEW d \in OneLine,
         Silent(c), up'[c] = Append(up[c], Line(Msg(t, d))), asked'[c] = Msg(t, d),
         down' = down
  PROVE  Asking(c)' /\ Asked(c, {t})' /\ Finds(c, {t})'
<1> DEFINE x == Line(Msg(t, d))
<1>1. x \in Lines /\ x.tag = <<t>>
  BY OneLineWords, LineType
<1>2. asked'[c].tag = <<t>> /\ Line(asked'[c]) = x
  BY DEF Msg
<1> HIDE DEF x
<1>3. up[c] = <<>> /\ down'[c] = <<>> /\ up[c] \in Seq(Lines)
  BY DEF Silent, TypeOK
<1>4. up'[c] = Append(<<>>, x)
  BY <1>3 DEF x
<1>5. Len(up'[c]) = 1 /\ up'[c][1] = x
  BY <1>1, <1>3, <1>4, Adding, EmptySeq
<1> QED
  BY <1>1, <1>2, <1>3, <1>5 DEF Asking, Asked, Finds

\* A client that receives takes the first of the lines to it.
LEMMA ReceiveStep ==
  ASSUME TypeOK, NEW c \in Clients, NEW from, Receive(c, from)
  PROVE  /\ cpc[c] = from /\ down[c] # <<>> /\ down[c] \in Seq(Lines)
         /\ down' \in [Clients -> Seq(Lines)] /\ down'[c] = Tail(down[c])
         /\ \A d \in Clients \ {c} : down'[d] = down[d]
<1>1. cpc[c] = from /\ down[c] # <<>> /\ down' = [down EXCEPT ![c] = Tail(down[c])]
  BY DEF Receive
<1>2. down[c] \in Seq(Lines)
  BY DEF TypeOK
<1>3. Tail(down[c]) \in Seq(Lines)
  BY <1>1, <1>2, Taking
<1> QED
  BY <1>1, <1>2, <1>3 DEF TypeOK

\* So does a worker that reads.
LEMMA ReadStep ==
  ASSUME TypeOK, NEW c \in Clients, NEW from, Read(c, from)
  PROVE  /\ wpc[c] = from /\ up[c] # <<>> /\ Head(up[c]) \in Lines
         /\ up' \in [Clients -> Seq(Lines)] /\ up'[c] = Tail(up[c])
         /\ \A d \in Clients \ {c} : up'[d] = up[d]
         /\ \A tags : Finds(c, tags) => /\ up'[c] = <<>> /\ Head(up[c]) = up[c][1]
                                        /\ Head(up[c]).tag \in {<<t>> : t \in tags}
<1>1. wpc[c] = from /\ up[c] # <<>> /\ up' = [up EXCEPT ![c] = Tail(up[c])]
  BY DEF Read
<1>2. up[c] \in Seq(Lines)
  BY DEF TypeOK
<1>3. /\ Head(up[c]) \in Lines /\ Head(up[c]) = up[c][1] /\ Tail(up[c]) \in Seq(Lines)
      /\ Len(up[c]) = 1 => Tail(up[c]) = <<>>
  BY <1>1, <1>2, Taking
<1> QED
  BY <1>1, <1>2, <1>3 DEF TypeOK, Finds

\* The server's answers are lines that are received as they are sent.
LEMMA AnswerIs ==
  ASSUME NEW a \in AllAnswers
  PROVE  /\ a[1] \in Tags /\ a[1] # "delivery" /\ <<a[2]>> \in Text /\ a = <<a[1], a[2]>>
         /\ Fits(Msg(a[1], <<a[2]>>))
<1>1. a[1] \in Tags /\ a[1] # "delivery" /\ a = <<a[1], a[2]>>
  <2>1. PICK x \in {"ok", "err"} : \E y : a = <<x, y>>
    BY Zenon DEF AllAnswers
  <2>2. PICK y : a = <<x, y>>
    BY <2>1
  <2> QED
    BY <2>2 DEF Tags
<1>2. a[2] \in Word \ {CR, Newline}
  BY AnswersAssumption
<1>3. <<a[2]>> \in Text
  BY <1>2 DEF Text
<1> QED
  BY <1>1, <1>3, AnswersAssumption

\* The answers to each message.
LEMMA AnswersTo ==
  ASSUME NEW m
  PROVE  /\ m.tag \in {<<"slogin">>, <<"rlogin">>} => Answers(m) = {<<"ok", "Login successful">>}
         /\ m.tag = <<"join">> =>
              Answers(m) = {<<"ok", "Joined Room.">>, <<"ok", "Join successful">>}
         /\ m.tag = <<"sendall">> =>
              Answers(m) = {<<"ok", "Message sent.">>,
                            <<"err", "Error: Not in a room. JOIN first.">>}
         /\ m.tag = <<"leave">> =>
              Answers(m) = {<<"ok", "Left current rooom.">>, <<"err", "Error: Not in a room.">>}
<1>1. m.tag[1] \in {"slogin", "rlogin"} => Answers(m) = {<<"ok", "Login successful">>}
  BY DEF Answers
<1>2. m.tag[1] = "join" => Answers(m) = {<<"ok", "Joined Room.">>, <<"ok", "Join successful">>}
  BY DEF Answers
<1>3. m.tag[1] = "sendall" =>
        Answers(m) = {<<"ok", "Message sent.">>, <<"err", "Error: Not in a room. JOIN first.">>}
  BY DEF Answers
<1>4. m.tag[1] = "leave" =>
        Answers(m) = {<<"ok", "Left current rooom.">>, <<"err", "Error: Not in a room.">>}
  BY DEF Answers
<1>5. \A t : m.tag = <<t>> => m.tag[1] = t
  OBVIOUS
<1> QED
  BY <1>1, <1>2, <1>3, <1>4, <1>5, Zenon

\* What becomes of a line that a worker sends.
LEMMA ReplyStep ==
  ASSUME TypeOK, NEW c \in Clients, NEW t \in Tags, NEW d \in Text,
         NEW ok \in WorkerPC, NEW failed \in WorkerPC, Reply(c, Msg(t, d), ok, failed)
  PROVE  /\ wpc' \in [Clients -> WorkerPC] /\ down' \in [Clients -> Seq(Lines)]
         /\ Msg(t, d) \in Lines
         /\ \A e \in Clients \ {c} : wpc'[e] = wpc[e] /\ down'[e] = down[e]
         /\ wpc'[c] \in {ok, failed}
         /\ down'[c] \in {down[c], Append(down[c], Msg(t, d))}
         /\ cpc[c] # "ended" =>
              /\ wpc'[c] = ok
              /\ down'[c] = IF Fits(Msg(t, d)) THEN Append(down[c], Msg(t, d)) ELSE down[c]
<1> DEFINE m == Msg(t, d)
<1>1. Line(m) = m /\ m \in Lines
  BY LinePlain DEF Msg, Lines
<1>2. Reply(c, m, ok, failed)
  OBVIOUS
<1> HIDE DEF m
<1>3. Append(down[c], m) \in Seq(Lines)
  BY <1>1, Adding DEF TypeOK
<1>4. CASE /\ down' = IF Fits(m) /\ cpc[c] # "ended"
                      THEN [down EXCEPT ![c] = Append(@, m)] ELSE down
           /\ wpc' = [wpc EXCEPT ![c] = ok]
  BY <1>1, <1>3, <1>4 DEF TypeOK, m
<1>5. CASE cpc[c] = "ended" /\ wpc' = [wpc EXCEPT ![c] = failed] /\ UNCHANGED down
  BY <1>1, <1>5 DEF TypeOK, m
<1> QED
  BY <1>1, <1>2, <1>4, <1>5, Zenon DEF Reply

\* An answer reaches the client that waits for it.
LEMMA AnswerStep ==
  ASSUME TypeOK, NEW c \in Clients, NEW a \in AllAnswers, NEW ok \in WorkerPC,
         NEW failed \in WorkerPC, Reply(c, Msg(a[1], <<a[2]>>), ok, failed),
         cpc[c] # "ended", Asking(c), up'[c] = <<>>, asked' = asked, a \in Answers(asked[c])
  PROVE  wpc'[c] = ok /\ Answered(c)' /\ Len(down'[c]) = 1
<1> DEFINE m == Msg(a[1], <<a[2]>>)
<1>1. a[1] \in Tags /\ <<a[2]>> \in Text /\ a = <<a[1], a[2]>> /\ Fits(m)
  BY AnswerIs
<1>2. m.tag[1] = a[1] /\ m.data[1] = a[2]
  BY DEF Msg
<1>3. wpc'[c] = ok /\ down'[c] = Append(down[c], m) /\ m \in Lines
  BY <1>1, ReplyStep
<1> HIDE DEF m
<1>4. down[c] = <<>> /\ down[c] \in Seq(Lines)
  BY DEF Asking, TypeOK
<1>5. Len(down'[c]) = 1 /\ down'[c] # <<>> /\ Head(down'[c]) = m
  BY <1>3, <1>4, Adding, EmptySeq
<1>6. <<Head(down'[c]).tag[1], Head(down'[c]).data[1]>> \in Answers(asked'[c])
  BY <1>1, <1>2, <1>5
<1> QED
  BY <1>3, <1>5, <1>6 DEF Answered

\* What both clients' programs do.
LEMMA ConnectKeeps ==
  ASSUME TypeOK, NEW c \in Clients, InTurn(c), Reads(c), Connect(c)
  PROVE  Keeps(c)
<1>1. Silent(c) /\ cpc[c] = "connect" /\ wpc[c] = "none"
  BY Turns DEF Connect, Goto
<1>2. UNCHANGED <<argv, typed, asked, screen, up, down, server, username, room, queue, told>>
  BY DEF Connect
<1>3. Silent(c)' /\ \A tags : Finds(c, tags)'
  BY <1>1, <1>2 DEF Silent, Finds
<1>4. CASE cpc' = [cpc EXCEPT ![c] = "login"] /\ wpc' = [wpc EXCEPT ![c] = "backlog"]
  <2>1. TypeOK'
    BY <1>2, <1>4 DEF TypeOK, ClientPC, WorkerPC
  <2>2. cpc'[c] = "login" /\ wpc'[c] = "backlog" /\ Frame(c)
    BY <1>2, <1>4 DEF TypeOK, Frame
  <2> QED
    BY <1>3, <2>1, <2>2 DEF Keeps, InTurn, Reads, At
<1>5. CASE cpc' = [cpc EXCEPT ![c] = "ended"] /\ UNCHANGED wpc
  <2>1. TypeOK'
    BY <1>2, <1>5 DEF TypeOK, ClientPC
  <2>2. cpc'[c] = "ended" /\ wpc'[c] = "none" /\ Frame(c)
    BY <1>1, <1>2, <1>5 DEF TypeOK, Frame
  <2> QED
    BY <1>3, <2>1, <2>2 DEF Keeps, InTurn, Reads
<1> QED
  BY <1>4, <1>5 DEF Connect, Goto

\* A client that ends, and does nothing else, keeps everything.
LEMMA EndKeeps ==
  ASSUME TypeOK, NEW c \in Clients, InTurn(c), Reads(c), cpc' = [cpc EXCEPT ![c] = "ended"],
         UNCHANGED <<argv, typed, asked, screen, up, down, serverVars>>
  PROVE  Keeps(c)
<1>1. TypeOK'
  BY DEF TypeOK, ClientPC, serverVars
<1>2. cpc'[c] = "ended" /\ wpc'[c] = wpc[c] /\ up'[c] = up[c] /\ Frame(c)
  BY DEF TypeOK, Frame, serverVars
<1>3. Reads(c)'
  BY <1>2 DEF Reads, Finds
<1> QED
  BY <1>1, <1>2, <1>3 DEF Keeps, InTurn

\* A message is sent, whose answer is waited for at sent; or it is not.
LEMMA SendKeeps ==
  ASSUME TypeOK, NEW c \in Clients, InTurn(c), Reads(c), Silent(c),
         NEW t \in Tags, NEW d \in OneLine, NEW from, NEW sent \in ClientPC,
         NEW failed \in ClientPC, Send(c, from, Msg(t, d), sent, failed),
         typed' \in [Clients -> 0 .. MaxTyped],
         wpc[c] \in {"none", "backlog", "login"} => t = LoginTag(c),
         wpc[c] = "join" => t = "join",
         wpc[c] = "command" => t \in {"join", "leave", "sendall", "quit"},
         failed \in {from, "ended"},
         Asking(c)' /\ Asked(c, {t})' /\ cpc'[c] = sent /\ wpc'[c] = wpc[c] => InTurn(c)'
  PROVE  Keeps(c)
<1>1. /\ cpc[c] = from /\ cpc' \in [Clients -> ClientPC] /\ asked' \in [Clients -> Messages]
      /\ up' \in [Clients -> Seq(Lines)]
      /\ UNCHANGED <<argv, screen, down, server, wpc, username, room, queue, told>>
      /\ Frame(c)
      /\ \/ /\ cpc'[c] = sent /\ up'[c] = Append(up[c], Line(Msg(t, d)))
            /\ asked'[c] = Msg(t, d)
         \/ cpc'[c] \in {failed, "ended"} /\ up'[c] = up[c] /\ asked'[c] = asked[c]
  BY SendStep
<1>2. TypeOK'
  BY <1>1 DEF TypeOK
<1>3. CASE cpc'[c] = sent /\ up'[c] = Append(up[c], Line(Msg(t, d))) /\ asked'[c] = Msg(t, d)
  <2>1. Asking(c)' /\ Asked(c, {t})' /\ Finds(c, {t})'
    BY <1>1, <1>3, SentLine
  <2>2. InTurn(c)'
    BY <1>1, <1>3, <2>1
  <2>3. \A tags : t \in tags => Finds(c, tags)'
    BY <2>1 DEF Finds
  <2>4. Reads(c)'
    BY <1>1, <2>3 DEF Reads
  <2> QED
    BY <1>1, <1>2, <2>2, <2>4 DEF Keeps
<1>4. CASE cpc'[c] \in {failed, "ended"} /\ up'[c] = up[c] /\ asked'[c] = asked[c]
  <2>1. Reads(c)'
    BY <1>1, <1>4 DEF Reads, Finds
  <2>2. cpc'[c] = cpc[c] \/ cpc'[c] = "ended"
    BY <1>1, <1>4
  <2>3. InTurn(c)'
    <3>1. CASE cpc'[c] = "ended"
      BY <3>1 DEF InTurn
    <3>2. CASE cpc'[c] = cpc[c]
      BY <1>1, <1>4, <3>2, SameTurn
    <3> QED
      BY <2>2, <3>1, <3>2
  <2> QED
    BY <1>1, <1>2, <2>1, <2>3 DEF Keeps
<1> QED
  BY <1>1, <1>3, <1>4

LEMMA SendLoginKeeps ==
  ASSUME TypeOK, NEW c \in Clients, InTurn(c), Reads(c), SendLogin(c)
  PROVE  Keeps(c)
<1> DEFINE t == LoginTag(c)
           d == argv[c].user
<1>1. Send(c, "login", Msg(t, d), "login_sent", "ended") /\ UNCHANGED typed
  BY DEF SendLogin
<1>2. t \in Tags
  BY DEF LoginTag, Tags
<1>3. d \in OneLine
  BY ProtocolAssumption DEF TypeOK
<1>4. t = LoginTag(c)
  OBVIOUS
<1> HIDE DEF t, d
<1>5. cpc[c] = "login" /\ "login_sent" \in ClientPC /\ "ended" \in ClientPC
  BY <1>1, <1>2, <1>3, SendStep DEF ClientPC
<1>6. At(c, {"backlog", "login"}) /\ Silent(c)
  BY <1>5, Turns
<1>7. ASSUME Asking(c)', Asked(c, {t})', cpc'[c] = "login_sent", wpc'[c] = wpc[c]
      PROVE  InTurn(c)'
  <2>1. At(c, {"backlog", "login"})'
    BY <1>6, <1>7 DEF At
  <2> QED
    BY <1>4, <1>7, <2>1 DEF InTurn
<1>8. /\ wpc[c] \in {"none", "backlog", "login"} => t = LoginTag(c)
      /\ wpc[c] # "join" /\ wpc[c] # "command"
  BY <1>4, <1>6 DEF At
<1>9. typed' \in [Clients -> 0 .. MaxTyped]
  BY <1>1 DEF TypeOK
<1> QED
  BY <1>1, <1>2, <1>3, <1>5, <1>6, <1>7, <1>8, <1>9, SendKeeps

LEMMA SendJoinKeeps ==
  ASSUME TypeOK, NEW c \in Clients, InTurn(c), Reads(c), SendJoin(c)
  PROVE  Keeps(c)
<1> DEFINE d == argv[c].room
<1>1. Send(c, "join", Msg("join", d), "join_sent", "ended") /\ UNCHANGED typed
  BY DEF SendJoin
<1>2. "join" \in Tags /\ "join_sent" \in ClientPC /\ "ended" \in ClientPC
  BY DEF Tags, ClientPC
<1>3. cpc[c] = "join"
  BY <1>1 DEF Send, Goto
<1>4. c \in Receivers /\ At(c, {"join"}) /\ Silent(c)
  BY <1>3, Turns
<1>5. d \in OneLine
  BY <1>4, ProtocolAssumption DEF TypeOK
<1> HIDE DEF d
<1>6. ASSUME Asking(c)', Asked(c, {"join"})', cpc'[c] = "join_sent", wpc'[c] = wpc[c]
      PROVE  InTurn(c)'
  <2>1. At(c, {"join"})'
    BY <1>4, <1>6 DEF At
  <2> QED
    BY <1>4, <1>6, <2>1 DEF InTurn
<1>7. wpc[c] \notin {"none", "backlog", "login", "command"}
  BY <1>4 DEF At
<1>8. typed' \in [Clients -> 0 .. MaxTyped]
  BY <1>1 DEF TypeOK
<1> QED
  BY <1>1, <1>2, <1>4, <1>5, <1>6, <1>7, <1>8, SendKeeps

\* An answer is received: its client is at to, and nothing is on its way any more.
LEMMA ReceiveKeeps ==
  ASSUME TypeOK, NEW c \in Clients, InTurn(c), Reads(c), NEW from, Receive(c, from),
         NEW to \in ClientPC, cpc' = [cpc EXCEPT ![c] = to],
         Answered(c), Len(down[c]) = 1,
         UNCHANGED <<argv, typed, asked, screen, up, serverVars>>,
         Silent(c)' /\ cpc'[c] = to /\ wpc'[c] = wpc[c] => InTurn(c)'
  PROVE  Keeps(c)
<1>1. /\ down' \in [Clients -> Seq(Lines)] /\ down'[c] = Tail(down[c])
      /\ \A d \in Clients \ {c} : down'[d] = down[d]
      /\ down[c] \in Seq(Lines) /\ down[c] # <<>>
  BY ReceiveStep
<1>2. TypeOK'
  BY <1>1 DEF TypeOK, serverVars
<1>3. cpc'[c] = to /\ wpc'[c] = wpc[c] /\ up'[c] = up[c] /\ Frame(c)
  BY <1>1 DEF Frame, TypeOK, serverVars
<1>4. down'[c] = <<>>
  BY <1>1, Taking
<1>5. InTurn(c)'
  BY <1>3, <1>4 DEF Silent, Answered
<1>6. Reads(c)'
  BY <1>3 DEF Reads, Finds
<1> QED
  BY <1>2, <1>3, <1>5, <1>6 DEF Keeps

LEMMA ReceiveLoginKeeps ==
  ASSUME TypeOK, NEW c \in Clients, InTurn(c), Reads(c), ReceiveLogin(c)
  PROVE  Keeps(c)
<1> DEFINE ok == IF c \in Senders THEN "prompt" ELSE "join"
           to == IF Head(down[c]).tag = <<"err">> THEN "ended" ELSE ok
<1>1. /\ Receive(c, "login_sent") /\ cpc[c] = "login_sent" /\ cpc' = [cpc EXCEPT ![c] = to]
      /\ UNCHANGED <<argv, typed, asked, screen, up, serverVars>>
  BY DEF ReceiveLogin, ReceiveOk, Goto
<1>2. to \in ClientPC
  BY DEF ClientPC
<1>3. /\ At(c, {IF c \in Senders THEN "command" ELSE "join"})
      /\ Answered(c) /\ Len(down[c]) = 1
  BY <1>1, Turns DEF Receive, Asking
<1>4. to \in {"ended", ok}
  OBVIOUS
<1> HIDE DEF to
<1>5. ASSUME Silent(c)', cpc'[c] = to, wpc'[c] = wpc[c]
      PROVE  InTurn(c)'
  <2>1. At(c, {IF c \in Senders THEN "command" ELSE "join"})'
    BY <1>3, <1>5 DEF At
  <2>2. c \in Senders \/ c \in Receivers
    BY DEF Clients
  <2> QED
    BY <1>4, <1>5, <2>1, <2>2 DEF InTurn
<1> QED
  BY <1>1, <1>2, <1>3, <1>5, ReceiveKeeps

LEMMA ReceiveAnswerKeeps ==
  ASSUME TypeOK, NEW c \in Clients, InTurn(c), Reads(c), ReceiveAnswer(c)
  PROVE  Keeps(c)
<1>1. /\ Receive(c, "await") /\ cpc[c] = "await" /\ cpc' = [cpc EXCEPT ![c] = "prompt"]
      /\ UNCHANGED <<argv, typed, asked, screen, up, serverVars>>
  BY DEF ReceiveAnswer, Goto
<1>2. "prompt" \in ClientPC
  BY DEF ClientPC
<1>3. c \in Senders /\ At(c, {"command"}) /\ Answered(c) /\ Len(down[c]) = 1
  BY <1>1, Turns DEF Receive, Asking
<1>4. ASSUME Silent(c)', cpc'[c] = "prompt", wpc'[c] = wpc[c]
      PROVE  InTurn(c)'
  <2>1. At(c, {"command"})'
    BY <1>3, <1>4 DEF At
  <2> QED
    BY <1>3, <1>4, <2>1 DEF InTurn
<1> QED
  BY <1>1, <1>2, <1>3, <1>4, ReceiveKeeps

\* Behind the answer to a join, and behind a delivery, there are deliveries.
LEMMA ListenTurns ==
  ASSUME TypeOK, NEW c \in Clients, InTurn(c), Reads(c), NEW from, Receive(c, from),
         cpc' \in [Clients -> ClientPC], \A d \in Clients \ {c} : cpc'[d] = cpc[d],
         from = "join_sent" \/ from = "listen", cpc'[c] \in {"listen", "ended"},
         UNCHANGED <<argv, typed, asked, up, serverVars>>,
         screen' \in [Clients -> Seq(Sayings)]
  PROVE  Keeps(c)
<1>1. /\ down' \in [Clients -> Seq(Lines)] /\ down'[c] = Tail(down[c])
      /\ \A d \in Clients \ {c} : down'[d] = down[d]
      /\ down[c] \in Seq(Lines) /\ down[c] # <<>> /\ cpc[c] = from
  BY ReceiveStep
<1>2. TypeOK'
  BY <1>1 DEF TypeOK, serverVars
<1>3. wpc'[c] = wpc[c] /\ up'[c] = up[c] /\ Frame(c)
  BY <1>1 DEF Frame, serverVars
<1>4. Reads(c)'
  BY <1>3 DEF Reads, Finds
<1>5. c \in Receivers /\ At(c, {"deliver"}) /\ Delivers(c, 2)
  <2>1. CASE from = "join_sent"
    BY <1>1, <2>1, Turns DEF Asking
  <2>2. CASE from = "listen"
    <3>1. c \in Receivers /\ At(c, {"deliver"}) /\ Delivers(c, 1)
      BY <1>1, <2>2, Turns
    <3> QED
      BY <3>1 DEF Delivers
  <2> QED
    BY <2>1, <2>2
<1>6. Delivers(c, 1)'
  <2>1. /\ Len(Tail(down[c])) = Len(down[c]) - 1 /\ Len(down[c]) \in Nat
        /\ \A i \in 1 .. Len(down[c]) - 1 : Tail(down[c])[i] = down[c][i + 1]
    BY <1>1, Taking
  <2> SUFFICES ASSUME NEW i \in 1 .. Len(down'[c]) PROVE down'[c][i].tag = <<"delivery">>
    BY DEF Delivers
  <2>2. i + 1 \in 2 .. Len(down[c]) /\ down'[c][i] = down[c][i + 1]
    BY <1>1, <2>1
  <2> QED
    BY <1>5, <2>2 DEF Delivers
<1>7. At(c, {"deliver"})'
  BY <1>3, <1>5 DEF At
<1>8. InTurn(c)'
  BY <1>5, <1>6, <1>7 DEF InTurn
<1> QED
  BY <1>2, <1>3, <1>4, <1>8 DEF Keeps

LEMMA ReceiveJoinKeeps ==
  ASSUME TypeOK, NEW c \in Clients, InTurn(c), Reads(c), ReceiveJoin(c)
  PROVE  Keeps(c)
<1> DEFINE to == IF Head(down[c]).tag = <<"err">> THEN "ended" ELSE "listen"
<1>1. /\ Receive(c, "join_sent") /\ cpc' = [cpc EXCEPT ![c] = to]
      /\ UNCHANGED <<argv, typed, asked, screen, up, serverVars>>
  BY DEF ReceiveJoin, ReceiveOk, Goto
<1>2. to \in {"listen", "ended"} /\ to \in ClientPC
  BY DEF ClientPC
<1> HIDE DEF to
<1>3. /\ cpc' \in [Clients -> ClientPC] /\ cpc'[c] \in {"listen", "ended"}
      /\ \A d \in Clients \ {c} : cpc'[d] = cpc[d]
  BY <1>1, <1>2 DEF TypeOK
<1>4. screen' \in [Clients -> Seq(Sayings)]
  BY <1>1 DEF TypeOK
<1> QED
  BY <1>1, <1>3, <1>4, ListenTurns

LEMMA ListenKeeps ==
  ASSUME TypeOK, NEW c \in Clients, InTurn(c), Reads(c), Listen(c)
  PROVE  Keeps(c)
<1> DEFINE m == Head(down[c])
<1>1. /\ Receive(c, "listen") /\ UNCHANGED <<cpc, argv, typed, asked, up, serverVars>>
      /\ screen' = IF m.tag = <<"delivery">>
                   THEN [screen EXCEPT ![c] = Append(@, Parse(m.data))] ELSE screen
  BY DEF Listen
<1>2. cpc[c] = "listen" /\ m \in Lines
  BY <1>1, ReceiveStep, Taking
<1>3. m.data \in Text
  BY <1>2 DEF Lines
<1> HIDE DEF m
<1>4. Append(screen[c], Parse(m.data)) \in Seq(Sayings)
  BY <1>3, ParseType, Adding DEF TypeOK
<1>5. screen' \in [Clients -> Seq(Sayings)]
  BY <1>1, <1>4 DEF TypeOK
<1>6. /\ cpc' \in [Clients -> ClientPC] /\ cpc'[c] \in {"listen", "ended"}
      /\ \A d \in Clients \ {c} : cpc'[d] = cpc[d]
  BY <1>1, <1>2 DEF TypeOK
<1> QED
  BY <1>1, <1>5, <1>6, ListenTurns

\* The sender's user.
LEMMA TypeKeeps ==
  ASSUME TypeOK, NEW c \in Senders, InTurn(c), Reads(c), Type(c)
  PROVE  Keeps(c)
<1>1. c \in Clients
  BY DEF Clients
<1>2. typed' \in [Clients -> 0 .. MaxTyped]
  <2>1. typed[c] < MaxTyped /\ typed' = [typed EXCEPT ![c] = typed[c] + 1]
    BY DEF Type
  <2>2. typed[c] + 1 \in 0 .. MaxTyped
    BY <1>1, <2>1, ProtocolAssumption DEF TypeOK
  <2> QED
    BY <2>1, <2>2 DEF TypeOK
<1>3. CASE TypeIgnored(c)
  <2>1. UNCHANGED <<cpc, argv, asked, screen, up, down, serverVars>>
    BY <1>1, <1>3 DEF TypeIgnored, Goto, TypeOK
  <2>2. TypeOK'
    BY <1>2, <2>1 DEF TypeOK, serverVars
  <2>3. Frame(c)
    BY <2>1 DEF Frame, serverVars
  <2>4. InTurn(c)' /\ Reads(c)'
    BY <2>1, SameTurn DEF serverVars
  <2> QED
    BY <2>2, <2>3, <2>4 DEF Keeps
<1>4. ASSUME NEW t \in Typed[c]
      PROVE  \E tag \in {"join", "leave", "quit", "sendall"} : \E d \in OneLine :
               MessageFor(t) = Msg(tag, d) /\ (tag = "quit" <=> t.command = "quit")
  <2>1. t.rest \in OneLine /\ <<>> \in OneLine
    BY ProtocolAssumption DEF OneLine
  <2>2. CASE t.command = "join"
    BY <2>1, <2>2 DEF MessageFor
  <2>3. CASE t.command = "leave"
    BY <2>1, <2>3 DEF MessageFor
  <2>4. CASE t.command = "quit"
    BY <2>1, <2>4 DEF MessageFor
  <2>5. CASE t.command \notin {"join", "leave", "quit"}
    BY <2>1, <2>5 DEF MessageFor
  <2> QED
    BY <2>2, <2>3, <2>4, <2>5
<1>5. ASSUME NEW t \in Typed[c], NEW sent \in ClientPC, NEW failed \in ClientPC,
             failed \in {"prompt", "ended"}, Send(c, "prompt", MessageFor(t), sent, failed),
             IF t.command = "quit" THEN sent = "ended" ELSE sent = "await"
      PROVE  Keeps(c)
  <2>1. PICK tag \in {"join", "leave", "quit", "sendall"}, d \in OneLine :
          MessageFor(t) = Msg(tag, d) /\ (tag = "quit" <=> t.command = "quit")
    BY <1>4, <1>5
  <2>2. Send(c, "prompt", Msg(tag, d), sent, failed) /\ tag \in Tags
    BY <1>5, <2>1 DEF Tags
  <2>3. cpc[c] = "prompt"
    BY <2>2 DEF Send, Goto
  <2>4. At(c, {"command"}) /\ Silent(c)
    BY <1>1, <2>3, Turns
  <2>5. ASSUME Asking(c)', Asked(c, {tag})', cpc'[c] = sent, wpc'[c] = wpc[c]
        PROVE  InTurn(c)'
    <3>1. CASE tag = "quit"
      BY <1>5, <2>1, <2>5, <3>1 DEF InTurn
    <3>2. CASE tag # "quit"
      <4>1. At(c, {"command"})' /\ Asked(c, {"join", "leave", "sendall"})'
        BY <2>1, <2>4, <2>5, <3>2 DEF At, Asked
      <4> QED
        BY <1>5, <2>1, <2>5, <3>2, <4>1 DEF InTurn
    <3> QED
      BY <3>1, <3>2
  <2>6. /\ wpc[c] \notin {"none", "backlog", "login", "join"}
        /\ tag \in {"join", "leave", "sendall", "quit"}
    BY <2>1, <2>4 DEF At
  <2> QED
    BY <1>1, <1>2, <1>5, <2>2, <2>4, <2>5, <2>6, SendKeeps
<1>6. "ended" \in ClientPC /\ "await" \in ClientPC /\ "prompt" \in ClientPC
  BY DEF ClientPC
<1>7. CASE TypeQuit(c)
  <2>1. PICK t \in Typed[c] :
          t.command = "quit" /\ Send(c, "prompt", MessageFor(t), "ended", "ended")
    BY <1>7 DEF TypeQuit
  <2> QED
    BY <1>5, <1>6, <2>1
<1>8. CASE TypeCommand(c)
  <2>1. PICK t \in Typed[c] :
          t.command # "quit" /\ Send(c, "prompt", MessageFor(t), "await", "prompt")
    BY <1>8 DEF TypeCommand
  <2> QED
    BY <1>5, <1>6, <2>1
<1> QED
  BY <1>3, <1>7, <1>8 DEF Type

\* The server accepts a connection.
LEMMA AcceptKeeps ==
  ASSUME TypeOK, NEW c \in Clients, InTurn(c), Reads(c), Accept(c)
  PROVE  Keeps(c)
<1>1. /\ wpc[c] = "backlog" /\ wpc' = [wpc EXCEPT ![c] = "login"]
      /\ UNCHANGED <<clientVars, up, down, server, username, room, queue, told>>
  BY DEF Accept
<1>2. TypeOK' /\ Frame(c)
  BY <1>1 DEF TypeOK, WorkerPC, Frame, clientVars
<1>3. /\ cpc'[c] = cpc[c] /\ wpc'[c] = "login"
      /\ up'[c] = up[c] /\ down'[c] = down[c] /\ asked'[c] = asked[c]
  BY <1>1 DEF TypeOK, clientVars
<1>4. Reads(c)'
  BY <1>1, <1>3 DEF Reads, Finds
<1>5. InTurn(c)'
  <2>1. cpc[c] \in ClientPC
    BY DEF TypeOK
  <2>2. cpc[c] \in {"ended", "login", "login_sent"}
    BY <1>1, <2>1, Turns DEF At, ClientPC
  <2>3. CASE cpc[c] = "ended"
    BY <1>3, <2>3 DEF InTurn
  <2>4. CASE cpc[c] = "login"
    <3>1. Silent(c)' /\ At(c, {"backlog", "login"})'
      BY <1>3, <2>4, Turns DEF Silent, At
    <3> QED
      BY <1>3, <2>4, <3>1 DEF InTurn
  <2>5. CASE cpc[c] = "login_sent"
    <3>1. Asked(c, {LoginTag(c)})' /\ Asking(c)' /\ At(c, {"backlog", "login"})'
      BY <1>1, <1>3, <2>5, Turns DEF Asked, Asking, At
    <3> QED
      BY <1>3, <2>5, <3>1 DEF InTurn
  <2> QED
    BY <2>2, <2>3, <2>4, <2>5
<1> QED
  BY <1>2, <1>4, <1>5 DEF Keeps

\* A worker has read what its client sent, and answers it.
LEMMA AnswerKeeps ==
  ASSUME TypeOK, TypeOK', NEW c \in Clients, InTurn(c), Reads(c), NEW from, Read(c, from),
         UNCHANGED <<cpc, asked>>,
         \A d \in Clients \ {c} : wpc'[d] = wpc[d] /\ down'[d] = down[d],
         \/ from = "login" /\ wpc'[c] = IF c \in Senders THEN "command" ELSE "join"
         \/ from = "join" /\ wpc'[c] = "deliver"
         \/ from = "command" /\ wpc'[c] \in {"command", "done"},
         cpc[c] # "ended" => Answered(c)' /\ Len(down'[c]) = 1
  PROVE  Keeps(c)
<1>1. /\ wpc[c] = from /\ up[c] # <<>> /\ up'[c] = Tail(up[c])
      /\ \A d \in Clients \ {c} : up'[d] = up[d]
      /\ \A tags : Finds(c, tags) => up'[c] = <<>>
  BY ReadStep
<1>2. Frame(c)
  BY <1>1 DEF Frame
<1>3. up'[c] = <<>>
  BY <1>1 DEF Reads
<1>4. Reads(c)'
  <2>1. c \in Senders \/ c \in Receivers
    BY DEF Clients
  <2>2. \A tags : Finds(c, tags)'
    BY <1>3 DEF Finds
  <2>3. from = "join" => c \in Receivers
    BY <1>1 DEF Reads
  <2>4. from = "command" => c \in Senders
    BY <1>1 DEF Reads
  <2> QED
    BY <2>1, <2>2, <2>3, <2>4 DEF Reads
<1>5. CASE cpc[c] = "ended"
  BY <1>2, <1>4, <1>5 DEF Keeps, InTurn
<1>6. CASE cpc[c] # "ended"
  <2>1. Answered(c)' /\ Len(down'[c]) = 1
    BY <1>6
  <2>2. \A tags : Asked(c, tags)' = Asked(c, tags)
    BY DEF Asked
  <2>3. CASE from = "login"
    <3>1. cpc[c] = "login_sent" /\ Asked(c, {LoginTag(c)})
      BY <1>1, <1>6, <2>3, ReadTurns
    <3>2. At(c, {IF c \in Senders THEN "command" ELSE "join"})'
      BY <2>3 DEF At
    <3>3. InTurn(c)'
      BY <2>1, <2>2, <3>1, <3>2 DEF InTurn
    <3> QED
      BY <1>2, <1>4, <3>3 DEF Keeps
  <2>4. CASE from = "join"
    <3>1. cpc[c] = "join_sent" /\ Asked(c, {"join"}) /\ c \in Receivers
      BY <1>1, <1>6, <2>4, ReadTurns, Turns
    <3>2. At(c, {"deliver"})' /\ Delivers(c, 2)'
      BY <2>1, <2>4 DEF At, Delivers
    <3>3. InTurn(c)'
      BY <2>1, <2>2, <3>1, <3>2 DEF InTurn
    <3> QED
      BY <1>2, <1>4, <3>3 DEF Keeps
  <2>5. CASE from = "command"
    <3>1. cpc[c] = "await" /\ Asked(c, {"join", "leave", "sendall"}) /\ c \in Senders
      BY <1>1, <1>6, <2>5, ReadTurns, Turns
    <3>2. At(c, {"command"})'
      BY <2>5 DEF At
    <3>3. InTurn(c)'
      BY <2>1, <2>2, <3>1, <3>2 DEF InTurn
    <3> QED
      BY <1>2, <1>4, <3>3 DEF Keeps
  <2> QED
    BY <2>3, <2>4, <2>5
<1> QED
  BY <1>5, <1>6

LEMMA WorkerLoginKeeps ==
  ASSUME TypeOK, NEW c \in Clients, InTurn(c), Reads(c), WorkerLogin(c)
  PROVE  /\ Keeps(c)
         /\ wpc[c] = "login" /\ up[c] # <<>>
         /\ down'[c] \in {down[c], Append(down[c], Msg("ok", <<"Login successful">>))}
         /\ UNCHANGED <<cpc, screen, room, queue, told>>
<1> DEFINE m == Head(up[c])
           a == <<"ok", "Login successful">>
           to == IF c \in Senders THEN "command" ELSE "join"
<1>1. /\ Read(c, "login") /\ username' = [username EXCEPT ![c] = m.data]
      /\ UNCHANGED <<clientVars, server, room, queue, told>>
  BY DEF WorkerLogin
<1>2. wpc[c] = "login" /\ up[c] # <<>> /\ m \in Lines /\ up' \in [Clients -> Seq(Lines)]
  BY <1>1, ReadStep
<1>3. Finds(c, {LoginTag(c)})
  BY <1>2 DEF Reads
<1>4. m.tag \in {<<t>> : t \in {LoginTag(c)}} /\ up'[c] = <<>>
  BY <1>1, <1>3, ReadStep
<1>5. a \in AllAnswers /\ a[1] = "ok" /\ a[2] = "Login successful"
  BY DEF AllAnswers
<1>6. Reply(c, Msg(a[1], <<a[2]>>), to, to)
  <2>1. CASE c \in Senders
    <3>1. m.tag = <<"slogin">> /\ m.tag # <<"rlogin">>
      BY <1>4, <2>1 DEF LoginTag
    <3>2. Reply(c, Msg("ok", <<"Login successful">>), "command", "command")
      BY <3>1 DEF WorkerLogin
    <3> QED
      BY <1>5, <2>1, <3>2
  <2>2. CASE c \notin Senders
    <3>1. m.tag = <<"rlogin">> /\ m.tag # <<"slogin">>
      BY <1>4, <2>2 DEF LoginTag
    <3>2. Reply(c, Msg("ok", <<"Login successful">>), "join", "join")
      BY <3>1 DEF WorkerLogin
    <3> QED
      BY <1>5, <2>2, <3>2
  <2> QED
    BY <2>1, <2>2
<1>7. to \in WorkerPC
  BY DEF WorkerPC
<1>8. to = IF c \in Senders THEN "command" ELSE "join"
  OBVIOUS
<1>9. m.data \in Text
  BY <1>2 DEF Lines
<1> HIDE DEF m, a, to
<1>10. a[1] \in Tags /\ <<a[2]>> \in Text
  BY <1>5, AnswerIs
<1>11. /\ wpc' \in [Clients -> WorkerPC] /\ down' \in [Clients -> Seq(Lines)]
       /\ \A d \in Clients \ {c} : wpc'[d] = wpc[d] /\ down'[d] = down[d]
       /\ wpc'[c] = to
       /\ down'[c] \in {down[c], Append(down[c], Msg(a[1], <<a[2]>>))}
  BY <1>6, <1>7, <1>10, ReplyStep
<1>12. TypeOK'
  <2>1. username' \in [Clients -> Text]
    BY <1>1, <1>9 DEF TypeOK
  <2> QED
    BY <1>1, <1>2, <1>11, <2>1 DEF TypeOK, clientVars
<1>13. UNCHANGED <<cpc, asked>>
  BY <1>1 DEF clientVars
<1>14. ASSUME cpc[c] # "ended" PROVE Answered(c)' /\ Len(down'[c]) = 1
  <2>1. Asked(c, {LoginTag(c)}) /\ Asking(c)
    BY <1>2, <1>14, ReadTurns
  <2>2. asked[c].tag \in {<<"slogin">>, <<"rlogin">>}
    BY <2>1 DEF Asked, LoginTag
  <2>3. a \in Answers(asked[c])
    BY <2>2, AnswersTo DEF a
  <2> QED
    BY <1>4, <1>5, <1>6, <1>7, <1>13, <1>14, <2>1, <2>3, AnswerStep
<1>15. Keeps(c)
  BY <1>1, <1>8, <1>11, <1>12, <1>13, <1>14, AnswerKeeps
<1>16. down'[c] \in {down[c], Append(down[c], Msg("ok", <<"Login successful">>))}
  BY <1>5, <1>11
<1>17. UNCHANGED <<cpc, screen, room, queue, told>>
  BY <1>1 DEF clientVars
<1> QED
  BY <1>2, <1>15, <1>16, <1>17

LEMMA WorkerJoinKeeps ==
  ASSUME TypeOK, NEW c \in Clients, InTurn(c), Reads(c), WorkerJoin(c)
  PROVE  /\ Keeps(c)
         /\ wpc[c] = "join" /\ wpc'[c] = "deliver"
         /\ \A d \in Clients \ {c} : room'[d] = room[d]
         /\ down'[c] \in {down[c], Append(down[c], Msg("ok", <<"Join successful">>))}
         /\ UNCHANGED <<cpc, screen, queue, told>>
<1> DEFINE m == Head(up[c])
           a == <<"ok", "Join successful">>
<1>1. Read(c, "join") /\ UNCHANGED <<clientVars, server, username, queue, told>>
  BY DEF WorkerJoin
<1>2. wpc[c] = "join" /\ up[c] # <<>> /\ m \in Lines /\ up' \in [Clients -> Seq(Lines)]
  BY <1>1, ReadStep
<1>3. Finds(c, {"join"})
  BY <1>2 DEF Reads
<1>4. m.tag \in {<<t>> : t \in {"join"}} /\ up'[c] = <<>>
  BY <1>1, <1>3, ReadStep
<1>5. a \in AllAnswers /\ a[1] = "ok" /\ a[2] = "Join successful"
  BY DEF AllAnswers
<1>6. /\ Reply(c, Msg(a[1], <<a[2]>>), "deliver", "deliver")
      /\ room' = [room EXCEPT ![c] = m.data]
  <2>1. m.tag = <<"join">>
    BY <1>4
  <2> QED
    BY <1>5, <2>1 DEF WorkerJoin
<1>7. "deliver" \in WorkerPC
  BY DEF WorkerPC
<1>8. m.data \in Text
  BY <1>2 DEF Lines
<1> HIDE DEF m, a
<1>9. a[1] \in Tags /\ <<a[2]>> \in Text
  BY <1>5, AnswerIs
<1>10. /\ wpc' \in [Clients -> WorkerPC] /\ down' \in [Clients -> Seq(Lines)]
       /\ \A d \in Clients \ {c} : wpc'[d] = wpc[d] /\ down'[d] = down[d]
       /\ wpc'[c] = "deliver"
       /\ down'[c] \in {down[c], Append(down[c], Msg(a[1], <<a[2]>>))}
  BY <1>6, <1>7, <1>9, ReplyStep
<1>11. room' \in [Clients -> Text \cup {Null}] /\ \A d \in Clients \ {c} : room'[d] = room[d]
  BY <1>6, <1>8 DEF TypeOK
<1>12. TypeOK'
  BY <1>1, <1>2, <1>10, <1>11 DEF TypeOK, clientVars
<1>13. UNCHANGED <<cpc, asked, screen, queue, told>>
  BY <1>1 DEF clientVars
<1>14. ASSUME cpc[c] # "ended" PROVE Answered(c)' /\ Len(down'[c]) = 1
  <2>1. Asked(c, {"join"}) /\ Asking(c)
    BY <1>2, <1>14, ReadTurns
  <2>2. asked[c].tag = <<"join">>
    BY <2>1 DEF Asked
  <2>3. a \in Answers(asked[c])
    BY <2>2, AnswersTo DEF a
  <2> QED
    BY <1>4, <1>5, <1>6, <1>7, <1>13, <1>14, <2>1, <2>3, AnswerStep
<1>15. Keeps(c)
  BY <1>1, <1>10, <1>12, <1>13, <1>14, AnswerKeeps
<1> QED
  BY <1>2, <1>5, <1>10, <1>11, <1>13, <1>15

\* What a waiting client asked is what its worker reads.
LEMMA AskedIsRead ==
  ASSUME TypeOK, NEW c \in Clients, Asking(c), NEW tags \in SUBSET Tags, Asked(c, tags)
  PROVE  up[c][1].tag = asked[c].tag
<1>1. PICK t \in tags : asked[c].tag = <<t>>
  BY DEF Asked
<1>2. asked[c] \in Messages
  BY DEF TypeOK
<1> DEFINE d == asked[c].data
<1>3. d \in OneLine /\ asked[c] = Msg(t, d)
  BY <1>1, <1>2 DEF Messages, Msg
<1> HIDE DEF d
<1>4. Line(asked[c]).tag = <<t>>
  BY <1>3, OneLineWords, LineType
<1> QED
  BY <1>1, <1>4 DEF Asking

\* What is said, and who said it.
Says(from, text) == [from |-> from, text |-> text]

\* What a broadcast does to the queues.
LEMMA BroadcastStep ==
  ASSUME TypeOK, NEW c \in Clients, NEW text \in Text, room[c] # Null, Broadcast(c, text)
  PROVE  /\ queue' \in [Clients -> Seq(Text)] /\ told' \in [Receivers -> Seq(Sayings)]
         /\ Payload(room[c], username[c], text) \in Text
         /\ Stops(Payload(room[c], username[c], text))
         /\ Says(username[c], text) \in Sayings
         /\ \A d \in Clients :
              queue'[d] = IF Hears(d, c)
                          THEN Append(queue[d], Payload(room[c], username[c], text)) ELSE queue[d]
         /\ \A d \in Receivers :
              told'[d] = IF room[d] = room[c]
                         THEN Append(told[d], Says(username[c], text)) ELSE told[d]
<1> DEFINE p == Payload(room[c], username[c], text)
           x == Says(username[c], text)
<1>1. room[c] \in Text /\ username[c] \in Text
  BY DEF TypeOK
<1>2. p \in Text /\ Stops(p)
  BY <1>1, PayloadStops
<1>3. x \in Sayings
  BY <1>1 DEF Says, Sayings
<1>4. /\ queue' = [d \in Clients |-> IF Hears(d, c) THEN Append(queue[d], p) ELSE queue[d]]
      /\ told' = [d \in Receivers |-> IF room[d] = room[c] THEN Append(told[d], x) ELSE told[d]]
  BY DEF Broadcast, Tell, Says
<1> HIDE DEF p, x
<1>5. /\ \A d \in Clients : queue[d] \in Seq(Text) /\ Append(queue[d], p) \in Seq(Text)
      /\ \A d \in Receivers : told[d] \in Seq(Sayings) /\ Append(told[d], x) \in Seq(Sayings)
  BY <1>2, <1>3, Adding DEF TypeOK
<1>6. queue' \in [Clients -> Seq(Text)] /\ told' \in [Receivers -> Seq(Sayings)]
  BY <1>4, <1>5
<1> QED
  BY <1>2, <1>3, <1>4, <1>6 DEF p, x

\* A turn of the loop for a sender: what it answers, and to whom it speaks.
LEMMA CommandStep ==
  ASSUME TypeOK, NEW c \in Clients, InTurn(c), Reads(c), WorkerCommand(c)
  PROVE  /\ c \in Senders
         /\ \/ \E a \in AllAnswers : \E failed \in {"command", "done"} :
                 /\ Reply(c, Msg(a[1], <<a[2]>>), "command", failed)
                 /\ cpc[c] # "ended" => a \in Answers(asked[c])
            \/ cpc[c] = "ended" /\ down' = down /\ wpc' = [wpc EXCEPT ![c] = "done"]
         /\ \/ UNCHANGED <<queue, told>>
            \/ \E text \in Text : room[c] # Null /\ Broadcast(c, text)
         /\ \E r \in Text \cup {Null} : room' = [room EXCEPT ![c] = r]
         /\ UNCHANGED <<clientVars, server, username>>
<1> DEFINE m == Head(up[c])
<1>1. /\ Read(c, "command") /\ UNCHANGED <<clientVars, server, username>>
      /\ WorkerSendAll(c, m) \/ WorkerLeave(c, m) \/ WorkerMove(c, m) \/ WorkerOther(c, m)
  BY DEF WorkerCommand
<1>2. wpc[c] = "command" /\ up[c] # <<>> /\ m \in Lines
  BY <1>1, ReadStep
<1>3. c \in Senders /\ Finds(c, {"join", "leave", "sendall", "quit"})
  BY <1>2 DEF Reads
<1>4. m.tag \in {<<t>> : t \in {"join", "leave", "sendall", "quit"}} /\ m = up[c][1]
  BY <1>1, <1>3, ReadStep
<1>5. m.data \in Text
  BY <1>2 DEF Lines
<1> HIDE DEF m
<1>6. cpc[c] # "ended" => asked[c].tag = m.tag /\ m.tag # <<"quit">>
  <2> SUFFICES ASSUME cpc[c] # "ended" PROVE asked[c].tag = m.tag /\ m.tag # <<"quit">>
    OBVIOUS
  <2> DEFINE tags == {"join", "leave", "sendall"}
  <2>1. Asked(c, tags) /\ Asking(c)
    BY <1>2, ReadTurns
  <2>2. tags \in SUBSET Tags
    BY DEF Tags
  <2>3. asked[c].tag = m.tag
    BY <1>4, <2>1, <2>2, AskedIsRead
  <2>4. asked[c].tag # <<"quit">>
    BY <2>1 DEF Asked
  <2> QED
    BY <2>3, <2>4
<1>7. \E r \in Text \cup {Null} : room' = [room EXCEPT ![c] = r]
  <2>1. room[c] \in Text \cup {Null} /\ room = [room EXCEPT ![c] = room[c]]
    BY DEF TypeOK
  <2>2. CASE UNCHANGED room
    BY <2>1, <2>2
  <2>3. CASE Leaves(c)
    BY <2>3 DEF Leaves
  <2>4. CASE room' = [room EXCEPT ![c] = IF wpc'[c] = "done" THEN Null ELSE m.data]
    <3>1. (IF wpc'[c] = "done" THEN Null ELSE m.data) \in Text \cup {Null}
      BY <1>5
    <3> QED
      BY <2>4, <3>1
  <2>5. UNCHANGED room \/ Leaves(c) \/ room' = [room EXCEPT ![c] = IF wpc'[c] = "done" THEN Null ELSE m.data]
    BY <1>1 DEF WorkerSendAll, WorkerLeave, WorkerMove, WorkerOther
  <2> QED
    BY <2>2, <2>3, <2>4, <2>5
<1> DEFINE Answer(a, failed) ==
             /\ Reply(c, Msg(a[1], <<a[2]>>), "command", failed)
             /\ cpc[c] # "ended" => a \in Answers(asked[c])
<1>8. ASSUME NEW a \in AllAnswers, NEW t, NEW s, a = <<t, s>>, NEW failed \in {"command", "done"},
             Reply(c, Msg(t, <<s>>), "command", failed),
             cpc[c] # "ended" => a \in Answers(asked[c])
      PROVE  \E b \in AllAnswers : \E to \in {"command", "done"} : Answer(b, to)
  <2>1. a[1] = t /\ a[2] = s
    BY <1>8
  <2> QED
    BY <1>8, <2>1
<1>9. CASE WorkerSendAll(c, m)
  <2>1. m.tag = <<"sendall">>
    BY <1>9 DEF WorkerSendAll
  <2>2. cpc[c] # "ended" => Answers(asked[c]) = {<<"ok", "Message sent.">>, <<"err", "Error: Not in a room. JOIN first.">>}
    BY <1>6, <2>1, AnswersTo
  <2>3. CASE room[c] = Null
    <3>1. /\ Reply(c, Msg("err", <<"Error: Not in a room. JOIN first.">>), "command", "command")
          /\ UNCHANGED <<queue, told>>
      BY <1>9, <2>3 DEF WorkerSendAll
    <3>2. <<"err", "Error: Not in a room. JOIN first.">> \in AllAnswers
      BY DEF AllAnswers
    <3>3. \E b \in AllAnswers : \E to \in {"command", "done"} : Answer(b, to)
      BY <1>8, <2>2, <3>1, <3>2
    <3> QED
      BY <1>1, <1>3, <1>7, <3>1, <3>3
  <2>4. CASE room[c] # Null
    <3>1. /\ Reply(c, Msg("ok", <<"Message sent.">>), "command", "done")
          /\ Broadcast(c, m.data)
      BY <1>9, <2>4 DEF WorkerSendAll
    <3>2. <<"ok", "Message sent.">> \in AllAnswers
      BY DEF AllAnswers
    <3>3. \E b \in AllAnswers : \E to \in {"command", "done"} : Answer(b, to)
      BY <1>8, <2>2, <3>1, <3>2
    <3> QED
      BY <1>1, <1>3, <1>5, <1>7, <2>4, <3>1, <3>3
  <2> QED
    BY <2>3, <2>4
<1>10. CASE WorkerLeave(c, m)
  <2>1. m.tag = <<"leave">> /\ UNCHANGED <<queue, told>>
    BY <1>10 DEF WorkerLeave
  <2>2. cpc[c] # "ended" => Answers(asked[c]) = {<<"ok", "Left current rooom.">>, <<"err", "Error: Not in a room.">>}
    BY <1>6, <2>1, AnswersTo
  <2>3. /\ <<"ok", "Left current rooom.">> \in AllAnswers
        /\ <<"err", "Error: Not in a room.">> \in AllAnswers
    BY DEF AllAnswers
  <2>4. CASE Reply(c, Msg("ok", <<"Left current rooom.">>), "command", "command")
    <3>1. \E b \in AllAnswers : \E to \in {"command", "done"} : Answer(b, to)
      BY <1>8, <2>2, <2>3, <2>4
    <3> QED
      BY <1>1, <1>3, <1>7, <2>1, <3>1
  <2>5. CASE Reply(c, Msg("err", <<"Error: Not in a room.">>), "command", "done")
    <3>1. \E b \in AllAnswers : \E to \in {"command", "done"} : Answer(b, to)
      BY <1>8, <2>2, <2>3, <2>5
    <3> QED
      BY <1>1, <1>3, <1>7, <2>1, <3>1
  <2> QED
    BY <1>10, <2>4, <2>5 DEF WorkerLeave
<1>11. CASE WorkerMove(c, m)
  <2>1. /\ m.tag = <<"join">> /\ UNCHANGED <<queue, told>>
        /\ Reply(c, Msg("ok", <<"Joined Room.">>), "command", "done")
    BY <1>11 DEF WorkerMove
  <2>2. cpc[c] # "ended" => <<"ok", "Joined Room.">> \in Answers(asked[c])
    BY <1>6, <2>1, AnswersTo
  <2>3. <<"ok", "Joined Room.">> \in AllAnswers
    BY DEF AllAnswers
  <2>4. \E b \in AllAnswers : \E to \in {"command", "done"} : Answer(b, to)
    BY <1>8, <2>1, <2>2, <2>3
  <2> QED
    BY <1>1, <1>3, <1>7, <2>1, <2>4
<1>12. CASE WorkerOther(c, m)
  <2>1. m.tag = <<"quit">>
    BY <1>4, <1>12 DEF WorkerOther
  <2>2. /\ Reply(c, Msg("ok", <<"Quiting...">>), "done", "done") /\ UNCHANGED <<queue, told>>
    BY <1>12, <2>1 DEF WorkerOther
  <2>3. cpc[c] = "ended"
    BY <1>6, <2>1
  <2>4. down' = down /\ wpc' = [wpc EXCEPT ![c] = "done"]
    BY <2>2, <2>3 DEF Reply
  <2> QED
    BY <1>1, <1>3, <1>7, <2>2, <2>3, <2>4
<1> QED
  BY <1>1, <1>9, <1>10, <1>11, <1>12

LEMMA WorkerCommandKeeps ==
  ASSUME TypeOK, NEW c \in Clients, InTurn(c), Reads(c), WorkerCommand(c)
  PROVE  Keeps(c)
<1>1. /\ Read(c, "command") /\ UNCHANGED <<clientVars, server, username>>
  BY DEF WorkerCommand
<1>2. /\ wpc[c] = "command" /\ up[c] # <<>> /\ up' \in [Clients -> Seq(Lines)] /\ up'[c] = <<>>
  <2>1. wpc[c] = "command" /\ up[c] # <<>> /\ up' \in [Clients -> Seq(Lines)]
    BY <1>1, ReadStep
  <2>2. Finds(c, {"join", "leave", "sendall", "quit"})
    BY <2>1 DEF Reads
  <2> QED
    BY <1>1, <2>1, <2>2, ReadStep
<1>3. queue' \in [Clients -> Seq(Text)] /\ told' \in [Receivers -> Seq(Sayings)]
  <2>1. CASE UNCHANGED <<queue, told>>
    BY <2>1 DEF TypeOK
  <2>2. ASSUME NEW text \in Text, room[c] # Null, Broadcast(c, text)
        PROVE  queue' \in [Clients -> Seq(Text)] /\ told' \in [Receivers -> Seq(Sayings)]
    BY <2>2, BroadcastStep
  <2> QED
    BY <2>1, <2>2, CommandStep
<1>4. room' \in [Clients -> Text \cup {Null}]
  <2>1. PICK r \in Text \cup {Null} : room' = [room EXCEPT ![c] = r]
    BY CommandStep
  <2> QED
    BY <2>1 DEF TypeOK
<1>5. ASSUME wpc' \in [Clients -> WorkerPC], down' \in [Clients -> Seq(Lines)] PROVE TypeOK'
  BY <1>1, <1>2, <1>3, <1>4, <1>5 DEF TypeOK, clientVars
<1>6. UNCHANGED <<cpc, asked>>
  BY <1>1 DEF clientVars
<1>7. ASSUME NEW a \in AllAnswers, NEW failed \in {"command", "done"},
             Reply(c, Msg(a[1], <<a[2]>>), "command", failed),
             cpc[c] # "ended" => a \in Answers(asked[c])
      PROVE  Keeps(c)
  <2>1. "command" \in WorkerPC /\ failed \in WorkerPC
    BY DEF WorkerPC
  <2>2. a[1] \in Tags /\ <<a[2]>> \in Text
    BY AnswerIs
  <2>3. /\ wpc' \in [Clients -> WorkerPC] /\ down' \in [Clients -> Seq(Lines)]
        /\ \A d \in Clients \ {c} : wpc'[d] = wpc[d] /\ down'[d] = down[d]
        /\ wpc'[c] \in {"command", "done"}
    BY <1>7, <2>1, <2>2, ReplyStep
  <2>4. ASSUME cpc[c] # "ended" PROVE Answered(c)' /\ Len(down'[c]) = 1
    <3>1. Asking(c)
      BY <1>2, <2>4, ReadTurns
    <3> QED
      BY <1>2, <1>6, <1>7, <2>1, <2>4, <3>1, AnswerStep
  <2> QED
    BY <1>1, <1>5, <1>6, <2>3, <2>4, AnswerKeeps
<1>8. CASE cpc[c] = "ended" /\ down' = down /\ wpc' = [wpc EXCEPT ![c] = "done"]
  <2>1. /\ wpc' \in [Clients -> WorkerPC] /\ down' \in [Clients -> Seq(Lines)]
        /\ \A d \in Clients \ {c} : wpc'[d] = wpc[d] /\ down'[d] = down[d]
        /\ wpc'[c] \in {"command", "done"}
    BY <1>8 DEF TypeOK, WorkerPC
  <2> QED
    BY <1>1, <1>5, <1>6, <1>8, <2>1, AnswerKeeps
<1> QED
  BY <1>7, <1>8, CommandStep

\* A worker finds the end of its connection.
LEMMA WorkerEofKeeps ==
  ASSUME TypeOK, NEW c \in Clients, InTurn(c), Reads(c), WorkerEof(c)
  PROVE  Keeps(c)
<1>1. /\ cpc[c] = "ended" /\ wpc' = [wpc EXCEPT ![c] = "done"] /\ room' = [room EXCEPT ![c] = Null]
      /\ UNCHANGED <<clientVars, up, down, server, username, queue, told>>
  BY DEF WorkerEof, Leaves
<1>2. TypeOK' /\ Frame(c)
  BY <1>1 DEF TypeOK, WorkerPC, Frame, clientVars
<1>3. cpc'[c] = "ended" /\ wpc'[c] = "done"
  BY <1>1 DEF TypeOK, clientVars
<1> QED
  BY <1>2, <1>3 DEF Keeps, InTurn, Reads

\* Where the client of a worker that delivers is.
LEMMA DeliverTurns ==
  ASSUME TypeOK, NEW c \in Clients, InTurn(c), wpc[c] = "deliver"
  PROVE  /\ cpc[c] \in {"ended", "join_sent", "listen"}
         /\ cpc[c] = "join_sent" => Asked(c, {"join"}) /\ Answered(c) /\ Delivers(c, 2)
         /\ cpc[c] = "listen" => Delivers(c, 1)
<1>1. cpc[c] \in ClientPC
  BY DEF TypeOK
<1>2. /\ ~ At(c, {"backlog", "login"}) /\ ~ At(c, {"command"}) /\ ~ At(c, {"join"})
      /\ ~ At(c, {IF c \in Senders THEN "command" ELSE "join"})
  BY DEF At
<1>3. cpc[c] \in {"ended", "join_sent", "listen"}
  BY <1>1, <1>2, Turns DEF ClientPC
<1>4. cpc[c] = "join_sent" => Asked(c, {"join"}) /\ Answered(c) /\ Delivers(c, 2)
  BY <1>2, Turns
<1>5. cpc[c] = "listen" => Delivers(c, 1)
  BY Turns
<1> QED
  BY <1>3, <1>4, <1>5

\* What a worker does that delivers.
LEMMA DeliverStep ==
  ASSUME TypeOK, NEW c \in Clients, WorkerDeliver(c)
  PROVE  /\ wpc[c] = "deliver" /\ queue[c] # <<>> /\ Head(queue[c]) \in Text
         /\ queue' = [queue EXCEPT ![c] = Tail(queue[c])] /\ queue' \in [Clients -> Seq(Text)]
         /\ UNCHANGED <<clientVars, up, server, username, room, told>>
         /\ wpc' \in [Clients -> WorkerPC] /\ down' \in [Clients -> Seq(Lines)]
         /\ Msg("delivery", Head(queue[c])) \in Lines
         /\ wpc'[c] = "deliver"
         /\ \A d \in Clients \ {c} : wpc'[d] = wpc[d] /\ down'[d] = down[d]
         /\ down'[c] \in {down[c], Append(down[c], Msg("delivery", Head(queue[c])))}
         /\ cpc[c] # "ended" =>
              down'[c] = IF Fits(Msg("delivery", Head(queue[c])))
                         THEN Append(down[c], Msg("delivery", Head(queue[c]))) ELSE down[c]
<1>1. /\ wpc[c] = "deliver" /\ queue[c] # <<>>
      /\ queue' = [queue EXCEPT ![c] = Tail(queue[c])]
      /\ Reply(c, Msg("delivery", Head(queue[c])), "deliver", "deliver")
      /\ UNCHANGED <<clientVars, up, server, username, room, told>>
  BY DEF WorkerDeliver
<1>2. queue[c] \in Seq(Text)
  BY DEF TypeOK
<1>3. Head(queue[c]) \in Text /\ Tail(queue[c]) \in Seq(Text)
  BY <1>1, <1>2, Taking
<1>4. queue' \in [Clients -> Seq(Text)]
  BY <1>1, <1>3 DEF TypeOK
<1>5. "delivery" \in Tags /\ "deliver" \in WorkerPC
  BY DEF Tags, WorkerPC
<1> DEFINE d == Head(queue[c])
<1>6. /\ wpc' \in [Clients -> WorkerPC] /\ down' \in [Clients -> Seq(Lines)]
      /\ Msg("delivery", d) \in Lines
      /\ wpc'[c] \in {"deliver", "deliver"}
      /\ \A e \in Clients \ {c} : wpc'[e] = wpc[e] /\ down'[e] = down[e]
      /\ down'[c] \in {down[c], Append(down[c], Msg("delivery", d))}
      /\ cpc[c] # "ended" =>
           down'[c] = IF Fits(Msg("delivery", d)) THEN Append(down[c], Msg("delivery", d)) ELSE down[c]
  BY <1>1, <1>3, <1>5, ReplyStep
<1> QED
  BY <1>1, <1>3, <1>4, <1>6

LEMMA WorkerDeliverKeeps ==
  ASSUME TypeOK, NEW c \in Clients, InTurn(c), Reads(c), WorkerDeliver(c)
  PROVE  Keeps(c)
<1> DEFINE m == Msg("delivery", Head(queue[c]))
<1>1. /\ wpc[c] = "deliver" /\ queue' \in [Clients -> Seq(Text)] /\ m \in Lines
      /\ UNCHANGED <<clientVars, up, server, username, room, told>>
      /\ wpc' \in [Clients -> WorkerPC] /\ down' \in [Clients -> Seq(Lines)]
      /\ wpc'[c] = "deliver"
      /\ \A d \in Clients \ {c} : wpc'[d] = wpc[d] /\ down'[d] = down[d]
      /\ down'[c] \in {down[c], Append(down[c], m)}
  BY DeliverStep
<1>2. m.tag = <<"delivery">>
  BY DEF Msg
<1> HIDE DEF m
<1>3. TypeOK'
  BY <1>1 DEF TypeOK, clientVars
<1>4. Frame(c) /\ UNCHANGED <<cpc, asked, up>>
  BY <1>1 DEF Frame, clientVars
<1>5. c \in Receivers /\ Reads(c)'
  BY <1>1 DEF Reads
<1>6. /\ down[c] \in Seq(Lines) /\ Len(down[c]) \in Nat
      /\ \/ down'[c] = down[c]
         \/ /\ Len(down'[c]) = Len(down[c]) + 1 /\ down'[c][Len(down[c]) + 1] = m
            /\ \A i \in 1 .. Len(down[c]) : down'[c][i] = down[c][i]
            /\ down'[c] # <<>>
            /\ down[c] # <<>> => Head(down'[c]) = Head(down[c])
  <2> DEFINE s == down[c]
             t == Append(s, m)
  <2>1. s \in Seq(Lines) /\ Len(s) \in Nat /\ (down'[c] = s \/ down'[c] = t)
    BY <1>1 DEF TypeOK
  <2>2. /\ Len(t) = Len(s) + 1 /\ t[Len(s) + 1] = m /\ t # <<>>
        /\ \A i \in 1 .. Len(s) : t[i] = s[i]
        /\ s # <<>> => Head(t) = Head(s)
    BY <1>1, <2>1, Adding
  <2> HIDE DEF s, t
  <2>3. CASE down'[c] = s
    BY <2>1, <2>3 DEF s
  <2>4. CASE down'[c] = t
    BY <2>1, <2>2, <2>4 DEF s
  <2> QED
    BY <2>1, <2>3, <2>4
<1>7. ASSUME NEW i \in 1 .. 2, Delivers(c, i) PROVE Delivers(c, i)'
  BY <1>2, <1>6, <1>7 DEF Delivers
<1>8. At(c, {"deliver"})'
  BY <1>1 DEF At
<1>9. InTurn(c)'
  <2>1. CASE cpc[c] = "ended"
    BY <1>4, <2>1 DEF InTurn
  <2>2. CASE cpc[c] = "join_sent"
    <3>1. Asked(c, {"join"}) /\ Answered(c) /\ Delivers(c, 2)
      BY <1>1, <2>2, DeliverTurns
    <3>2. Asked(c, {"join"})' /\ Answered(c)' /\ Delivers(c, 2)'
      BY <1>4, <1>6, <1>7, <3>1 DEF Asked, Answered
    <3> QED
      BY <1>4, <1>5, <1>8, <2>2, <3>2 DEF InTurn
  <2>3. CASE cpc[c] = "listen"
    <3>1. Delivers(c, 1)'
      BY <1>1, <1>7, <2>3, DeliverTurns
    <3> QED
      BY <1>4, <1>5, <1>8, <2>3, <3>1 DEF InTurn
  <2> QED
    BY <1>1, <2>1, <2>2, <2>3, DeliverTurns
<1> QED
  BY <1>3, <1>4, <1>5, <1>9 DEF Keeps

\* The server ends: so do all of its workers.
LEMMA ServerKilledKeeps ==
  ASSUME StepInv, ServerKilled
  PROVE  StepInv'
<1>1. /\ server' = "ended" /\ UNCHANGED <<clientVars, up, down, username, room, queue, told>>
      /\ wpc' = [c \in Clients |-> IF wpc[c] = "none" THEN "none" ELSE "done"]
  BY DEF ServerKilled
<1>2. TypeOK /\ TypeOK'
  BY <1>1 DEF StepInv, TypeOK, WorkerPC, clientVars
<1>3. ASSUME NEW c \in Clients PROVE InTurn(c)' /\ Reads(c)'
  <2>1. InTurn(c) /\ Reads(c)
    BY DEF StepInv
  <2>2. UNCHANGED <<cpc, asked, up, down>> /\ wpc'[c] = IF wpc[c] = "none" THEN "none" ELSE "done"
    BY <1>1 DEF clientVars
  <2>3. CASE wpc[c] = "none"
    BY <2>1, <2>2, <2>3, SameTurn
  <2>4. CASE wpc[c] # "none"
    <3>1. /\ Silent(c)' = Silent(c) /\ Asking(c)' = Asking(c) /\ Answered(c)' = Answered(c)
          /\ Delivers(c, 1)' = Delivers(c, 1) /\ Delivers(c, 2)' = Delivers(c, 2)
          /\ \A places : At(c, places)'
          /\ \A tags : Asked(c, tags)' = Asked(c, tags)
      BY <2>2, <2>4 DEF Silent, Asking, Answered, Delivers, At, Asked
    <3>2. InTurn(c)'
      BY <2>1, <2>2, <2>4, <3>1 DEF InTurn
    <3>3. Reads(c)'
      BY <2>2, <2>4 DEF Reads
    <3> QED
      BY <3>2, <3>3
  <2> QED
    BY <2>3, <2>4
<1> QED
  BY <1>2, <1>3 DEF StepInv

\* No step of a client or of its worker takes them out of step.
LEMMA ClientKeeps ==
  ASSUME TypeOK, NEW c \in Clients, InTurn(c), Reads(c),
         Client(c) \/ Killed(c) \/ (c \in Senders /\ EndOfInput(c))
  PROVE  Keeps(c)
<1>1. CASE Connect(c)
  BY <1>1, ConnectKeeps
<1>2. CASE SendLogin(c)
  BY <1>2, SendLoginKeeps
<1>3. CASE ReceiveLogin(c)
  BY <1>3, ReceiveLoginKeeps
<1>4. CASE SendJoin(c)
  BY <1>4, SendJoinKeeps
<1>5. CASE ReceiveJoin(c)
  BY <1>5, ReceiveJoinKeeps
<1>6. CASE ReceiveAnswer(c)
  BY <1>6, ReceiveAnswerKeeps
<1>7. CASE Listen(c)
  BY <1>7, ListenKeeps
<1>8. CASE ReceiveFails(c)
  BY <1>8, EndKeeps DEF ReceiveFails
<1>9. CASE Killed(c)
  BY <1>9, EndKeeps DEF Killed
<1>10. CASE EndOfInput(c)
  BY <1>10, EndKeeps DEF EndOfInput, Goto
<1> QED
  BY <1>1, <1>2, <1>3, <1>4, <1>5, <1>6, <1>7, <1>8, <1>9, <1>10 DEF Client

LEMMA WorkerKeeps ==
  ASSUME TypeOK, NEW c \in Clients, InTurn(c), Reads(c), Worker(c)
  PROVE  Keeps(c)
<1>1. CASE Accept(c)
  BY <1>1, AcceptKeeps
<1>2. CASE WorkerLogin(c)
  BY <1>2, WorkerLoginKeeps
<1>3. CASE WorkerJoin(c)
  BY <1>3, WorkerJoinKeeps
<1>4. CASE WorkerCommand(c)
  BY <1>4, WorkerCommandKeeps
<1>5. CASE WorkerEof(c)
  BY <1>5, WorkerEofKeeps
<1>6. CASE WorkerDeliver(c)
  BY <1>6, WorkerDeliverKeeps
<1> QED
  BY <1>1, <1>2, <1>3, <1>4, <1>5, <1>6 DEF Worker

LEMMA StepInit == Init => StepInv
<1> SUFFICES ASSUME Init PROVE StepInv
  OBVIOUS
<1>1. None \in Messages
  <2>1. <<>> \in OneLine
    BY DEF OneLine
  <2>2. "" \in Tags \cup {""}
    OBVIOUS
  <2>3. <<"">> \in {<<t>> : t \in Tags \cup {""}}
    BY <2>2, Zenon
  <2> QED
    BY <2>1, <2>3 DEF None, Msg, Messages
<1>2. <<>> \in Text
  BY DEF Text
<1>3. 0 \in 0 .. MaxTyped
  BY ProtocolAssumption
<1>4. TypeOK
  BY <1>1, <1>2, <1>3 DEF Init, TypeOK, ClientPC, WorkerPC
<1>5. \A c \in Clients : cpc[c] = "connect" /\ wpc[c] = "none" /\ up[c] = <<>> /\ down[c] = <<>>
  BY DEF Init
<1> QED
  BY <1>4, <1>5 DEF StepInv, InTurn, Silent, Reads, Finds

LEMMA StepNext == StepInv /\ [Next]_vars => StepInv'
<1> SUFFICES ASSUME StepInv, [Next]_vars PROVE StepInv'
  OBVIOUS
<1>1. ASSUME NEW c \in Clients, Keeps(c) PROVE StepInv'
  <2>1. TypeOK' /\ Frame(c) /\ InTurn(c)' /\ Reads(c)'
    BY <1>1 DEF Keeps
  <2>2. \A d \in Clients \ {c} : InTurn(d)' /\ Reads(d)'
    BY <2>1, Framed DEF StepInv
  <2> QED
    BY <2>1, <2>2 DEF StepInv
<1>2. CASE \E c \in Clients : Client(c) \/ Worker(c) \/ Killed(c)
  BY <1>1, <1>2, ClientKeeps, WorkerKeeps DEF StepInv
<1>3. CASE \E c \in Senders : Sender(c)
  <2>1. PICK c \in Senders : Type(c) \/ EndOfInput(c)
    BY <1>3 DEF Sender
  <2>2. c \in Clients
    BY DEF Clients
  <2> QED
    BY <1>1, <2>1, <2>2, TypeKeeps, ClientKeeps DEF StepInv
<1>4. CASE Serve \/ UNCHANGED vars
  <2>1. /\ UNCHANGED <<clientVars, up, down, wpc, username, room, queue, told>>
        /\ server' \in {"listening", "ended", server}
    BY <1>4 DEF Serve, vars, serverVars
  <2>2. TypeOK'
    BY <2>1 DEF StepInv, TypeOK, clientVars
  <2>3. \A c \in Clients : InTurn(c)' /\ Reads(c)'
    BY <2>1, SameTurn DEF StepInv, clientVars
  <2> QED
    BY <2>2, <2>3 DEF StepInv
<1>5. CASE ServerKilled
  BY <1>5, ServerKilledKeeps
<1> QED
  BY <1>2, <1>3, <1>4, <1>5 DEF Next

\* Where a client is and what is between it and its worker follow from each other,
\* in every state.
THEOREM StepInvariance == Spec => []StepInv
BY StepInit, StepNext, PTL DEF Spec

\* Clients and server stay in step: no answer is taken for another's (sender.cpp:42-106,
\* receiver.cpp:45-79, server.cpp:34-196).
THEOREM StayInStep == Spec => []InStep
<1>1. StepInv => InStep
  <2> SUFFICES ASSUME StepInv, NEW c \in Clients
               PROVE  /\ cpc[c] \in {"login", "join", "prompt"} => up[c] = <<>> /\ down[c] = <<>>
                      /\ Waiting(c) /\ wpc[c] # "done" =>
                           (Len(up[c]) = 1 /\ down[c] = <<>>) \/ (up[c] = <<>> /\ down[c] # <<>>)
                      /\ Waiting(c) /\ down[c] # <<>> =>
                           LET m == Head(down[c]) IN <<m.tag[1], m.data[1]>> \in Answers(asked[c])
    BY DEF InStep
  <2>1. InTurn(c)
    BY DEF StepInv
  <2>2. cpc[c] \in {"login", "join", "prompt"} => Silent(c)
    BY <2>1, Turns
  <2>3. Waiting(c) => Asking(c) \/ Answered(c)
    BY <2>1, Turns DEF Waiting
  <2> QED
    BY <2>2, <2>3 DEF Silent, Asking, Answered
<1> QED
  BY <1>1, StepInvariance, PTL

-----------------------------------------------------------------------------
(***************************************************************************)
(* What is said in a receiver's room and what it prints: its screen, its   *)
(* connection and its queue are one chain of what was said there, in this  *)
(* order, under another name than its own.                                 *)
(***************************************************************************)

\* The deliveries in the queues have their colons.
QueuesStop == \A c \in Clients : \A data \in ToSet(queue[c]) : Stops(data)

\* The k-th thing said to c is sent to it.
Goes(c, k) == Foreign(c, k) /\ Fits(Msg("delivery", Delivery(c, k)))

\* What is behind the line that answers the join, up to the n-th thing said to c, has
\* been said, and nobody has looked at it.
InTransit(c, n, i) ==
  /\ Nth(c, n) = Len(screen[c]) + Len(down[c]) - i
  /\ \A k \in Deliverable(c, n) :
       Nth(c, k) > Len(screen[c]) =>
         down[c][i + Nth(c, k) - Len(screen[c])] = Msg("delivery", Delivery(c, k))

\* Of the first n things said to c, what is sent to it is on its screen or on its way.
Sent(c, n) ==
  /\ Len(screen[c]) <= Nth(c, n)
  /\ \A k \in Deliverable(c, n) :
       Nth(c, k) <= Len(screen[c]) => screen[c][Nth(c, k)] = Parse(Delivery(c, k))
  /\ cpc[c] = "join_sent" => IF down[c] = <<>> THEN room[c] = Null ELSE InTransit(c, n, 1)
  /\ cpc[c] = "listen" => InTransit(c, n, 0)

\* c's queue holds what was said to c behind the p[0]-th thing under another name than
\* c's, each at the place p has for it.
Queued(c, p) ==
  /\ \A i, j \in 0 .. Len(queue[c]) : i < j => p[i] < p[j]
  /\ \A i \in 1 .. Len(queue[c]) : Foreign(c, p[i]) /\ queue[c][i] = Delivery(c, p[i])
  /\ \A k \in p[0] + 1 .. Len(told[c]) :
       Foreign(c, k) => \E i \in 1 .. Len(queue[c]) : p[i] = k

\* Nothing is said to a receiver before it has joined.
NotYet(c) ==
  /\ room[c] = Null => told[c] = <<>> /\ queue[c] = <<>> /\ screen[c] = <<>>
  /\ wpc[c] \in {"none", "backlog", "login", "join"} => room[c] = Null
  /\ cpc[c] \in {"connect", "login", "login_sent", "join"} => room[c] = Null

\* What was said to a receiver under another name is on its screen, on its way, or in
\* its queue.
Chain(c) ==
  /\ NotYet(c)
  /\ \E p \in [0 .. Len(queue[c]) -> 0 .. Len(told[c])] : Queued(c, p) /\ Sent(c, p[0])

\* The inductive invariant.
PrintInv == StepInv /\ QueuesStop /\ ParseStops /\ \A c \in Receivers : Chain(c)

\* Deliveries are counted one by one, those that are not sent not at all.
LEMMA Counts ==
  ASSUME NEW c
  PROVE  /\ \A n \in Nat : IsFiniteSet(Deliverable(c, n)) /\ Nth(c, n) \in Nat
         /\ Nth(c, 0) = 0
         /\ \A n \in Nat : Nth(c, n + 1) = IF Goes(c, n + 1) THEN Nth(c, n) + 1 ELSE Nth(c, n)
         /\ \A n \in Nat : \A k \in 0 .. n : Nth(c, k) <= Nth(c, n)
<1> DEFINE ok(k) == Goes(c, k)
           D(n) == {k \in 1 .. n : ok(k)}
<1>1. \A n : Deliverable(c, n) = D(n) /\ Nth(c, n) = Cardinality(D(n))
  BY Zenon DEF Deliverable, Nth, Goes
<1> HIDE DEF ok
<1>2. ASSUME NEW n \in Nat PROVE IsFiniteSet(D(n)) /\ Cardinality(D(n)) \in Nat
  <2>1. IsFiniteSet(1 .. n) /\ D(n) \in SUBSET (1 .. n)
    BY <1>2, FS_Interval
  <2>2. IsFiniteSet(D(n))
    BY <2>1, FS_Subset, Zenon
  <2> QED
    BY <2>2, FS_CardinalityType, Zenon
<1>3. Cardinality(D(0)) = 0
  <2>1. D(0) = {}
    OBVIOUS
  <2> QED
    BY <2>1, FS_EmptySet, Zenon
<1>4. ASSUME NEW n \in Nat
      PROVE  Cardinality(D(n + 1)) = IF ok(n + 1) THEN Cardinality(D(n)) + 1 ELSE Cardinality(D(n))
  <2>1. CASE ok(n + 1)
    <3>1. D(n + 1) = D(n) \cup {n + 1} /\ n + 1 \notin D(n)
      BY <2>1
    <3>2. IsFiniteSet(D(n))
      BY <1>2
    <3> HIDE DEF D
    <3>3. Cardinality(D(n) \cup {n + 1}) = Cardinality(D(n)) + 1
      BY <3>1, <3>2, FS_AddElement
    <3> QED
      BY <2>1, <3>1, <3>3
  <2>2. CASE ~ ok(n + 1)
    <3>1. D(n + 1) = D(n)
      BY <2>2
    <3> HIDE DEF D
    <3> QED
      BY <2>2, <3>1
  <2> QED
    BY <2>1, <2>2
<1>5. ASSUME NEW n \in Nat, NEW k \in 0 .. n PROVE Cardinality(D(k)) <= Cardinality(D(n))
  <2>1. D(k) \in SUBSET D(n) /\ IsFiniteSet(D(n))
    BY <1>2
  <2> HIDE DEF D
  <2> QED
    BY <2>1, FS_Subset
<1> HIDE DEF D
<1>6. \A n \in Nat : Nth(c, n + 1) = IF ok(n + 1) THEN Nth(c, n) + 1 ELSE Nth(c, n)
  BY <1>1, <1>4
<1>7. \A n \in Nat : \A k \in 0 .. n : Nth(c, k) <= Nth(c, n)
  BY <1>1, <1>5
<1>8. Nth(c, 0) = 0 /\ \A n \in Nat : IsFiniteSet(Deliverable(c, n)) /\ Nth(c, n) \in Nat
  BY <1>1, <1>2, <1>3
<1> QED
  BY <1>6, <1>7, <1>8 DEF ok

\* The place of a delivery among those that are sent.
LEMMA Place ==
  ASSUME NEW c, NEW n \in Nat, NEW k \in Deliverable(c, n)
  PROVE  /\ k \in 1 .. n /\ Goes(c, k)
         /\ Nth(c, k) \in Nat /\ Nth(c, n) \in Nat /\ Nth(c, k) <= Nth(c, n)
         /\ \A j \in 0 .. k - 1 : Nth(c, j) + 1 <= Nth(c, k)
<1>1. k \in 1 .. n /\ Goes(c, k)
  BY DEF Deliverable, Goes
<1>2. k - 1 \in Nat /\ k \in Nat /\ k = (k - 1) + 1 /\ k \in 0 .. n
  BY <1>1
<1>3. Nth(c, k) = Nth(c, k - 1) + 1
  BY <1>1, <1>2, Counts
<1>4. Nth(c, k) <= Nth(c, n) /\ Nth(c, k) \in Nat /\ Nth(c, n) \in Nat /\ Nth(c, k - 1) \in Nat
  BY <1>2, Counts
<1>5. ASSUME NEW j \in 0 .. k - 1 PROVE Nth(c, j) + 1 <= Nth(c, k)
  <2>1. \A m \in Nat : \A i \in 0 .. m : Nth(c, i) <= Nth(c, m) /\ Nth(c, i) \in Nat
    <3>1. \A i \in Nat : Nth(c, i) \in Nat
      BY Counts
    <3>2. \A m \in Nat : \A i \in 0 .. m : Nth(c, i) <= Nth(c, m)
      BY Counts
    <3> QED
      BY <3>1, <3>2
  <2>2. Nth(c, j) <= Nth(c, k - 1) /\ Nth(c, j) \in Nat
    BY <1>2, <2>1
  <2> QED
    BY <1>3, <1>4, <2>2
<1> QED
  BY <1>1, <1>4, <1>5

\* Between the n-th and the m-th thing said to c nothing is sent to it.
LEMMA Skips ==
  ASSUME NEW c, NEW n \in Nat, NEW m \in Nat, n < m, \A k \in n + 1 .. m - 1 : ~Goes(c, k)
  PROVE  /\ Nth(c, m) = IF Goes(c, m) THEN Nth(c, n) + 1 ELSE Nth(c, n)
         /\ \A k \in Deliverable(c, m) : /\ k \in Nat /\ Nth(c, k) \in Nat
                                         /\ k \in Deliverable(c, n) \/ (k = m /\ Goes(c, m))
<1>1. m - 1 \in Nat /\ (m - 1) + 1 = m
  OBVIOUS
<1>2. \A j : Deliverable(c, j) = {k \in 1 .. j : Goes(c, k)}
  BY DEF Deliverable, Goes
<1>3. Deliverable(c, m - 1) = Deliverable(c, n)
  BY <1>2
<1>4. Nth(c, m - 1) = Nth(c, n)
  BY <1>3 DEF Nth
<1>5. Nth(c, m) = IF Goes(c, m) THEN Nth(c, m - 1) + 1 ELSE Nth(c, m - 1)
  BY <1>1, Counts
<1>6. ASSUME NEW k \in Deliverable(c, m)
      PROVE  /\ k \in Nat /\ Nth(c, k) \in Nat
             /\ k \in Deliverable(c, n) \/ (k = m /\ Goes(c, m))
  <2>1. k \in 1 .. m /\ Goes(c, k)
    BY <1>2, <1>6
  <2>2. k \in Nat /\ (k \in 1 .. m - 1 \/ k = m)
    BY <2>1
  <2>3. Nth(c, k) \in Nat
    BY <2>2, Counts
  <2> QED
    BY <1>2, <1>3, <2>1, <2>2, <2>3
<1> QED
  BY <1>4, <1>5, <1>6

\* What was said stays said, and so stays its place.
LEMMA SaidStays ==
  ASSUME NEW c, NEW n \in Nat, room'[c] = room[c], username'[c] = username[c],
         \A k \in 1 .. n : told'[c][k] = told[c][k]
  PROVE  /\ \A k \in 1 .. n : Delivery(c, k)' = Delivery(c, k) /\ Foreign(c, k)' = Foreign(c, k)
         /\ \A k \in 0 .. n : Deliverable(c, k)' = Deliverable(c, k) /\ Nth(c, k)' = Nth(c, k)
<1>1. ASSUME NEW k \in 1 .. n
      PROVE  /\ Delivery(c, k)' = Delivery(c, k) /\ Foreign(c, k)' = Foreign(c, k)
             /\ Goes(c, k)' = Goes(c, k)
  BY DEF Delivery, Foreign, Goes
<1>2. ASSUME NEW k \in 0 .. n PROVE Deliverable(c, k)' = Deliverable(c, k)
  <2>1. \A j \in 1 .. k : j \in 1 .. n
    OBVIOUS
  <2>2. \A j \in 1 .. k : Goes(c, j)' = Goes(c, j)
    BY <1>1, <2>1
  <2>3. /\ Deliverable(c, k) = {j \in 1 .. k : Goes(c, j)}
        /\ Deliverable(c, k)' = {j \in 1 .. k : Goes(c, j)'}
    BY DEF Deliverable, Goes
  <2> QED
    BY <2>2, <2>3
<1> QED
  BY <1>1, <1>2 DEF Nth

\* The numbers that the chain is about.
LEMMA Sizes ==
  ASSUME TypeOK, NEW d \in Receivers
  PROVE  /\ d \in Clients
         /\ told[d] \in Seq(Sayings) /\ Len(told[d]) \in Nat
         /\ queue[d] \in Seq(Text) /\ Len(queue[d]) \in Nat
         /\ screen[d] \in Seq(Sayings) /\ Len(screen[d]) \in Nat
         /\ down[d] \in Seq(Lines) /\ Len(down[d]) \in Nat
<1>1. d \in Clients
  BY DEF Clients
<1>2. /\ told[d] \in Seq(Sayings) /\ queue[d] \in Seq(Text)
      /\ screen[d] \in Seq(Sayings) /\ down[d] \in Seq(Lines)
  BY <1>1 DEF TypeOK
<1> QED
  BY <1>1, <1>2

\* A receiver that nothing was said to.
LEMMA NothingSaid ==
  ASSUME NEW d, told'[d] = <<>>, queue'[d] = <<>>, screen'[d] = <<>>,
         wpc'[d] \in {"none", "backlog", "login", "join"} => room'[d] = Null,
         cpc'[d] \in {"connect", "login", "login_sent", "join"} => room'[d] = Null,
         cpc'[d] = "join_sent" => (down'[d] = <<>> /\ room'[d] = Null) \/ Len(down'[d]) = 1,
         cpc'[d] # "listen"
  PROVE  Chain(d)'
<1>1. Deliverable(d, 0)' = {} /\ Nth(d, 0)' = 0
  <2>1. Deliverable(d, 0)' = {}
    BY DEF Deliverable
  <2> QED
    BY <2>1, FS_EmptySet DEF Nth
<1>2. ASSUME Len(down'[d]) = 1 PROVE InTransit(d, 0, 1)'
  BY <1>1, <1>2 DEF InTransit
<1>3. down'[d] = <<>> => Len(down'[d]) = 0
  OBVIOUS
<1>4. Sent(d, 0)'
  <2>1. Len(screen'[d]) = 0
    OBVIOUS
  <2>2. Len(screen'[d]) <= Nth(d, 0)'
    BY <1>1, <2>1
  <2>3. cpc'[d] = "join_sent" =>
          IF down'[d] = <<>> THEN room'[d] = Null ELSE InTransit(d, 0, 1)'
    BY <1>2, <1>3
  <2> QED
    BY <1>1, <2>2, <2>3 DEF Sent
<1>5. PICK p : p = [i \in 0 .. 0 |-> 0]
  OBVIOUS
<1>6. p \in [0 .. Len(queue'[d]) -> 0 .. Len(told'[d])] /\ p[0] = 0
  BY <1>5
<1>7. Queued(d, p)'
  BY <1>6 DEF Queued
<1>8. NotYet(d)'
  BY DEF NotYet
<1> QED
  BY <1>4, <1>6, <1>7, <1>8 DEF Chain

\* What was printed and what is on its way, while nobody adds to it.
LEMMA SameSent ==
  ASSUME TypeOK, NEW d \in Receivers, NEW n \in 0 .. Len(told[d]), Sent(d, n),
         room'[d] = room[d], username'[d] = username[d],
         screen'[d] = screen[d], down'[d] = down[d], cpc'[d] \in {cpc[d], "ended"},
         \A k \in 1 .. Len(told[d]) : told'[d][k] = told[d][k]
  PROVE  Sent(d, n)'
<1>1. n \in Nat /\ n <= Len(told[d]) /\ Len(told[d]) \in Nat
  BY Sizes
<1>2. \A k \in 1 .. n : told'[d][k] = told[d][k]
  BY <1>1
<1>3. /\ \A k \in 1 .. n : Delivery(d, k)' = Delivery(d, k)
      /\ \A k \in 0 .. n : Deliverable(d, k)' = Deliverable(d, k) /\ Nth(d, k)' = Nth(d, k)
  BY <1>1, <1>2, SaidStays
<1>4. Deliverable(d, n)' = Deliverable(d, n) /\ Nth(d, n)' = Nth(d, n)
  BY <1>1, <1>3
<1>5. \A k \in Deliverable(d, n) : Delivery(d, k)' = Delivery(d, k) /\ Nth(d, k)' = Nth(d, k)
  <2>1. \A k \in Deliverable(d, n) : k \in 1 .. n /\ k \in 0 .. n
    BY <1>1 DEF Deliverable
  <2> QED
    BY <1>3, <2>1
<1>6. \A i \in {0, 1} : InTransit(d, n, i) => InTransit(d, n, i)'
  BY <1>4, <1>5 DEF InTransit
<1> QED
  BY <1>4, <1>5, <1>6 DEF Sent

\* The chain of a receiver, while nothing of it changes.
LEMMA SameChain ==
  ASSUME TypeOK, NEW d \in Receivers, Chain(d),
         room'[d] = room[d], username'[d] = username[d], told'[d] = told[d],
         queue'[d] = queue[d], screen'[d] = screen[d], down'[d] = down[d],
         cpc'[d] \in {cpc[d], "ended"},
         wpc'[d] \in {"none", "backlog", "login", "join"} => room[d] = Null
  PROVE  Chain(d)'
<1>1. PICK p \in [0 .. Len(queue[d]) -> 0 .. Len(told[d])] : Queued(d, p) /\ Sent(d, p[0])
  BY DEF Chain
<1>2. p[0] \in 0 .. Len(told[d])
  BY Sizes
<1>3. Sent(d, p[0])'
  <2>1. PICK n \in 0 .. Len(told[d]) : n = p[0]
    BY <1>2
  <2> QED
    BY <1>1, <2>1, SameSent
<1>4. Queued(d, p)'
  BY <1>1 DEF Queued, Delivery, Foreign
<1>5. NotYet(d)'
  BY DEF Chain, NotYet
<1> QED
  BY <1>3, <1>4, <1>5 DEF Chain

\* One more thing is said to a receiver: it is queued, or it was said under its name.
LEMMA MoreSaid ==
  ASSUME TypeOK, NEW d \in Receivers, Chain(d), room[d] # Null, NEW say \in Sayings,
         Payload(room[d], say.from, say.text) \in Text,
         told'[d] = Append(told[d], say),
         queue'[d] = IF say.from # username[d]
                     THEN Append(queue[d], Payload(room[d], say.from, say.text)) ELSE queue[d],
         room'[d] = room[d], username'[d] = username[d], screen'[d] = screen[d],
         down'[d] = down[d], cpc'[d] = cpc[d], wpc'[d] = wpc[d]
  PROVE  Chain(d)'
<1>1. PICK p \in [0 .. Len(queue[d]) -> 0 .. Len(told[d])] : Queued(d, p) /\ Sent(d, p[0])
  BY DEF Chain
<1>2. PICK L, q, pay : /\ L = Len(told[d]) /\ q = Len(queue[d])
                       /\ pay = Payload(room[d], say.from, say.text)
  BY Zenon
<1>3. /\ told[d] \in Seq(Sayings) /\ L \in Nat /\ queue[d] \in Seq(Text) /\ q \in Nat
      /\ p \in [0 .. q -> 0 .. L] /\ pay \in Text
  BY <1>2, Sizes
<1>4. /\ Len(told'[d]) = L + 1 /\ told'[d][L + 1] = say
      /\ \A k \in 1 .. L : told'[d][k] = told[d][k]
  BY <1>2, <1>3, Adding
<1>5. /\ \A i, j \in 0 .. q : i < j => p[i] < p[j]
      /\ \A i \in 1 .. q : Foreign(d, p[i]) /\ queue[d][i] = Delivery(d, p[i])
      /\ \A k \in p[0] + 1 .. L : Foreign(d, k) => \E i \in 1 .. q : p[i] = k
  BY <1>1, <1>2 DEF Queued
<1>6. \A k \in 1 .. L : Delivery(d, k)' = Delivery(d, k) /\ Foreign(d, k)' = Foreign(d, k)
  BY <1>3, <1>4, SaidStays
<1>7. Delivery(d, L + 1)' = pay /\ Foreign(d, L + 1)' = (say.from # username[d])
  BY <1>2, <1>4 DEF Delivery, Foreign
<1>8. \A i \in 1 .. q : p[i] \in 1 .. L
  BY <1>3, <1>5
<1>9. NotYet(d)'
  BY DEF Chain, NotYet
<1>10. Sent(d, p[0])'
  <2>1. PICK n \in 0 .. Len(told[d]) : n = p[0]
    <3>1. 0 \in 0 .. q
      BY <1>3
    <3> QED
      BY <1>2, <1>3, <3>1
  <2>2. \A k \in 1 .. Len(told[d]) : told'[d][k] = told[d][k]
    BY <1>2, <1>4
  <2> QED
    BY <1>1, <2>1, <2>2, SameSent
<1>11. CASE say.from = username[d]
  <2>1. Len(queue'[d]) = q /\ queue'[d] = queue[d]
    BY <1>2, <1>11
  <2>2. p \in [0 .. Len(queue'[d]) -> 0 .. Len(told'[d])]
    BY <1>3, <1>4, <2>1
  <2>3. \A i \in 1 .. q : Foreign(d, p[i])' /\ queue'[d][i] = Delivery(d, p[i])'
    BY <1>5, <1>6, <1>8, <2>1
  <2>4. ASSUME NEW k \in p[0] + 1 .. L + 1, Foreign(d, k)' PROVE \E i \in 1 .. q : p[i] = k
    <3>1. k # L + 1
      BY <1>7, <1>11, <2>4
    <3>2. k \in p[0] + 1 .. L /\ k \in 1 .. L
      BY <1>3, <3>1
    <3> QED
      BY <1>5, <1>6, <2>4, <3>2
  <2>5. Queued(d, p)'
    BY <1>4, <1>5, <2>1, <2>3, <2>4 DEF Queued
  <2> QED
    BY <1>9, <1>10, <2>2, <2>5 DEF Chain
<1>12. CASE say.from # username[d]
  <2>1. /\ Len(queue'[d]) = q + 1 /\ queue'[d][q + 1] = pay
        /\ \A k \in 1 .. q : queue'[d][k] = queue[d][k]
    <3>1. queue'[d] = Append(queue[d], pay) /\ queue[d] \in Seq(Text) /\ pay \in Text
      BY <1>2, <1>3, <1>12
    <3> QED
      BY <1>2, <3>1, Adding
  <2>2. PICK r : r = [i \in 0 .. q + 1 |-> IF i = q + 1 THEN L + 1 ELSE p[i]]
    OBVIOUS
  <2>3. /\ \A i \in 0 .. q : r[i] = p[i]
        /\ r[q + 1] = L + 1 /\ r \in [0 .. q + 1 -> 0 .. L + 1] /\ r[0] = p[0]
    BY <1>3, <2>2
  <2>4. r \in [0 .. Len(queue'[d]) -> 0 .. Len(told'[d])]
    BY <1>4, <2>1, <2>3
  <2>5. ASSUME NEW i \in 0 .. q + 1, NEW j \in 0 .. q + 1, i < j PROVE r[i] < r[j]
    <3>1. i \in 0 .. q /\ (j \in 0 .. q \/ j = q + 1)
      BY <1>3, <2>5
    <3>2. p[i] \in 0 .. L /\ p[i] < L + 1
      BY <1>3, <3>1
    <3> QED
      BY <1>5, <2>3, <2>5, <3>1, <3>2
  <2>6. ASSUME NEW i \in 1 .. q + 1 PROVE Foreign(d, r[i])' /\ queue'[d][i] = Delivery(d, r[i])'
    <3>1. CASE i \in 1 .. q
      <4>1. r[i] = p[i] /\ p[i] \in 1 .. L
        BY <1>8, <2>3, <3>1
      <4>2. PICK k \in 1 .. L : k = r[i]
        BY <4>1
      <4> QED
        BY <1>5, <1>6, <2>1, <3>1, <4>1, <4>2
    <3>2. CASE i = q + 1
      BY <1>7, <1>12, <2>1, <2>3, <3>2
    <3> QED
      BY <1>3, <3>1, <3>2
  <2>7. ASSUME NEW k \in r[0] + 1 .. L + 1, Foreign(d, k)'
        PROVE  \E i \in 1 .. q + 1 : r[i] = k
    <3>1. CASE k = L + 1
      BY <1>3, <2>3, <3>1
    <3>2. CASE k # L + 1
      <4>1. k \in p[0] + 1 .. L /\ k \in 1 .. L
        BY <1>3, <2>3, <3>2
      <4>2. PICK i \in 1 .. q : p[i] = k
        BY <1>5, <1>6, <2>7, <4>1
      <4> QED
        BY <1>3, <2>3, <4>2
    <3> QED
      BY <3>1, <3>2
  <2>8. Queued(d, r)'
    BY <1>4, <2>1, <2>5, <2>6, <2>7 DEF Queued
  <2>9. Sent(d, r[0])'
    BY <1>10, <2>3
  <2> QED
    BY <1>9, <2>4, <2>8, <2>9 DEF Chain
<1> QED
  BY <1>11, <1>12

\* The worker takes a delivery from the queue and sends it.
LEMMA DeliverChain ==
  ASSUME TypeOK, NEW c \in Receivers, InTurn(c), Chain(c), WorkerDeliver(c)
  PROVE  Chain(c)'
<1> DEFINE m == Msg("delivery", Head(queue[c]))
<1>1. /\ wpc[c] = "deliver" /\ queue[c] # <<>>
      /\ queue' = [queue EXCEPT ![c] = Tail(queue[c])]
      /\ UNCHANGED <<cpc, screen, username, room, told>>
      /\ wpc'[c] = "deliver" /\ m \in Lines
      /\ cpc[c] # "ended" => down'[c] = IF Fits(m) THEN Append(down[c], m) ELSE down[c]
  <2>1. c \in Clients
    BY DEF Clients
  <2>2. UNCHANGED username
    BY DEF WorkerDeliver
  <2> QED
    BY <2>1, <2>2, DeliverStep DEF clientVars
<1>2. PICK p \in [0 .. Len(queue[c]) -> 0 .. Len(told[c])] : Queued(c, p) /\ Sent(c, p[0])
  BY DEF Chain
<1>3. PICK L, q, n, n1 : L = Len(told[c]) /\ q = Len(queue[c]) /\ n = p[0] /\ n1 = p[1]
  BY Zenon
<1>4. /\ queue[c] \in Seq(Text) /\ q \in Nat /\ L \in Nat /\ p \in [0 .. q -> 0 .. L]
      /\ down[c] \in Seq(Lines) /\ Len(down[c]) \in Nat /\ Len(screen[c]) \in Nat
  BY <1>2, <1>3, Sizes
<1>5. /\ \A i, j \in 0 .. q : i < j => p[i] < p[j]
      /\ \A i \in 1 .. q : Foreign(c, p[i]) /\ queue[c][i] = Delivery(c, p[i])
      /\ \A k \in n + 1 .. L : Foreign(c, k) => \E i \in 1 .. q : p[i] = k
  BY <1>2, <1>3 DEF Queued
<1>6. /\ queue'[c] = Tail(queue[c]) /\ Head(queue[c]) = queue[c][1]
      /\ Len(queue'[c]) = q - 1 /\ q \in Nat \ {0}
      /\ \A i \in 1 .. q - 1 : queue'[c][i] = queue[c][i + 1]
  <2>1. queue'[c] = Tail(queue[c]) /\ queue[c] \in Seq(Text) /\ queue[c] # <<>>
    BY <1>1, <1>4 DEF TypeOK, Clients
  <2> QED
    BY <1>3, <2>1, Taking
<1>7. n \in 0 .. L /\ n1 \in 1 .. L /\ n \in Nat /\ n1 \in Nat /\ n < n1
  <2>1. 0 \in 0 .. q /\ 1 \in 0 .. q /\ 0 < 1
    BY <1>6
  <2>2. p[0] < p[1] /\ p[0] \in 0 .. L /\ p[1] \in 0 .. L
    BY <1>4, <1>5, <2>1
  <2> QED
    BY <1>3, <1>4, <2>2
<1>8. m = Msg("delivery", Delivery(c, n1)) /\ (Goes(c, n1) <=> Fits(m))
  <2>1. 1 \in 1 .. q
    BY <1>6
  <2>2. Foreign(c, n1) /\ Head(queue[c]) = Delivery(c, n1)
    BY <1>3, <1>5, <1>6, <2>1
  <2>3. m = Msg("delivery", Delivery(c, n1))
    BY <2>2
  <2> HIDE DEF m
  <2> QED
    BY <2>2, <2>3, Zenon DEF Goes
<1> HIDE DEF m
<1>9. /\ Nth(c, n1) = IF Fits(m) THEN Nth(c, n) + 1 ELSE Nth(c, n)
      /\ Nth(c, n) \in Nat
      /\ \A k \in Deliverable(c, n1) : /\ k \in Nat /\ Nth(c, k) \in Nat
                                       /\ k \in Deliverable(c, n) \/ (k = n1 /\ Fits(m))
  <2>1. ASSUME NEW k \in n + 1 .. n1 - 1 PROVE ~Goes(c, k)
    <3>1. SUFFICES ASSUME Foreign(c, k) PROVE FALSE
      BY DEF Goes
    <3>2. k \in n + 1 .. L
      BY <1>4, <1>7
    <3>3. PICK i \in 1 .. q : p[i] = k
      BY <1>5, <3>1, <3>2
    <3>4. i # 1
      BY <1>3, <1>7, <3>3
    <3>5. 1 \in 0 .. q /\ i \in 0 .. q /\ 1 < i
      BY <1>6, <3>4
    <3>6. n1 < k
      BY <1>3, <1>5, <3>3, <3>5
    <3> QED
      BY <1>7, <3>6
  <2>2. /\ Nth(c, n1) = IF Goes(c, n1) THEN Nth(c, n) + 1 ELSE Nth(c, n)
        /\ \A k \in Deliverable(c, n1) : /\ k \in Nat /\ Nth(c, k) \in Nat
                                         /\ k \in Deliverable(c, n) \/ (k = n1 /\ Goes(c, n1))
    BY <1>7, <2>1, Skips
  <2>3. Nth(c, n) \in Nat
    BY <1>7, Counts
  <2> QED
    BY <1>8, <2>2, <2>3, Zenon
<1>10. /\ Len(screen[c]) <= Nth(c, n)
       /\ \A k \in Deliverable(c, n) :
            Nth(c, k) <= Len(screen[c]) => screen[c][Nth(c, k)] = Parse(Delivery(c, k))
       /\ cpc[c] = "join_sent" => IF down[c] = <<>> THEN room[c] = Null ELSE InTransit(c, n, 1)
       /\ cpc[c] = "listen" => InTransit(c, n, 0)
  BY <1>2, <1>3, Zenon DEF Sent
<1>11. /\ \A k \in 1 .. L : Delivery(c, k)' = Delivery(c, k) /\ Foreign(c, k)' = Foreign(c, k)
       /\ \A k \in 0 .. L : Deliverable(c, k)' = Deliverable(c, k) /\ Nth(c, k)' = Nth(c, k)
  BY <1>1, <1>4, SaidStays
<1>12. /\ Deliverable(c, n1)' = Deliverable(c, n1) /\ Nth(c, n1)' = Nth(c, n1)
       /\ \A k \in Deliverable(c, n1) : Delivery(c, k)' = Delivery(c, k) /\ Nth(c, k)' = Nth(c, k)
  <2>1. ASSUME NEW k \in Deliverable(c, n1) PROVE k \in 1 .. L /\ k \in 0 .. L
    <3>1. k \in 1 .. n1
      BY <1>7, <2>1, Place
    <3> QED
      BY <1>4, <1>7, <3>1
  <2>2. n1 \in 0 .. L
    BY <1>7
  <2> QED
    BY <1>11, <2>1, <2>2
<1>13. Len(screen'[c]) <= Nth(c, n1)'
  BY <1>1, <1>4, <1>9, <1>10, <1>12
<1>14. ASSUME NEW k \in Deliverable(c, n1), Nth(c, k) <= Len(screen[c])
       PROVE  screen[c][Nth(c, k)] = Parse(Delivery(c, k))
  <2>1. ~(k = n1 /\ Fits(m))
    BY <1>4, <1>9, <1>10, <1>14
  <2>2. k \in Deliverable(c, n)
    BY <1>9, <1>14, <2>1
  <2> QED
    BY <1>10, <1>14, <2>2
<1>15. ASSUME NEW i \in 0 .. 1, InTransit(c, n, i), cpc[c] # "ended" PROVE InTransit(c, n1, i)'
  <2>1. /\ Nth(c, n) = Len(screen[c]) + Len(down[c]) - i
        /\ \A k \in Deliverable(c, n) :
             Nth(c, k) > Len(screen[c]) =>
               down[c][i + Nth(c, k) - Len(screen[c])] = Msg("delivery", Delivery(c, k))
    BY <1>15 DEF InTransit
  <2>2. /\ Fits(m) => /\ Len(down'[c]) = Len(down[c]) + 1 /\ down'[c][Len(down[c]) + 1] = m
                      /\ \A j \in 1 .. Len(down[c]) : down'[c][j] = down[c][j]
        /\ ~Fits(m) => down'[c] = down[c]
    <3>1. down[c] \in Seq(Lines) /\ m \in Lines
      BY <1>1, <1>4
    <3>2. LET s == Append(down[c], m)
          IN  /\ Len(s) = Len(down[c]) + 1 /\ s[Len(down[c]) + 1] = m
              /\ \A j \in 1 .. Len(down[c]) : s[j] = down[c][j]
      BY <3>1, Adding
    <3>3. down'[c] = IF Fits(m) THEN Append(down[c], m) ELSE down[c]
      BY <1>1, <1>15
    <3> QED
      BY <3>2, <3>3
  <2>3. PICK N, a, b : N = Nth(c, n) /\ a = Len(screen[c]) /\ b = Len(down[c])
    BY Zenon
  <2>4. N \in Nat /\ a \in Nat /\ b \in Nat /\ i \in Nat /\ N = a + b - i
    <3>1. N \in Nat /\ a \in Nat /\ b \in Nat
      BY <1>4, <1>9, <2>3, Zenon
    <3>2. N = a + b - i
      BY <2>1, <2>3, Zenon
    <3> QED
      BY <3>1, <3>2
  <2>5. /\ N + 1 = a + (b + 1) - i /\ i + (N + 1) - a = b + 1
        /\ \A k \in Nat : k <= N /\ k > a => i + k - a \in 1 .. b
    BY <2>4
  <2>6. Nth(c, n1) = a + Len(down'[c]) - i
    <3>1. CASE Fits(m)
      BY <1>9, <2>2, <2>3, <2>5, <3>1, Zenon
    <3>2. CASE ~Fits(m)
      BY <1>9, <2>2, <2>3, <2>4, <3>2, Zenon
    <3> QED
      BY <3>1, <3>2
  <2>7. ASSUME NEW k \in Deliverable(c, n1), Nth(c, k) > a
        PROVE  down'[c][i + Nth(c, k) - a] = Msg("delivery", Delivery(c, k))
    <3>1. CASE k = n1 /\ Fits(m)
      <4>1. i + Nth(c, k) - a = b + 1
        BY <1>9, <2>3, <2>5, <3>1
      <4> QED
        BY <1>8, <2>2, <2>3, <3>1, <4>1
    <3>2. CASE k \in Deliverable(c, n)
      <4>1. Nth(c, k) <= N /\ Nth(c, k) \in Nat
        BY <1>7, <2>3, <3>2, Place
      <4>2. i + Nth(c, k) - a \in 1 .. b
        BY <2>5, <2>7, <4>1
      <4>3. down[c][i + Nth(c, k) - a] = Msg("delivery", Delivery(c, k))
        BY <2>1, <2>3, <2>7, <3>2
      <4> QED
        BY <2>2, <2>3, <4>2, <4>3
    <3> QED
      BY <1>9, <3>1, <3>2
  <2>8. a = Len(screen'[c])
    BY <1>1, <2>3
  <2> QED
    BY <1>12, <2>6, <2>7, <2>8 DEF InTransit
<1>16. cpc'[c] = "join_sent" => down'[c] # <<>> /\ InTransit(c, n1, 1)'
  <2>1. ASSUME cpc[c] = "join_sent" PROVE down'[c] # <<>> /\ InTransit(c, n1, 1)'
    <3>1. down[c] # <<>>
      BY <1>1, <2>1, DeliverTurns DEF Answered, Clients
    <3>2. InTransit(c, n1, 1)'
      BY <1>10, <1>15, <2>1, <3>1
    <3>3. down'[c] # <<>>
      <4>1. down[c] \in Seq(Lines) /\ m \in Lines
        BY <1>1, <1>4
      <4>2. Append(down[c], m) # <<>>
        BY <4>1, Adding
      <4> QED
        BY <1>1, <2>1, <3>1, <4>2
    <3> QED
      BY <3>2, <3>3
  <2> QED
    BY <1>1, <2>1
<1>17. Sent(c, n1)'
  <2>1. cpc'[c] = "listen" => InTransit(c, n1, 0)'
    BY <1>1, <1>10, <1>15
  <2>2. \A k \in Deliverable(c, n1)' :
          Nth(c, k)' <= Len(screen'[c]) => screen'[c][Nth(c, k)'] = Parse(Delivery(c, k)')
    BY <1>1, <1>12, <1>14
  <2>3. cpc'[c] = "join_sent" =>
          IF down'[c] = <<>> THEN room'[c] = Null ELSE InTransit(c, n1, 1)'
    BY <1>16
  <2> QED
    BY <1>13, <2>1, <2>2, <2>3 DEF Sent
<1>18. PICK r : r = [i \in 0 .. q - 1 |-> p[i + 1]]
  OBVIOUS
<1>19. /\ \A i \in 0 .. q - 1 : i + 1 \in 0 .. q /\ r[i] = p[i + 1]
       /\ r \in [0 .. q - 1 -> 0 .. L] /\ r[0] = n1
  BY <1>3, <1>4, <1>6, <1>18
<1>20. Queued(c, r)'
  <2>1. ASSUME NEW i \in 0 .. q - 1, NEW j \in 0 .. q - 1, i < j PROVE r[i] < r[j]
    <3>1. i + 1 < j + 1
      BY <2>1
    <3> QED
      BY <1>5, <1>19, <3>1
  <2>2. ASSUME NEW i \in 1 .. q - 1 PROVE Foreign(c, r[i])' /\ queue'[c][i] = Delivery(c, r[i])'
    <3>1. i \in 0 .. q - 1 /\ i + 1 \in 1 .. q /\ 0 < i + 1 /\ 0 \in 0 .. q
      BY <1>6
    <3>2. PICK k : k = r[i]
      OBVIOUS
    <3>3. k = p[i + 1] /\ queue'[c][i] = Delivery(c, k) /\ Foreign(c, k)
      BY <1>5, <1>6, <1>19, <3>1, <3>2
    <3>4. k \in 1 .. L
      <4>1. n < k /\ k \in 0 .. L
        BY <1>3, <1>5, <1>4, <1>19, <3>1, <3>3
      <4> QED
        BY <1>7, <4>1
    <3> QED
      BY <1>11, <3>2, <3>3, <3>4
  <2>3. ASSUME NEW k \in r[0] + 1 .. L, Foreign(c, k)' PROVE \E i \in 1 .. q - 1 : r[i] = k
    <3>1. k \in n + 1 .. L /\ k \in 1 .. L /\ k # n1
      BY <1>7, <1>19
    <3>2. PICK i \in 1 .. q : p[i] = k
      BY <1>5, <1>11, <2>3, <3>1
    <3>3. i # 1
      BY <1>3, <3>1, <3>2
    <3>4. i - 1 \in 1 .. q - 1 /\ i - 1 \in 0 .. q - 1 /\ (i - 1) + 1 = i
      BY <1>6, <3>3
    <3>5. r[i - 1] = k
      BY <1>19, <3>2, <3>4
    <3> QED
      BY <3>4, <3>5
  <2>4. Len(queue'[c]) = q - 1 /\ Len(told'[c]) = L
    BY <1>1, <1>3, <1>6
  <2> QED
    BY <2>1, <2>2, <2>3, <2>4 DEF Queued
<1>21. NotYet(c)'
  <2>1. room[c] # Null
    BY <1>1 DEF Chain, NotYet
  <2>2. cpc[c] \notin {"connect", "login", "login_sent", "join"}
    BY <2>1 DEF Chain, NotYet
  <2> QED
    BY <1>1, <2>1, <2>2 DEF NotYet
<1>22. r \in [0 .. Len(queue'[c]) -> 0 .. Len(told'[c])] /\ Sent(c, r[0])'
  BY <1>1, <1>3, <1>6, <1>17, <1>19
<1> QED
  BY <1>20, <1>21, <1>22 DEF Chain

\* The line at the head of a connection is taken: what is behind it moves up.
LEMMA MovesUp ==
  ASSUME TypeOK, NEW c \in Receivers, NEW n \in 0 .. Len(told[c]), Sent(c, n),
         NEW i \in 0 .. 1, InTransit(c, n, i),
         down[c] # <<>>, down'[c] = Tail(down[c]),
         UNCHANGED <<username, room, told, queue>>,
         Len(screen'[c]) = Len(screen[c]) + 1 - i,
         \A k \in 1 .. Len(screen[c]) : screen'[c][k] = screen[c][k],
         \A k \in Deliverable(c, n) :
           i = 0 /\ Nth(c, k) = Len(screen[c]) + 1 =>
             screen'[c][Nth(c, k)] = Parse(Delivery(c, k)),
         cpc'[c] \in {"listen", "ended"}
  PROVE  Sent(c, n)' /\ Len(screen'[c]) <= Nth(c, n)
<1>1. /\ Len(screen[c]) <= Nth(c, n)
      /\ \A k \in Deliverable(c, n) :
           Nth(c, k) <= Len(screen[c]) => screen[c][Nth(c, k)] = Parse(Delivery(c, k))
      /\ Nth(c, n) = Len(screen[c]) + Len(down[c]) - i
      /\ \A k \in Deliverable(c, n) :
           Nth(c, k) > Len(screen[c]) =>
             down[c][i + Nth(c, k) - Len(screen[c])] = Msg("delivery", Delivery(c, k))
  BY DEF Sent, InTransit
<1>2. PICK L : L = Len(told[c])
  OBVIOUS
<1>3. /\ L \in Nat /\ n \in Nat /\ n \in 0 .. L /\ Len(screen[c]) \in Nat
      /\ down[c] \in Seq(Lines) /\ Len(down[c]) \in Nat
  BY <1>2, Sizes
<1>4. /\ Len(down'[c]) = Len(down[c]) - 1 /\ Len(down[c]) >= 1
      /\ \A j \in 1 .. Len(down[c]) - 1 : down'[c][j] = down[c][j + 1]
  <2>1. /\ Len(Tail(down[c])) = Len(down[c]) - 1 /\ Len(down[c]) \in Nat \ {0}
        /\ \A j \in 1 .. Len(down[c]) - 1 : Tail(down[c])[j] = down[c][j + 1]
    BY <1>3, Taking
  <2> QED
    BY <2>1
<1>5. ASSUME NEW k \in Deliverable(c, n)
      PROVE  /\ Nth(c, k) \in Nat \ {0} /\ Nth(c, k) <= Nth(c, n)
             /\ Delivery(c, k)' = Delivery(c, k) /\ Nth(c, k)' = Nth(c, k)
  <2>1. /\ k \in 1 .. n /\ Nth(c, k) \in Nat /\ Nth(c, k) <= Nth(c, n)
        /\ \A j \in 0 .. k - 1 : Nth(c, j) + 1 <= Nth(c, k)
    BY <1>3, <1>5, Place
  <2>2. k \in 1 .. L /\ k \in 0 .. L /\ 0 \in 0 .. k - 1
    BY <1>3, <2>1
  <2>3. Nth(c, 0) + 1 <= Nth(c, k) /\ Nth(c, 0) = 0
    BY <2>1, <2>2, Counts
  <2>4. Delivery(c, k)' = Delivery(c, k) /\ Nth(c, k)' = Nth(c, k)
    BY <1>3, <2>2, SaidStays
  <2> QED
    BY <2>1, <2>3, <2>4
<1>6. Deliverable(c, n)' = Deliverable(c, n) /\ Nth(c, n)' = Nth(c, n)
  BY <1>3, SaidStays
<1>7. Nth(c, n) \in Nat
  BY <1>3, Counts
<1>8. PICK N, a, b, s : /\ N = Nth(c, n) /\ a = Len(screen[c]) /\ b = Len(down[c])
                        /\ s = Len(screen'[c])
  BY Zenon
<1>9. N \in Nat /\ a \in Nat /\ b \in Nat /\ b >= 1 /\ s = a + 1 - i /\ N = a + b - i
  BY <1>1, <1>3, <1>4, <1>7, <1>8
<1>10. /\ N = s + (b - 1) - 0 /\ s <= N /\ s \in Nat
       /\ \A k \in Nat : k <= N /\ k > s =>
            /\ k > a /\ 0 + k - s \in 1 .. b - 1 /\ 0 + k - s + 1 = i + k - a
       /\ \A k \in Nat : k <= s => k <= a \/ (i = 0 /\ k = a + 1)
  BY <1>9
<1>11. ASSUME NEW k \in Deliverable(c, n), Nth(c, k) > s
       PROVE  down'[c][0 + Nth(c, k) - s] = Msg("delivery", Delivery(c, k))
  <2>1. /\ Nth(c, k) > a /\ 0 + Nth(c, k) - s \in 1 .. b - 1
        /\ 0 + Nth(c, k) - s + 1 = i + Nth(c, k) - a
    BY <1>5, <1>8, <1>10, <1>11
  <2>2. down'[c][0 + Nth(c, k) - s] = down[c][i + Nth(c, k) - a]
    BY <1>4, <1>8, <2>1
  <2> QED
    BY <1>1, <1>8, <2>1, <2>2
<1>12. InTransit(c, n, 0)'
  <2>1. N = s + Len(down'[c]) - 0
    BY <1>4, <1>8, <1>10
  <2> QED
    BY <1>5, <1>6, <1>8, <1>11, <2>1 DEF InTransit
<1>13. ASSUME NEW k \in Deliverable(c, n), Nth(c, k) <= s
       PROVE  screen'[c][Nth(c, k)] = Parse(Delivery(c, k))
  <2>1. Nth(c, k) \in Nat \ {0}
    BY <1>5
  <2>2. CASE Nth(c, k) <= a
    <3>1. Nth(c, k) \in 1 .. Len(screen[c])
      BY <1>3, <1>8, <2>1, <2>2
    <3> QED
      BY <1>1, <1>8, <2>2, <3>1
  <2>3. CASE i = 0 /\ Nth(c, k) = a + 1
    BY <1>8, <2>3
  <2> QED
    BY <1>10, <1>13, <2>1, <2>2, <2>3
<1>14. Sent(c, n)'
  <2>1. Len(screen'[c]) <= Nth(c, n)'
    BY <1>6, <1>8, <1>10
  <2>2. \A k \in Deliverable(c, n)' :
          Nth(c, k)' <= Len(screen'[c]) => screen'[c][Nth(c, k)'] = Parse(Delivery(c, k)')
    BY <1>5, <1>6, <1>8, <1>13
  <2> QED
    BY <1>12, <2>1, <2>2 DEF Sent
<1> QED
  BY <1>8, <1>10, <1>14

\* What the chain says of a queue that is not touched, and of a screen that may grow.
LEMMA ReadChain ==
  ASSUME TypeOK, NEW c \in Receivers, Chain(c),
         UNCHANGED <<username, room, told, queue>>, wpc'[c] = wpc[c],
         cpc'[c] \in {"listen", "ended"}, screen'[c] \in Seq(Sayings),
         \A n \in 0 .. Len(told[c]) :
           Sent(c, n) => Sent(c, n)' /\ Len(screen'[c]) <= Nth(c, n)
  PROVE  Chain(c)'
<1>1. PICK p \in [0 .. Len(queue[c]) -> 0 .. Len(told[c])] : Queued(c, p) /\ Sent(c, p[0])
  BY DEF Chain
<1>2. PICK n : n = p[0]
  OBVIOUS
<1>3. n \in 0 .. Len(told[c])
  <2>1. Len(queue[c]) \in Nat
    BY Sizes
  <2>2. 0 \in 0 .. Len(queue[c])
    BY <2>1
  <2> QED
    BY <1>1, <1>2, <2>2
<1>4. Sent(c, n)' /\ Len(screen'[c]) <= Nth(c, n)
  BY <1>1, <1>2, <1>3
<1>5. Queued(c, p)'
  BY <1>1 DEF Queued, Delivery, Foreign
<1>6. room[c] = Null => told[c] = <<>> /\ queue[c] = <<>>
  BY DEF Chain, NotYet
<1>7. ASSUME room[c] = Null PROVE screen'[c] = <<>>
  <2>1. n = 0
    BY <1>3, <1>6, <1>7
  <2>2. Len(screen'[c]) <= 0
    BY <1>4, <2>1, Counts
  <2>3. Len(screen'[c]) \in Nat
    OBVIOUS
  <2>4. Len(screen'[c]) = 0
    BY <2>2, <2>3
  <2> QED
    BY <2>4
<1>8. NotYet(c)'
  BY <1>6, <1>7 DEF Chain, NotYet
<1> QED
  BY <1>1, <1>2, <1>4, <1>5, <1>8 DEF Chain

LEMMA ReceiveJoinChain ==
  ASSUME TypeOK, NEW c \in Receivers, InTurn(c), Chain(c), ReceiveJoin(c)
  PROVE  Chain(c)'
<1>1. /\ Receive(c, "join_sent") /\ cpc'[c] \in {"listen", "ended"}
      /\ UNCHANGED <<screen, wpc, username, room, told, queue>> /\ c \in Clients
  BY DEF ReceiveJoin, ReceiveOk, Goto, TypeOK, serverVars, Clients
<1>2. cpc[c] = "join_sent" /\ down[c] # <<>> /\ down'[c] = Tail(down[c])
  BY <1>1, ReceiveStep
<1>3. screen'[c] = screen[c] /\ screen[c] \in Seq(Sayings) /\ Len(screen[c]) \in Nat
  BY <1>1, Sizes
<1>4. Len(screen'[c]) = Len(screen[c]) + 1 - 1 /\ 1 \in 0 .. 1
  BY <1>3
<1>5. ASSUME NEW n \in 0 .. Len(told[c]), Sent(c, n)
      PROVE  Sent(c, n)' /\ Len(screen'[c]) <= Nth(c, n)
  <2>1. InTransit(c, n, 1)
    BY <1>2, <1>5 DEF Sent
  <2>2. /\ \A k \in 1 .. Len(screen[c]) : screen'[c][k] = screen[c][k]
        /\ \A k \in Deliverable(c, n) :
             1 = 0 /\ Nth(c, k) = Len(screen[c]) + 1 =>
               screen'[c][Nth(c, k)] = Parse(Delivery(c, k))
    BY <1>3
  <2> QED
    BY <1>1, <1>2, <1>4, <1>5, <2>1, <2>2, MovesUp
<1> QED
  BY <1>1, <1>3, <1>5, ReadChain

LEMMA ListenChain ==
  ASSUME TypeOK, NEW c \in Receivers, InTurn(c), Chain(c), Listen(c)
  PROVE  Chain(c)'
<1> DEFINE m == Head(down[c])
<1>1. /\ Receive(c, "listen") /\ UNCHANGED <<cpc, wpc, username, room, told, queue>>
      /\ screen' = IF m.tag = <<"delivery">>
                   THEN [screen EXCEPT ![c] = Append(@, Parse(m.data))] ELSE screen
      /\ c \in Clients
  BY DEF Listen, serverVars, Clients
<1>2. /\ cpc[c] = "listen" /\ down[c] # <<>> /\ down[c] \in Seq(Lines)
      /\ down'[c] = Tail(down[c])
  BY <1>1, ReceiveStep
<1>3. m \in Lines /\ m = down[c][1] /\ Len(down[c]) \in Nat \ {0}
  BY <1>2, Taking
<1>4. m.tag = <<"delivery">> /\ m.data \in Text
  <2>1. Delivers(c, 1)
    BY <1>1, <1>2, Turns
  <2>2. m.tag = <<"delivery">>
    BY <1>3, <2>1 DEF Delivers
  <2>3. m.data \in Text
    BY <1>3 DEF Lines
  <2> QED
    BY <2>2, <2>3
<1> HIDE DEF m
<1>5. Parse(m.data) \in Sayings
  BY <1>4, ParseType
<1>6. screen[c] \in Seq(Sayings) /\ screen'[c] = Append(screen[c], Parse(m.data))
  BY <1>1, <1>4 DEF TypeOK
<1>7. /\ screen'[c] \in Seq(Sayings) /\ Len(screen'[c]) = Len(screen[c]) + 1 /\ Len(screen[c]) \in Nat
      /\ \A k \in 1 .. Len(screen[c]) : screen'[c][k] = screen[c][k]
      /\ screen'[c][Len(screen[c]) + 1] = Parse(m.data)
  <2> DEFINE p == Parse(m.data)
  <2>1. screen[c] \in Seq(Sayings) /\ p \in Sayings /\ screen'[c] = Append(screen[c], p)
    BY <1>5, <1>6
  <2> HIDE DEF p
  <2>2. /\ screen'[c] \in Seq(Sayings) /\ Len(screen'[c]) = Len(screen[c]) + 1 /\ Len(screen[c]) \in Nat
        /\ \A k \in 1 .. Len(screen[c]) : screen'[c][k] = screen[c][k]
        /\ screen'[c][Len(screen[c]) + 1] = p
    BY <2>1, Adding
  <2> QED
    BY <2>2 DEF p
<1>8. ASSUME NEW n \in 0 .. Len(told[c]), Sent(c, n)
      PROVE  Sent(c, n)' /\ Len(screen'[c]) <= Nth(c, n)
  <2>1. InTransit(c, n, 0) /\ 0 \in 0 .. 1
    BY <1>2, <1>8 DEF Sent
  <2>2. ASSUME NEW k \in Deliverable(c, n), Nth(c, k) = Len(screen[c]) + 1
        PROVE  screen'[c][Nth(c, k)] = Parse(Delivery(c, k))
    <3>1. \A j \in Nat : j + 1 > j /\ 0 + (j + 1) - j = 1
      OBVIOUS
    <3>2. Nth(c, k) > Len(screen[c]) /\ 0 + Nth(c, k) - Len(screen[c]) = 1
      BY <1>7, <2>2, <3>1
    <3>3. down[c][1] = Msg("delivery", Delivery(c, k))
      BY <2>1, <3>2 DEF InTransit
    <3>4. m.data = Delivery(c, k)
      BY <1>3, <3>3 DEF Msg
    <3> QED
      BY <1>7, <2>2, <3>4
  <2>3. Len(screen'[c]) = Len(screen[c]) + 1 - 0
    BY <1>7
  <2> QED
    BY <1>1, <1>2, <1>7, <1>8, <2>1, <2>2, <2>3, MovesUp
<1> QED
  BY <1>1, <1>2, <1>7, <1>8, ReadChain

-----------------------------------------------------------------------------
(***************************************************************************)
(* The deliveries have their colons, and the steps of the programs.        *)
(***************************************************************************)

\* A queue that is taken from, or added to.
LEMMA QueueTakes ==
  ASSUME TypeOK, NEW c \in Clients, QueuesStop, WorkerDeliver(c)
  PROVE  QueuesStop' /\ Stops(Head(queue[c]))
<1>1. queue[c] # <<>> /\ queue[c] \in Seq(Text) /\ queue' = [queue EXCEPT ![c] = Tail(queue[c])]
  BY DeliverStep DEF TypeOK
<1>2. /\ Head(queue[c]) = queue[c][1] /\ Len(queue[c]) \in Nat \ {0}
      /\ Len(Tail(queue[c])) = Len(queue[c]) - 1
      /\ \A i \in 1 .. Len(queue[c]) - 1 : Tail(queue[c])[i] = queue[c][i + 1]
  BY <1>1, Taking
<1>3. \A i \in 1 .. Len(queue[c]) : Stops(queue[c][i])
  BY DEF QueuesStop, ToSet
<1>4. \A i \in 1 .. Len(Tail(queue[c])) : Stops(Tail(queue[c])[i])
  BY <1>2, <1>3
<1>5. ASSUME NEW d \in Clients, NEW data \in ToSet(queue'[d]) PROVE Stops(data)
  <2>1. CASE d = c
    <3>1. queue'[d] = Tail(queue[c])
      BY <1>1, <2>1 DEF TypeOK
    <3> QED
      BY <1>4, <1>5, <3>1 DEF ToSet
  <2>2. CASE d # c
    <3>1. queue'[d] = queue[d]
      BY <1>1, <2>2 DEF TypeOK
    <3> QED
      BY <1>5, <3>1 DEF QueuesStop
  <2> QED
    BY <2>1, <2>2
<1> QED
  BY <1>2, <1>3, <1>5 DEF QueuesStop

LEMMA QueueAdds ==
  ASSUME TypeOK, NEW c \in Clients, QueuesStop, NEW text \in Text, room[c] # Null, Broadcast(c, text)
  PROVE  QueuesStop'
<1> DEFINE pay == Payload(room[c], username[c], text)
<1>1. /\ pay \in Text /\ Stops(pay)
      /\ \A d \in Clients : queue'[d] = queue[d] \/ queue'[d] = Append(queue[d], pay)
  BY BroadcastStep
<1> HIDE DEF pay
<1>2. ASSUME NEW d \in Clients, NEW data \in ToSet(queue'[d]) PROVE Stops(data)
  <2>1. queue[d] \in Seq(Text)
    BY DEF TypeOK
  <2>2. \A i \in 1 .. Len(queue[d]) : Stops(queue[d][i])
    BY DEF QueuesStop, ToSet
  <2>3. CASE queue'[d] = queue[d]
    BY <1>2, <2>3 DEF QueuesStop
  <2>4. CASE queue'[d] = Append(queue[d], pay)
    <3>1. /\ Len(queue'[d]) = Len(queue[d]) + 1 /\ Len(queue[d]) \in Nat
          /\ queue'[d][Len(queue[d]) + 1] = pay
          /\ \A i \in 1 .. Len(queue[d]) : queue'[d][i] = queue[d][i]
      BY <1>1, <2>1, <2>4, Adding
    <3>2. PICK i \in 1 .. Len(queue'[d]) : data = queue'[d][i]
      BY <1>2 DEF ToSet
    <3>3. i \in 1 .. Len(queue[d]) \/ i = Len(queue[d]) + 1
      BY <3>1
    <3> QED
      BY <1>1, <2>2, <3>1, <3>2, <3>3
  <2> QED
    BY <1>1, <2>3, <2>4
<1> QED
  BY <1>2 DEF QueuesStop

\* The deliveries on their way to d have their colons.
Stopping(d) == \A m \in ToSet(down[d]) : m.tag = <<"delivery">> => Stops(m.data)

\* What holds of a receiver.
Prints(d) == Chain(d) /\ Stopping(d)

\* The deliveries stop while lines are taken, and while none is added that does not.
LEMMA DownStops ==
  ASSUME TypeOK, NEW d \in Clients, Stopping(d), NEW x \in Lines,
         x.tag = <<"delivery">> => Stops(x.data),
         \/ down'[d] = down[d]
         \/ down[d] # <<>> /\ down'[d] = Tail(down[d])
         \/ down'[d] = Append(down[d], x)
  PROVE  Stopping(d)'
<1> DEFINE ok(m) == m.tag = <<"delivery">> => Stops(m.data)
<1>1. down[d] \in Seq(Lines) /\ Len(down[d]) \in Nat
  BY DEF TypeOK
<1>2. ok(x) /\ \A i \in 1 .. Len(down[d]) : ok(down[d][i])
  BY DEF Stopping, ToSet
<1>3. down'[d] \in Seq(Lines)
  <2>1. Append(down[d], x) \in Seq(Lines)
    BY <1>1, Adding
  <2>2. down[d] # <<>> => Tail(down[d]) \in Seq(Lines)
    BY <1>1, Taking
  <2> QED
    BY <1>1, <2>1, <2>2
<1>4. SUFFICES \A i \in 1 .. Len(down'[d]) : ok(down'[d][i])
  BY <1>3 DEF Stopping, ToSet
<1> HIDE DEF ok
<1>5. CASE down'[d] = down[d]
  BY <1>2, <1>5
<1>6. CASE down[d] # <<>> /\ down'[d] = Tail(down[d])
  <2>1. /\ Len(down'[d]) = Len(down[d]) - 1
        /\ \A i \in 1 .. Len(down[d]) - 1 : down'[d][i] = down[d][i + 1]
    BY <1>1, <1>6, Taking
  <2> QED
    BY <1>1, <1>2, <2>1
<1>7. CASE down'[d] = Append(down[d], x)
  <2>1. /\ Len(down'[d]) = Len(down[d]) + 1 /\ down'[d][Len(down[d]) + 1] = x
        /\ \A i \in 1 .. Len(down[d]) : down'[d][i] = down[d][i]
    BY <1>1, <1>7, Adding
  <2> QED
    BY <1>1, <1>2, <2>1
<1> QED
  BY <1>5, <1>6, <1>7

\* Those that a step is not about.
LEMMA Elsewhere ==
  ASSUME TypeOK, NEW c \in Clients, Frame(c), NEW d \in Receivers \ {c}, Prints(d),
         room'[d] = room[d], username'[d] = username[d], told'[d] = told[d],
         queue'[d] = queue[d], screen'[d] = screen[d]
  PROVE  Prints(d)'
<1>1. cpc'[d] = cpc[d] /\ wpc'[d] = wpc[d] /\ down'[d] = down[d]
  BY DEF Frame, Clients
<1>2. wpc'[d] \in {"none", "backlog", "login", "join"} => room[d] = Null
  BY <1>1 DEF Prints, Chain, NotYet
<1>3. Chain(d)'
  BY <1>1, <1>2, SameChain DEF Prints
<1> QED
  BY <1>1, <1>3 DEF Prints, Stopping

\* What is to be shown of a step of c or of its worker, when c is a receiver.
OwnStep(c) ==
  /\ queue' = queue
  /\ \A d \in Receivers \ {c} : /\ room'[d] = room[d] /\ username'[d] = username[d]
                                /\ told'[d] = told[d] /\ screen'[d] = screen[d]
  /\ c \in Receivers => Prints(c)'

\* The end of a client, and a connection that is accepted.
LEMMA EndPrints ==
  ASSUME TypeOK, NEW c \in Clients, c \in Receivers => Prints(c),
         UNCHANGED <<screen, down, username, room, queue, told>>,
         cpc'[c] \in {cpc[c], "ended"},
         wpc'[c] = wpc[c] \/ (wpc[c] = "backlog" /\ wpc'[c] = "login")
  PROVE  OwnStep(c)
<1>1. ASSUME c \in Receivers PROVE Prints(c)'
  <2>1. wpc'[c] \in {"none", "backlog", "login", "join"} => room[c] = Null
    BY <1>1 DEF Prints, Chain, NotYet
  <2>2. Chain(c)'
    BY <1>1, <2>1, SameChain DEF Prints
  <2> QED
    BY <1>1, <2>2 DEF Prints, Stopping
<1> QED
  BY <1>1 DEF OwnStep

\* Before a receiver has joined.
LEMMA EarlyPrints ==
  ASSUME TypeOK, NEW c \in Clients, c \in Receivers => Prints(c), NEW x \in Lines,
         x.tag = <<"delivery">> => Stops(x.data),
         UNCHANGED <<screen, queue, told>>,
         \A d \in Clients \ {c} : room'[d] = room[d] /\ username'[d] = username[d],
         \/ down'[c] = down[c]
         \/ down[c] # <<>> /\ down'[c] = Tail(down[c])
         \/ down'[c] = Append(down[c], x),
         c \in Receivers =>
           /\ room[c] = Null
           /\ wpc'[c] \in {"none", "backlog", "login", "join"} => room'[c] = Null
           /\ cpc'[c] \in {"connect", "login", "login_sent", "join"} => room'[c] = Null
           /\ cpc'[c] = "join_sent" =>
                (down'[c] = <<>> /\ room'[c] = Null) \/ Len(down'[c]) = 1
           /\ cpc'[c] # "listen"
  PROVE  OwnStep(c)
<1>1. ASSUME c \in Receivers PROVE Prints(c)'
  <2>1. told'[c] = <<>> /\ queue'[c] = <<>> /\ screen'[c] = <<>>
    BY <1>1 DEF Prints, Chain, NotYet
  <2>2. Chain(c)'
    BY <1>1, <2>1, NothingSaid
  <2>3. Stopping(c)'
    BY <1>1, DownStops DEF Prints
  <2> QED
    BY <2>2, <2>3 DEF Prints
<1>2. \A d \in Receivers \ {c} : d \in Clients \ {c}
  BY DEF Clients
<1> QED
  BY <1>1, <1>2 DEF OwnStep

LEMMA AnswerLines ==
  ASSUME NEW t \in {"Login successful", "Join successful"}
  PROVE  Msg("ok", <<t>>) \in Lines /\ Msg("ok", <<t>>).tag # <<"delivery">>
<1>1. <<"ok", t>> \in AllAnswers
  BY DEF AllAnswers
<1>2. <<"ok", t>>[1] = "ok" /\ <<"ok", t>>[2] = t
  OBVIOUS
<1>3. "ok" \in Tags /\ <<t>> \in Text
  BY <1>1, <1>2, AnswerIs
<1>4. <<"ok">> \in {<<u>> : u \in Tags}
  BY <1>3, Zenon
<1>5. "ok" # "delivery" /\ <<"ok">> # <<"delivery">>
  OBVIOUS
<1> QED
  BY <1>3, <1>4, <1>5 DEF Msg, Lines

LEMMA ConnectPrints ==
  ASSUME TypeOK, NEW c \in Clients, c \in Receivers => Prints(c), Connect(c)
  PROVE  OwnStep(c)
<1> DEFINE x == Msg("ok", <<"Login successful">>)
<1>1. /\ UNCHANGED <<screen, down, username, room, queue, told>> /\ cpc[c] = "connect"
      /\ cpc'[c] \in {"login", "ended"}
  BY DEF Connect, Goto, TypeOK
<1>2. x \in Lines /\ x.tag # <<"delivery">>
  BY AnswerLines
<1>3. c \in Receivers => room[c] = Null
  BY <1>1 DEF Prints, Chain, NotYet
<1> HIDE DEF x
<1> QED
  BY <1>1, <1>2, <1>3, EarlyPrints

\* The login and the join of a receiver are sent; what a sender sends is no matter here.
LEMMA SendPrints ==
  ASSUME TypeOK, NEW c \in Clients, InTurn(c), c \in Receivers => Prints(c),
         SendLogin(c) \/ SendJoin(c)
  PROVE  OwnStep(c)
<1> DEFINE x == Msg("ok", <<"Login successful">>)
<1>1. /\ UNCHANGED <<screen, down, username, room, queue, told>>
      /\ \/ cpc[c] = "login" /\ cpc'[c] \in {"login_sent", "ended"}
         \/ cpc[c] = "join" /\ cpc'[c] \in {"join_sent", "ended"}
  BY DEF SendLogin, SendJoin, Send, Goto, TypeOK, serverVars
<1>2. x \in Lines /\ x.tag # <<"delivery">>
  BY AnswerLines
<1>3. c \in Receivers => room[c] = Null
  BY <1>1 DEF Prints, Chain, NotYet
<1>4. cpc'[c] = "join_sent" => down'[c] = <<>>
  BY <1>1, Turns DEF Silent
<1> HIDE DEF x
<1> QED
  BY <1>1, <1>2, <1>3, <1>4, EarlyPrints

LEMMA ReceiveLoginPrints ==
  ASSUME TypeOK, NEW c \in Clients, c \in Receivers => Prints(c), ReceiveLogin(c)
  PROVE  OwnStep(c)
<1> DEFINE x == Msg("ok", <<"Login successful">>)
<1>1. /\ Receive(c, "login_sent") /\ UNCHANGED <<screen, username, room, queue, told>>
      /\ cpc'[c] \in {IF c \in Senders THEN "prompt" ELSE "join", "ended"}
  BY DEF ReceiveLogin, ReceiveOk, Goto, TypeOK, serverVars
<1>2. cpc[c] = "login_sent" /\ down[c] # <<>> /\ down'[c] = Tail(down[c])
  BY <1>1, ReceiveStep
<1>3. x \in Lines /\ x.tag # <<"delivery">>
  BY AnswerLines
<1>4. c \in Receivers => room[c] = Null
  BY <1>2 DEF Prints, Chain, NotYet
<1>5. cpc'[c] # "join_sent" /\ cpc'[c] # "listen"
  BY <1>1
<1> HIDE DEF x
<1> QED
  BY <1>1, <1>2, <1>3, <1>4, <1>5, EarlyPrints

LEMMA ReadPrints ==
  ASSUME TypeOK, NEW c \in Clients, InTurn(c), c \in Receivers => Prints(c),
         ReceiveJoin(c) \/ Listen(c)
  PROVE  OwnStep(c)
<1>1. /\ UNCHANGED <<username, room, queue, told>>
      /\ \A d \in Clients \ {c} : screen'[d] = screen[d]
      /\ \E from : Receive(c, from)
  BY DEF ReceiveJoin, ReceiveOk, Listen, TypeOK, serverVars
<1>2. down[c] # <<>> /\ down'[c] = Tail(down[c])
  BY <1>1, ReceiveStep
<1>3. PICK x \in Lines : x.tag # <<"delivery">>
  BY AnswerLines
<1>4. ASSUME c \in Receivers PROVE Prints(c)'
  <2>1. Chain(c)'
    BY <1>4, ReceiveJoinChain, ListenChain DEF Prints
  <2>2. Stopping(c)'
    BY <1>2, <1>3, <1>4, DownStops DEF Prints
  <2> QED
    BY <2>1, <2>2 DEF Prints
<1>5. \A d \in Receivers \ {c} : d \in Clients \ {c}
  BY DEF Clients
<1> QED
  BY <1>1, <1>4, <1>5 DEF OwnStep

\* The steps of a client.
LEMMA ClientPrints ==
  ASSUME TypeOK, NEW c \in Clients, InTurn(c), c \in Receivers => Prints(c),
         Client(c) \/ Killed(c) \/ (c \in Senders /\ Sender(c))
  PROVE  OwnStep(c)
<1>1. CASE Connect(c)
  BY <1>1, ConnectPrints
<1>2. CASE SendLogin(c) \/ SendJoin(c)
  BY <1>2, SendPrints
<1>3. CASE ReceiveLogin(c)
  BY <1>3, ReceiveLoginPrints
<1>4. CASE ReceiveJoin(c) \/ Listen(c)
  BY <1>4, ReadPrints
<1>5. CASE ReceiveFails(c) \/ Killed(c)
  <2>1. UNCHANGED <<screen, down, username, room, queue, told, wpc>> /\ cpc'[c] = "ended"
    BY <1>5 DEF ReceiveFails, Killed, serverVars, TypeOK
  <2> QED
    BY <2>1, EndPrints
<1>6. CASE ReceiveAnswer(c)
  <2>1. cpc[c] = "await" /\ UNCHANGED <<screen, username, room, queue, told>>
    BY <1>6 DEF ReceiveAnswer, Receive, serverVars
  <2>2. c \notin Receivers
    BY <2>1, Turns, ProtocolAssumption
  <2> QED
    BY <2>1, <2>2 DEF OwnStep
<1>7. CASE c \in Senders /\ Sender(c)
  <2>1. UNCHANGED <<screen, username, room, queue, told>>
    BY <1>7 DEF Sender, Type, TypeIgnored, TypeQuit, TypeCommand, Send, EndOfInput, serverVars
  <2>2. c \notin Receivers
    BY <1>7, ProtocolAssumption
  <2> QED
    BY <2>1, <2>2 DEF OwnStep
<1> QED
  BY <1>1, <1>2, <1>3, <1>4, <1>5, <1>6, <1>7 DEF Client

LEMMA WorkerLoginPrints ==
  ASSUME TypeOK, NEW c \in Clients, InTurn(c), Reads(c), c \in Receivers => Prints(c),
         WorkerLogin(c)
  PROVE  OwnStep(c)
<1> DEFINE x == Msg("ok", <<"Login successful">>)
<1>1. /\ wpc[c] = "login" /\ up[c] # <<>> /\ UNCHANGED <<cpc, screen, room, queue, told>>
      /\ down'[c] \in {down[c], Append(down[c], x)}
  BY WorkerLoginKeeps
<1>2. x \in Lines /\ x.tag # <<"delivery">>
  BY AnswerLines
<1>3. c \in Receivers => room[c] = Null
  BY <1>1 DEF Prints, Chain, NotYet
<1>4. cpc'[c] \in {"ended", "login_sent"}
  BY <1>1, ReadTurns
<1>5. \A d \in Clients \ {c} : room'[d] = room[d] /\ username'[d] = username[d]
  <2>1. username' = [username EXCEPT ![c] = Head(up[c]).data]
    BY DEF WorkerLogin
  <2> QED
    BY <1>1, <2>1 DEF TypeOK
<1> HIDE DEF x
<1> QED
  BY <1>1, <1>2, <1>3, <1>4, <1>5, EarlyPrints

LEMMA WorkerJoinPrints ==
  ASSUME TypeOK, NEW c \in Clients, InTurn(c), Reads(c), c \in Receivers => Prints(c),
         WorkerJoin(c)
  PROVE  OwnStep(c)
<1> DEFINE x == Msg("ok", <<"Join successful">>)
<1>1. /\ Keeps(c) /\ wpc[c] = "join" /\ wpc'[c] = "deliver"
      /\ \A d \in Clients \ {c} : room'[d] = room[d]
      /\ down'[c] \in {down[c], Append(down[c], x)}
      /\ UNCHANGED <<cpc, screen, queue, told>>
  BY WorkerJoinKeeps
<1>2. x \in Lines /\ x.tag # <<"delivery">>
  BY AnswerLines
<1>3. c \in Receivers => room[c] = Null
  BY <1>1 DEF Prints, Chain, NotYet
<1>4. up[c] # <<>> /\ UNCHANGED username
  BY DEF WorkerJoin, Read
<1>5. cpc[c] # "ended" => cpc[c] = "join_sent" /\ Asking(c)
  BY <1>1, <1>4, ReadTurns
<1> HIDE DEF x
<1>6. cpc'[c] = "join_sent" => Len(down'[c]) = 1
  <2>1. ASSUME cpc'[c] = "join_sent" PROVE Len(down'[c]) = 1
    <3>1. down[c] = <<>>
      BY <1>1, <1>5, <2>1 DEF Asking
    <3>2. down'[c] # <<>>
      BY <1>1, <2>1 DEF Keeps, InTurn, At, Answered
    <3>3. Append(<<>>, x) = <<x>> /\ Len(<<x>>) = 1
      BY <1>2
    <3> QED
      BY <1>1, <3>1, <3>2, <3>3
  <2> QED
    BY <2>1
<1>7. cpc'[c] \in {"ended", "join_sent"}
  BY <1>1, <1>5
<1> QED
  BY <1>1, <1>2, <1>3, <1>4, <1>6, <1>7, EarlyPrints

LEMMA WorkerEofPrints ==
  ASSUME TypeOK, NEW c \in Clients, Reads(c), c \in Receivers => Prints(c), WorkerEof(c)
  PROVE  OwnStep(c)
<1> DEFINE x == Msg("ok", <<"Login successful">>)
<1>1. /\ wpc[c] \in {"login", "join", "command"} /\ cpc[c] = "ended"
      /\ UNCHANGED <<cpc, screen, down, username, queue, told>> /\ wpc'[c] = "done"
      /\ \A d \in Clients \ {c} : room'[d] = room[d]
  BY DEF WorkerEof, Leaves, clientVars, TypeOK
<1>2. x \in Lines /\ x.tag # <<"delivery">>
  BY AnswerLines
<1>3. c \in Receivers => room[c] = Null
  BY <1>1, ProtocolAssumption DEF Prints, Chain, NotYet, Reads
<1> HIDE DEF x
<1> QED
  BY <1>1, <1>2, <1>3, EarlyPrints

\* The step of c, and what it leaves alone.
LEMMA OwnStepPrints ==
  ASSUME TypeOK, NEW c \in Clients, Keeps(c), OwnStep(c), QueuesStop,
         \A d \in Receivers : Prints(d)
  PROVE  QueuesStop' /\ \A d \in Receivers : Prints(d)'
<1>1. Frame(c) /\ queue' = queue
  BY DEF Keeps, OwnStep
<1>2. QueuesStop'
  BY <1>1 DEF QueuesStop
<1>3. ASSUME NEW d \in Receivers PROVE Prints(d)'
  <2>1. CASE d = c
    BY <1>3, <2>1 DEF OwnStep
  <2>2. CASE d # c
    <3>1. /\ room'[d] = room[d] /\ username'[d] = username[d] /\ told'[d] = told[d]
          /\ queue'[d] = queue[d] /\ screen'[d] = screen[d]
      BY <1>1, <2>2 DEF OwnStep
    <3> QED
      BY <1>1, <2>2, <3>1, Elsewhere
  <2> QED
    BY <2>1, <2>2
<1> QED
  BY <1>2, <1>3

\* A sender's message is broadcast, or it moves.
LEMMA CommandPrints ==
  ASSUME TypeOK, NEW c \in Clients, InTurn(c), Reads(c), QueuesStop,
         \A d \in Receivers : Prints(d), WorkerCommand(c)
  PROVE  QueuesStop' /\ \A d \in Receivers : Prints(d)'
<1>1. /\ c \in Senders /\ Frame(c) /\ UNCHANGED <<cpc, screen, username>>
      /\ \A d \in Clients \ {c} : room'[d] = room[d]
  <2>1. Frame(c)
    BY WorkerCommandKeeps DEF Keeps
  <2>2. c \in Senders /\ UNCHANGED <<cpc, screen, username>>
    BY CommandStep DEF clientVars
  <2>3. PICK r \in Text \cup {Null} : room' = [room EXCEPT ![c] = r]
    BY CommandStep
  <2>4. \A d \in Clients \ {c} : room'[d] = room[d]
    BY <2>3 DEF TypeOK
  <2> QED
    BY <2>1, <2>2, <2>4
<1>2. CASE UNCHANGED <<queue, told>>
  <2>1. QueuesStop'
    BY <1>2 DEF QueuesStop
  <2>2. ASSUME NEW d \in Receivers PROVE Prints(d)'
    <3>1. d \in Receivers \ {c} /\ d \in Clients \ {c} /\ Prints(d)
      BY <1>1, ProtocolAssumption DEF Clients
    <3> QED
      BY <1>1, <1>2, <3>1, Elsewhere
  <2> QED
    BY <2>1, <2>2
<1>3. ASSUME NEW text \in Text, room[c] # Null, Broadcast(c, text)
      PROVE  QueuesStop' /\ \A d \in Receivers : Prints(d)'
  <2>1. QueuesStop'
    BY <1>3, QueueAdds
  <2>2. PICK say, pay : say = Says(username[c], text) /\ pay = Payload(room[c], username[c], text)
    BY Zenon
  <2>3. say.from = username[c] /\ say.text = text
    BY <2>2 DEF Says
  <2>4. /\ pay \in Text /\ say \in Sayings
        /\ \A d \in Receivers :
             told'[d] = IF room[d] = room[c] THEN Append(told[d], say) ELSE told[d]
        /\ \A d \in Clients :
             queue'[d] = IF Hears(d, c) THEN Append(queue[d], pay) ELSE queue[d]
    BY <1>3, <2>2, BroadcastStep
  <2>5. ASSUME NEW d \in Receivers PROVE Prints(d)'
    <3>1. d \in Receivers \ {c} /\ d \in Clients \ {c} /\ Prints(d)
      BY <1>1, ProtocolAssumption DEF Clients
    <3>2. /\ cpc'[d] = cpc[d] /\ wpc'[d] = wpc[d] /\ down'[d] = down[d]
          /\ room'[d] = room[d] /\ screen'[d] = screen[d] /\ username'[d] = username[d]
      BY <1>1, <3>1 DEF Frame
    <3>3. CASE room[d] # room[c]
      <4>1. told'[d] = told[d] /\ queue'[d] = queue[d]
        BY <2>4, <3>1, <3>3 DEF Hears
      <4> QED
        BY <1>1, <3>1, <3>2, <4>1, Elsewhere
    <3>4. CASE room[d] = room[c]
      <4>1. told'[d] = Append(told[d], say)
        BY <2>4, <3>4
      <4>2. pay = Payload(room[d], say.from, say.text)
        BY <2>2, <2>3, <3>4
      <4>3. queue'[d] = IF say.from # username[d]
                        THEN Append(queue[d], Payload(room[d], say.from, say.text)) ELSE queue[d]
        <5>1. Hears(d, c) <=> say.from # username[d]
          BY <2>3, <3>4 DEF Hears
        <5> QED
          BY <2>4, <3>1, <4>2, <5>1
      <4>4. Payload(room[d], say.from, say.text) \in Text /\ room[d] # Null
        BY <1>3, <2>4, <3>4, <4>2
      <4>5. Chain(d)'
        BY <2>4, <3>1, <3>2, <4>1, <4>3, <4>4, MoreSaid DEF Prints
      <4> QED
        BY <3>1, <3>2, <4>5 DEF Prints, Stopping
    <3> QED
      BY <3>3, <3>4
  <2> QED
    BY <2>1, <2>5
<1> QED
  BY <1>2, <1>3, CommandStep

LEMMA DeliverPrints ==
  ASSUME TypeOK, NEW c \in Clients, InTurn(c), Reads(c), QueuesStop,
         \A d \in Receivers : Prints(d), WorkerDeliver(c)
  PROVE  QueuesStop' /\ \A d \in Receivers : Prints(d)'
<1> DEFINE x == Msg("delivery", Head(queue[c]))
<1>1. QueuesStop' /\ Stops(Head(queue[c]))
  BY QueueTakes
<1>2. /\ UNCHANGED <<screen, username, room, told>> /\ Frame(c)
      /\ \A d \in Clients \ {c} : queue'[d] = queue[d]
      /\ x \in Lines /\ down'[c] \in {down[c], Append(down[c], x)}
  <2>1. Frame(c)
    BY WorkerDeliverKeeps DEF Keeps
  <2>2. /\ UNCHANGED <<screen, username, room, told>> /\ queue' = [queue EXCEPT ![c] = Tail(queue[c])]
        /\ x \in Lines /\ down'[c] \in {down[c], Append(down[c], x)}
    BY DeliverStep DEF clientVars
  <2>3. \A d \in Clients \ {c} : queue'[d] = queue[d]
    BY <2>2 DEF TypeOK
  <2> QED
    BY <2>1, <2>2, <2>3
<1>3. x.tag = <<"delivery">> => Stops(x.data)
  BY <1>1 DEF Msg
<1> HIDE DEF x
<1>4. ASSUME NEW d \in Receivers PROVE Prints(d)'
  <2>1. d \in Clients /\ Prints(d)
    BY DEF Clients
  <2>2. CASE d = c
    <3>1. Chain(c)'
      BY <2>1, <2>2, DeliverChain DEF Prints
    <3>2. Stopping(c)'
      BY <1>2, <1>3, <2>1, <2>2, DownStops DEF Prints
    <3> QED
      BY <2>2, <3>1, <3>2 DEF Prints
  <2>3. CASE d # c
    BY <1>2, <2>1, <2>3, Elsewhere
  <2> QED
    BY <2>2, <2>3
<1> QED
  BY <1>1, <1>4

\* The server begins or ends.
LEMMA ServerPrints ==
  ASSUME TypeOK, QueuesStop, \A d \in Receivers : Prints(d), Serve \/ ServerKilled \/ UNCHANGED vars
  PROVE  QueuesStop' /\ \A d \in Receivers : Prints(d)'
<1>1. /\ UNCHANGED <<cpc, screen, down, username, room, queue, told>>
      /\ \A d \in Clients : wpc'[d] \in {wpc[d], "done"}
  BY DEF Serve, ServerKilled, vars, clientVars, serverVars
<1>2. QueuesStop'
  BY <1>1 DEF QueuesStop
<1>3. ASSUME NEW d \in Receivers PROVE Prints(d)'
  <2>1. d \in Clients /\ Prints(d)
    BY DEF Clients
  <2>2. wpc'[d] \in {"none", "backlog", "login", "join"} => room[d] = Null
    BY <1>1, <2>1 DEF Prints, Chain, NotYet
  <2>3. Chain(d)'
    BY <1>1, <2>1, <2>2, SameChain DEF Prints
  <2> QED
    BY <1>1, <2>1, <2>3 DEF Prints, Stopping
<1> QED
  BY <1>2, <1>3

LEMMA PrintInit == Init => PrintInv
<1> SUFFICES ASSUME Init PROVE PrintInv
  OBVIOUS
<1>1. StepInv
  BY StepInit
<1>2. \A c \in Clients : /\ cpc[c] = "connect" /\ down[c] = <<>> /\ queue[c] = <<>>
                         /\ screen[c] = <<>> /\ room[c] = Null
  BY DEF Init
<1>3. QueuesStop
  BY <1>2 DEF QueuesStop, ToSet
<1>4. \A c \in Receivers : c \in Clients
  BY DEF Clients
<1>5. ParseStops
  BY <1>2, <1>4 DEF ParseStops, ToSet
<1>6. ASSUME NEW c \in Receivers PROVE Chain(c)
  <2>1. told[c] = <<>>
    BY DEF Init
  <2>2. PICK p : p = [i \in 0 .. 0 |-> 0]
    OBVIOUS
  <2>3. p \in [0 .. Len(queue[c]) -> 0 .. Len(told[c])] /\ p[0] = 0
    BY <1>2, <1>4, <2>1, <2>2
  <2>4. Deliverable(c, 0) = {} /\ Nth(c, 0) = 0
    <3>1. Deliverable(c, 0) = {}
      BY DEF Deliverable
    <3> QED
      BY <3>1, Counts
  <2>5. Sent(c, 0)
    BY <1>2, <1>4, <2>4 DEF Sent
  <2>6. Queued(c, p)
    BY <1>2, <1>4, <2>1, <2>3 DEF Queued
  <2>7. NotYet(c)
    BY <1>2, <1>4, <2>1 DEF NotYet
  <2> QED
    BY <2>3, <2>5, <2>6, <2>7 DEF Chain
<1> QED
  BY <1>1, <1>3, <1>5, <1>6 DEF PrintInv

LEMMA PrintNext == PrintInv /\ [Next]_vars => PrintInv'
<1> SUFFICES ASSUME PrintInv, [Next]_vars PROVE PrintInv'
  OBVIOUS
<1>1. /\ StepInv /\ TypeOK /\ QueuesStop /\ \A c \in Clients : InTurn(c) /\ Reads(c)
      /\ \A d \in Receivers : Prints(d)
  BY DEF PrintInv, StepInv, ParseStops, Prints, Stopping
<1>2. SUFFICES QueuesStop' /\ \A d \in Receivers : Prints(d)'
  <2>1. StepInv'
    BY <1>1, StepNext
  <2> QED
    BY <2>1 DEF PrintInv, ParseStops, Prints, Stopping
<1>3. ASSUME NEW c \in Clients, Client(c) \/ Killed(c) \/ (c \in Senders /\ Sender(c))
      PROVE  QueuesStop' /\ \A d \in Receivers : Prints(d)'
  <2>1. OwnStep(c)
    BY <1>1, <1>3, ClientPrints
  <2>2. Keeps(c)
    BY <1>1, <1>3, ClientKeeps, TypeKeeps DEF Sender
  <2> QED
    BY <1>1, <2>1, <2>2, OwnStepPrints
<1>4. ASSUME NEW c \in Clients, Worker(c)
      PROVE  QueuesStop' /\ \A d \in Receivers : Prints(d)'
  <2>1. Keeps(c)
    BY <1>1, <1>4, WorkerKeeps
  <2>2. CASE Accept(c)
    <3>1. /\ UNCHANGED <<cpc, screen, down, username, room, queue, told>>
          /\ wpc[c] = "backlog" /\ wpc'[c] = "login"
      BY <1>1, <2>2 DEF Accept, clientVars, TypeOK
    <3>2. OwnStep(c)
      BY <1>1, <3>1, EndPrints
    <3> QED
      BY <1>1, <2>1, <3>2, OwnStepPrints
  <2>3. CASE WorkerLogin(c) \/ WorkerJoin(c) \/ WorkerEof(c)
    <3>1. OwnStep(c)
      BY <1>1, <2>3, WorkerLoginPrints, WorkerJoinPrints, WorkerEofPrints
    <3> QED
      BY <1>1, <2>1, <3>1, OwnStepPrints
  <2>4. CASE WorkerCommand(c)
    BY <1>1, <2>4, CommandPrints
  <2>5. CASE WorkerDeliver(c)
    BY <1>1, <2>5, DeliverPrints
  <2> QED
    BY <1>4, <2>2, <2>3, <2>4, <2>5 DEF Worker
<1>5. CASE Serve \/ ServerKilled \/ UNCHANGED vars
  BY <1>1, <1>5, ServerPrints
<1>6. Senders \subseteq Clients
  BY DEF Clients
<1> QED
  BY <1>3, <1>4, <1>5, <1>6 DEF Next

\* A receiver's screen, its connection and its queue hold one after the other what was
\* said in its room under another name than its own, in every state (receiver.cpp:67-106, server.cpp:145-167, room.cpp:38-57).
THEOREM PrintInvariance == Spec => []PrintInv
BY PrintInit, PrintNext, PTL DEF Spec

\* The loops that take a delivery apart find their colons (receiver.cpp:81-103).
THEOREM DeliveriesParse == Spec => []ParseStops
<1>1. PrintInv => ParseStops
  BY DEF PrintInv
<1> QED
  BY <1>1, PrintInvariance, PTL

\* A receiver prints what was said in its room, in that order: all that was said under
\* another name than its own (room.cpp:35) and that send lets through (room.cpp:30-42, server.cpp:145-167, receiver.cpp:67-106).
THEOREM PrintsAsSaid == Spec => []PrintsWhatWasSaid
<1>1. PrintInv => PrintsWhatWasSaid
  <2> SUFFICES ASSUME PrintInv, NEW c \in Receivers
               PROVE  /\ Len(screen[c]) <= Nth(c, Len(told[c]))
                      /\ \A k \in Deliverable(c, Len(told[c])) :
                           Nth(c, k) <= Len(screen[c]) /\ IsPlain(room[c]) /\ IsPlain(told[c][k].from)
                             => screen[c][Nth(c, k)] = told[c][k]
    BY Zenon DEF PrintsWhatWasSaid
  <2>1. c \in Clients /\ TypeOK /\ Chain(c)
    BY DEF PrintInv, StepInv, Clients
  <2>2. PICK p \in [0 .. Len(queue[c]) -> 0 .. Len(told[c])] : Sent(c, p[0])
    BY <2>1 DEF Chain
  <2>3. PICK T : T = p[0]
    OBVIOUS
  <2>4. /\ T \in 0 .. Len(told[c]) /\ Len(told[c]) \in Nat /\ T \in Nat
        /\ told[c] \in Seq(Sayings) /\ Len(screen[c]) \in Nat
    BY <2>1, <2>2, <2>3, Sizes
  <2>5. /\ Len(screen[c]) <= Nth(c, T)
        /\ \A k \in Deliverable(c, T) :
             Nth(c, k) <= Len(screen[c]) => screen[c][Nth(c, k)] = Parse(Delivery(c, k))
        /\ room[c] = Null => told[c] = <<>>
    BY <2>1, <2>2, <2>3 DEF Sent, Chain, NotYet
  <2>6. /\ Nth(c, T) <= Nth(c, Len(told[c]))
        /\ Nth(c, T) \in Nat /\ Nth(c, Len(told[c])) \in Nat
    BY <2>4, Counts
  <2>7. Len(screen[c]) <= Nth(c, Len(told[c]))
    BY <2>4, <2>5, <2>6
  <2>8. ASSUME NEW k \in Deliverable(c, Len(told[c])), Nth(c, k) <= Len(screen[c]),
               IsPlain(room[c]), IsPlain(told[c][k].from)
        PROVE  screen[c][Nth(c, k)] = told[c][k]
    <3>1. /\ k \in 1 .. Len(told[c]) /\ Goes(c, k) /\ Nth(c, k) \in Nat
          /\ \A j \in 0 .. k - 1 : Nth(c, j) + 1 <= Nth(c, k)
      BY <2>4, Place
    <3>2. k <= T
      <4>1. SUFFICES ASSUME k > T PROVE FALSE
        BY <2>4, <3>1
      <4>2. T \in 0 .. k - 1
        BY <2>4, <3>1, <4>1
      <4>3. Nth(c, T) + 1 <= Nth(c, k)
        BY <3>1, <4>2
      <4> QED
        BY <2>4, <2>5, <2>6, <2>8, <3>1, <4>3
    <3>3. k \in Deliverable(c, T)
      BY <2>4, <3>1, <3>2 DEF Deliverable, Goes
    <3>4. screen[c][Nth(c, k)] = Parse(Delivery(c, k))
      BY <2>5, <2>8, <3>3
    <3>5. told[c][k] \in Sayings /\ room[c] \in Text
      <4>1. room[c] # Null
        BY <2>4, <2>5, <3>1
      <4> QED
        BY <2>1, <2>4, <3>1, <4>1 DEF TypeOK
    <3>6. /\ told[c][k].from \in Text /\ told[c][k].text \in Text
          /\ told[c][k] = [from |-> told[c][k].from, text |-> told[c][k].text]
      BY <3>5 DEF Sayings
    <3>7. Parse(Delivery(c, k)) = [from |-> told[c][k].from, text |-> told[c][k].text]
      BY <2>8, <3>5, <3>6, ParsePayload DEF Delivery
    <3> QED
      BY <3>4, <3>6, <3>7
  <2> QED
    BY <2>7, <2>8
<1> QED
  BY <1>1, PrintInvariance, PTL
=============================================================================
