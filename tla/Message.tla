------------------------------- MODULE Message -------------------------------
(***************************************************************************)
(* How a Message of csf_assign05 is put into a line and taken out of the   *)
(* buffer a line was read into (message.h, connection.cpp).  A text is a   *)
(* sequence of characters, or of words whose size is known.                *)
(***************************************************************************)
EXTENDS Integers, Sequences, FiniteSetsExt, SequencesExt

CONSTANTS
  MAX_LEN,
  Colon, CR, Newline,
  Size(_)        \* the number of characters of a text

Encode(msg) == msg.tag \o <<Colon>> \o msg.data \o <<Newline>>

\* What send lets through.
Fits(msg) == Size(Encode(msg)) <= MAX_LEN

\* The first position from i on that holds one of cs, or the one behind the buffer.
Find(buf, i, cs) == Min({j \in i .. Len(buf) : buf[j] \in cs} \cup {Len(buf) + 1})

\* Mutant: only a carriage return ends the data.
DecodeToCR(buf) ==
  LET colon == Find(buf, 1, {Colon})
      end == Find(buf, colon + 1, {CR})
  IN  [tag |-> SubSeq(buf, 1, colon - 1), data |-> SubSeq(buf, colon + 1, end - 1)]

\* The two loops of receive.  They look at the whole buffer, not at the part of
\* it that rio_readlineb has filled.
Decode(buf) ==
  LET colon == Find(buf, 1, {Colon})
      end == Find(buf, colon + 1, {CR, Newline})
  IN  [tag |-> SubSeq(buf, 1, colon - 1), data |-> SubSeq(buf, colon + 1, end - 1)]
=============================================================================
