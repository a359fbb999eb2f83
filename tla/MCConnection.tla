---------------------------- MODULE MCConnection ----------------------------
(***************************************************************************)
(* An instance of Connection small enough for TLC: lines of at most 4      *)
(* characters, read in pieces of at most 2.                                *)
(***************************************************************************)
EXTENDS Connection, TLC

Characters == {"t", "x", Colon, CR, Newline}

Message1(t, d) == [tag |-> t, data |-> d]

\* Of 3 characters, 4 (the longest that fit) and 5 when encoded; one with a
\* carriage return and one with a colon in its data.
SomeMessages ==
  {Message1(<<"t">>, <<>>), Message1(<<"t">>, <<CR>>),
   Message1(<<"t">>, <<Colon>>), Message1(<<"t">>, <<"x", "x">>)}

\* Lines of 4, 5 and 6 characters, without a colon, empty; bytes without a
\* newline.
SomeWrites ==
  {<<"t", Colon, "x", Newline>>, <<"t", Colon, "x", "x", Newline>>,
   <<"t", Colon, "x", "x", "x", Newline>>, <<"x", Newline>>, <<Newline>>,
   <<"t", Colon>>}

\* What the stack may hold: the same everywhere, or a line at the end.
SomeLeftovers ==
  {[i \in 0 .. maxlen - 1 |-> Junk],
   [i \in 0 .. maxlen - 1 |-> IF i = maxlen - 3 THEN Colon ELSE
                              IF i = maxlen - 1 THEN Newline ELSE Junk]}
=============================================================================
