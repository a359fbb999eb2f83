--------------------------- MODULE MCChatProtocol ---------------------------
(***************************************************************************)
(* An instance of ChatProtocol small enough for TLC.                       *)
(***************************************************************************)
EXTENDS ChatProtocol, TLC

CONSTANTS s1, r1

\* Words are as long as they are written, but for two that nearly fill a line.
Lengths ==
  "long" :> 235 @@ "huge" :> 260 @@ "hi" :> 2 @@ "al" :> 2 @@ "bo" :> 2 @@ "den" :> 3
    @@ "err" :> 3 @@ "ok" :> 2 @@ "slogin" :> 6 @@ "rlogin" :> 6 @@ "join" :> 4
    @@ "leave" :> 5 @@ "sendall" :> 7 @@ "quit" :> 4 @@ "delivery" :> 8
    @@ "Login successful" :> 16 @@ "Join successful" :> 15 @@ "Joined Room." :> 12
    @@ "Message sent." :> 13 @@ "Error: Not in a room. JOIN first." :> 33
    @@ "Left current rooom." :> 19 @@ "Error: Not in a room." :> 21
    @@ "Quiting..." :> 10
Words == DOMAIN Lengths \cup {Colon, CR, Newline}
WordWidth(w) == IF w \in {Colon, CR, Newline} THEN 1 ELSE Lengths[w]

OneSender == {s1}
OneReceiver == {r1}

NoRoom == <<>>
ArgsOf ==
  s1 :> {[user |-> name, room |-> NoRoom] : name \in {<<"al">>, <<"al", Colon>>, <<"bo">>}}
    @@ r1 :> {[user |-> name, room |-> <<"den">>] : name \in {<<"bo">>, <<"huge">>}}

Slash(word, rest) == [command |-> word, rest |-> rest]
Say(rest) == [command |-> Null, rest |-> rest]

TypedInto ==
  s1 :> {Slash("join", <<"den">>), Slash("join", <<"huge">>), Slash("leave", <<>>),
         Slash("quit", <<>>), Slash("dance", <<>>), Say(<<>>), Say(<<"hi">>),
         Say(<<"hi", Colon, "hi", CR>>), Say(<<"long">>)}
=============================================================================
