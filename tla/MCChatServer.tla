---------------------------- MODULE MCChatServer ----------------------------
(***************************************************************************)
(* Instances of ChatServer small enough for TLC.                           *)
(***************************************************************************)
EXTENDS ChatServer, TLC

CONSTANTS s1, s2, r1, r2, alice, bob, carol, A, B

Sender(x) == {[tag |-> "slogin", user |-> x]}
Receiver(x) == {[tag |-> "rlogin", user |-> x]}
Stranger(x) == {[tag |-> "other", user |-> x]}

\* Two senders and a receiver; what the receiver's client is, is open.
TwoSenders == {s1, s2, r1}
TwoSendersLogins ==
  s1 :> Sender(alice) @@ s2 :> Sender(bob) @@ r1 :> Receiver(carol)

\* Two of each.
FourConns == {s1, s2, r1, r2}
FourLogins ==
  s1 :> Sender(alice) @@ s2 :> Sender(bob) @@ r1 :> Receiver(carol)
    @@ r2 :> Receiver(carol)

\* A sender and a receiver of the same name.
Namesakes == {s1, r1}
NamesakesLogins == s1 :> Sender(alice) @@ r1 :> Receiver(alice)

\* A sender, and a connection that may log in as anything, under its name too.
Anybody == {s1, r1}
AnybodyLogins ==
  s1 :> Sender(alice)
    @@ r1 :> (Receiver(alice) \cup Receiver(bob) \cup Sender(bob) \cup Stranger(bob))

AllUsernames == {alice, bob, carol}
OneRoom == {A}
TwoRooms == {A, B}
AllCommands == CommandTags
JoinAndSend == {"join", "sendall"}
Nobody == {}
FirstSender == {s1}
FirstReceiver == {r1}
AlwaysFits == {TRUE}
=============================================================================
