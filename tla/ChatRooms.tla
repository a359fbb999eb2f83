------------------------------ MODULE ChatRooms ------------------------------
(***************************************************************************)
(* What the chat server promises the users of its rooms: a user is in at   *)
(* most one room, and saying something is atomic: in one step everybody    *)
(* who is in the speaker's room under another name has the message at the  *)
(* end of his feed.  Two users of a room therefore see the same messages   *)
(* in the same order, none lost and none twice.                            *)
(***************************************************************************)
EXTENDS Sequences

CONSTANTS Users, Usernames, RoomNames, Messages, Null

VARIABLES name,    \* name[u]: the username u logged in with, or Null
          where,   \* where[u]: the room u is in, or Null
          feed     \* feed[u]: everything u was told since it logged in

vars == <<name, where, feed>>

Init ==
  /\ name = [u \in Users |-> Null]
  /\ where = [u \in Users |-> Null]
  /\ feed = [u \in Users |-> <<>>]

LogIn(u, x) ==
  /\ name[u] = Null
  /\ name' = [name EXCEPT ![u] = x]
  /\ UNCHANGED <<where, feed>>

Enter(u, n) ==
  /\ name[u] # Null
  /\ where[u] = Null
  /\ where' = [where EXCEPT ![u] = n]
  /\ UNCHANGED <<name, feed>>

Exit(u) ==
  /\ where[u] # Null
  /\ where' = [where EXCEPT ![u] = Null]
  /\ UNCHANGED <<name, feed>>

Hears(u, s) == where[u] = where[s] /\ name[u] # name[s]

Say(s, m) ==
  /\ m.from = s
  /\ where[s] # Null
  /\ m.room = where[s]
  /\ feed' = [u \in Users |-> IF Hears(u, s) THEN Append(feed[u], m) ELSE feed[u]]
  /\ UNCHANGED <<name, where>>

\* A user who is in no room may go; what it was told goes with it.
Forget(u) ==
  /\ where[u] = Null
  /\ feed' = [feed EXCEPT ![u] = <<>>]
  /\ UNCHANGED <<name, where>>

Next ==
  \E u \in Users :
    \/ \E x \in Usernames : LogIn(u, x)
    \/ \E n \in RoomNames : Enter(u, n)
    \/ Exit(u)
    \/ \E m \in Messages : Say(u, m)
    \/ Forget(u)

Spec == Init /\ [][Next]_vars
=============================================================================
