\* Two senders and two receivers in one room, one sendall each.
CONSTANTS
  s1 = s1
  s2 = s2
  r1 = r1
  r2 = r2
  alice = alice
  bob = bob
  carol = carol
  A = A
  B = B
  Null = Null
  Conns <- FourConns
  Logins <- FourLogins
  Usernames <- AllUsernames
  RoomNames <- OneRoom
  Commands <- JoinAndSend
  Leavers <- Nobody
  TextFits <- AlwaysFits
  MaxLines = 2
SPECIFICATION SafeSpec
\* Every worker may have ended.
CHECK_DEADLOCK FALSE
INVARIANTS
  SameOrder
