\* A receiver whose client goes away.
CONSTANTS
  s1 = s1
  s2 = s2
  r1 = r1
  r2 = r2
  alice = alice
  bob = bob
  carol = carol
  A = A
  B = B
  Null = Null
  Conns <- Namesakes
  Logins <- NamesakesLogins
  Usernames <- AllUsernames
  RoomNames <- OneRoom
  Commands <- JoinAndSend
  Leavers <- Namesakes
  TextFits <- AlwaysFits
  MaxLines = 2
SPECIFICATION Spec
\* Every worker may have ended.
CHECK_DEADLOCK FALSE
PROPERTIES
  ReceiverGone
