\* A sender between two rooms, and a connection that may log in as anything, the
\* sender's name included, and go away at any time.
CONSTANTS
  s1 = s1
  s2 = s2
  r1 = r1
  r2 = r2
  alice = alice
  bob = bob
  carol = carol
  A = A
  B = B
  Null = Null
  Conns <- Anybody
  Logins <- AnybodyLogins
  Usernames <- AllUsernames
  RoomNames <- TwoRooms
  Commands <- AllCommands
  Leavers <- FirstReceiver
  TextFits <- BOOLEAN
  MaxLines = 3
SPECIFICATION SafeSpec
\* Every worker may have ended.
CHECK_DEADLOCK FALSE
INVARIANTS
  OneRoomPerName
  NoUseAfterFree
  MembershipMatchesRoom
  IndInv
PROPERTIES
  DeletedUsersLeftAlone
  ChatRoomsSpec
