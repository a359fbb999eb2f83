CONSTANTS
  Free = Free
  Fds <- MCFds
  MaxAddrs = 2
  MaxAccepts = 4
SPECIFICATION Spec
\* The server may fail to listen, and the bound on accepts ends the others.
CHECK_DEADLOCK FALSE
INVARIANTS
  ServesItsClient
