\* MAX_LEN is 4, buf has 6 characters, rio_buf 2, the kernel holds 2.
CONSTANTS
  Char <- Characters
  Newline = "LF"
  Colon = ":"
  CR = "CR"
  Nul = "NUL"
  Junk = "junk"
  Writes <- SomeWrites
  Messages <- SomeMessages
  Leftovers <- SomeLeftovers
  RIO_BUFSIZE = 2
  maxlen = 6
  MAX_LEN = 4
  Capacity = 2
  MaxBytes = 7
SPECIFICATION ConnSpec
\* Both programs may have closed their ends.
CHECK_DEADLOCK FALSE
INVARIANTS
  ConnTypeOK
  ReturnsLine
  RoundTrip
  SendIsNeverRefused
  NeverCut
  DecodesLine
PROPERTIES
  LineReturned
