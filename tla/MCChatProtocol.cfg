CONSTANTS
  s1 = s1
  r1 = r1
  Null = Null
  Senders <- OneSender
  Receivers <- OneReceiver
  Args <- ArgsOf
  Typed <- TypedInto
  MaxTyped = 3
  MAX_LEN = 255
  Colon = ":"
  CR = "CR"
  Newline = "LF"
  Width <- WordWidth
  Word <- Words
SPECIFICATION Spec
\* All programs may have ended.
CHECK_DEADLOCK FALSE
INVARIANTS
  InStep
  ParseStops
  PrintsWhatWasSaid
PROPERTIES
  AnswerComes
  PrintedInTheEnd
