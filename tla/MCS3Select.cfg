CONSTANTS
  Lines = 3
SPECIFICATION FairSpec
INVARIANTS
  TypeOK
  ReturnsWhatItReceived
  StuckOnlyByLongLine
  PanicsOnlyWhenBroken
PROPERTIES
  EndsWithStream
  EndsWithContext
\* The call ends, or a line that is too long blocks it for ever.
CHECK_DEADLOCK FALSE
