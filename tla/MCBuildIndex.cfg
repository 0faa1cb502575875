CONSTANTS
  Body = 3
  MaxTail = 4
  Capacity = 2
SPECIFICATION FairSpec
INVARIANTS
  IndexCoversBlob
  StuckOnlyByTail
PROPERTIES
  EndsUnlessLongTail
  LeftBehindOnlyByLongRest
\* BuildIndex returns, or a long tail blocks it for ever.
CHECK_DEADLOCK FALSE
