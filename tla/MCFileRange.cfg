CONSTANTS
  MaxSpans = 3
  MaxOffset = 5
  MaxByte = 5
SPECIFICATION Spec
INVARIANTS
  NeverPanics
  SpansAreTight
  RangeCoversEntry
\* The request is answered.
CHECK_DEADLOCK FALSE
