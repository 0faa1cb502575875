CONSTANTS
  Request = {r1, r2}
  Layer = {l1, l2}
  NoRequest = NoRequest
  MaxAttempts = 1
SPECIFICATION Spec
INVARIANTS
  TypeOK
  OneExecutionAtATime
  WritersOwnTheItem
  NoPartialItem
  SucceededIsBrowsable
  StatusFitsExecution
PROPERTIES
  OnlyMarkRevokesVerdict
  ImplementsRecord
\* Once every request is over and the item has expired, nothing is left to do.
CHECK_DEADLOCK FALSE
