CONSTANTS
  Request = {r1, r2}
  Layer = {l1}
  NoRequest = NoRequest
  MaxAttempts = 1
SPECIFICATION FairSpec
PROPERTIES
  EveryExecutionEnds
  MarkedImageGetsVerdict
\* Once every request is over and the item has expired, nothing is left to do.
CHECK_DEADLOCK FALSE
