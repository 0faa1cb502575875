CONSTANTS
  Invocation = {i1}
  Environment = {v1}
  Layer = {l1}
  Size = 2
SPECIFICATION Spec
INVARIANTS
  FlushedOnReturn
\* Once the invocation is over, nothing is left to do.
CHECK_DEADLOCK FALSE
