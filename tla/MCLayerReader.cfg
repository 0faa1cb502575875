CONSTANTS
  Invocation = {i1, i2}
  Environment = {v1, v2}
  Layer = {l1, l2}
  Size = 3
SPECIFICATION Spec
SYMMETRY Symmetry
INVARIANTS
  TypeOK
  StoredInOrder
  ProgressIsReal
  LeftoverIsCancelled
PROPERTIES
  ProgressStepsBackOnlyWhenShared
\* Once every invocation is over, only leftover goroutines may go on.
CHECK_DEADLOCK FALSE
