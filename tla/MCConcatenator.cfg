CONSTANTS
  Name = {n}
  Depth = 2
  MaxLines = 3
  Digest = {d1, d2}
  NoDigest = NoDigest
  Layers = 3
SPECIFICATION Spec
SYMMETRY Symmetry
INVARIANTS
  TypeOK
  OrderDoesNotMatter
  NothingIsLost
  StaleOnlyAroundDirectories
  NothingIsOutOfReach
\* The handler returns.
CHECK_DEADLOCK FALSE
