CONSTANTS
  Name = {n}
  Depth = 2
  MaxLines = 2
  Digest = {d1, d2}
  NoDigest = NoDigest
  Layers = 2
SPECIFICATION Spec
INVARIANTS
  WhiteoutHides
\* The handler returns.
CHECK_DEADLOCK FALSE
