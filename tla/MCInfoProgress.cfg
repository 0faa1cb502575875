CONSTANTS
  Invocation = {i1, i2}
  Environment = {v1, v2}
  Layer = {l1, l2}
  Size = 1
  Client = {c1}
  Positions = 2
SPECIFICATION InfoSpec
SYMMETRY Symmetry
INVARIANTS
  InfoTypeOK
  NoPartialProgress
  ReportFitsTotal
  FullBarMeansRead
PROPERTIES
  BarStepsBackOnlyWhenRepeated
