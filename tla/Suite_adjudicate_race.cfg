SPECIFICATION Spec
CONSTANTS
  Runners = {u1}
  NumPairs = 2
  Controls = {1}
  FullBenchmark = TRUE
  CleanGit = TRUE
  MaxFailures = 0
  Adjudicators = {a1, a2}
  MaxAdjudications = 2
  None = None
  Empty = Empty
  Garbled = Garbled
CHECK_DEADLOCK FALSE
PROPERTIES AdjudicationImmutable
