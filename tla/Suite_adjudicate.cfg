SPECIFICATION Spec
CONSTANTS
  Runners = {u1}
  NumPairs = 3
  Controls = {1}
  FullBenchmark = TRUE
  CleanGit = TRUE
  MaxFailures = 2
  Adjudicators = {a1}
  MaxAdjudications = 2
  None = None
  Empty = Empty
  Garbled = Garbled
CHECK_DEADLOCK FALSE
INVARIANTS TypeOK LedgerFollowsSchedule SummaryFromLedger OfficialSummaryIsSound AdjudicationRestsOnLedger OverlayFollowsDecisions
PROPERTIES SuiteGetsDone AdjudicationImmutable BenchmarkSpec
