SPECIFICATION RunnerSpec
CONSTANTS
  Runners = {u1, u2}
  NumPairs = 2
  Controls = {1}
  FullBenchmark = TRUE
  CleanGit = TRUE
  MaxFailures = 1
  None = None
  Empty = Empty
  Garbled = Garbled
CHECK_DEADLOCK FALSE
INVARIANTS SummaryOnLedger FinishedSuiteIsRecorded EmptySummaryIsBeingWritten
