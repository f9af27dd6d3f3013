SPECIFICATION Spec
CONSTANTS
  n1 = n1  n2 = n2
  None = None
  PythonFiles <- Files
  Trees <- TreesOf
  Paths <- AllFiles
  Tests <- TwoTests
  Answers <- AnswersOf
  Nodes <- TwoTests
  BaseTest <- Identity
  Reports <- JUnits
  Exits = {"0_or_1"}
CHECK_DEADLOCK FALSE
INVARIANT LedgerAssertedAfterRetry
