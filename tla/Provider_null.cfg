SPECIFICATION Spec
CONSTANTS
  MaxRetries = 2
  Backoff = 40
  RetryAfters <- Headers
  None = None
CHECK_DEADLOCK FALSE
INVARIANTS AnswersNeverAbort
