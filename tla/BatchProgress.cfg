SPECIFICATION FairSpec
CONSTANTS
  N = 3
  Cadence = 2
  Cancel = {c1, c2}
  EarlyCancel = FALSE
  Remote = {c2}
INVARIANT TypeOK
INVARIANT ProgressAddsUp
INVARIANT NeverResent
INVARIANT StopsOnError
INVARIANT ReportIsExact
PROPERTY CancelStopsSending
PROPERTY BatchSettles
CHECK_DEADLOCK FALSE
