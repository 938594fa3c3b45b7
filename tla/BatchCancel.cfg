SPECIFICATION Spec
CONSTANTS
  N = 2
  Cadence = 2
  Cancel = {c1}
  EarlyCancel = FALSE
  Remote = {}
INVARIANT CancelWins
CHECK_DEADLOCK FALSE
