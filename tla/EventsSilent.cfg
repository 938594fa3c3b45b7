SPECIFICATION StreamSpec
CONSTANTS
  PageSession = {s1, s2}
  NoSelection = NoSelection
  SocketAttempts = 2
  MaxQueue = 4
  MaxChecks = 2
INVARIANT NeverSilentlyStale
CHECK_DEADLOCK FALSE
