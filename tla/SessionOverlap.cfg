SPECIFICATION Spec
CONSTANTS
  Engine = {e1, e2, e3}
  Proc = {p1, p2}
  NoEngine = NoEngine
  NoProc = NoProc
  MaxAttempts = 1
  TeardownFails = {"start", "stop"}
  WriteFails = {"start", "stop", "reconnect"}
  MaxWrites = 2
  MaxTimers = 1
INVARIANT StartMutex
INVARIANT RowTracksEngine
INVARIANT StopHolds
SYMMETRY Symmetric
