SPECIFICATION FairSpec
CONSTANTS
  Engine = {e1, e2}
  Proc = {p1}
  NoEngine = NoEngine
  NoProc = NoProc
  MaxAttempts = 2
  TeardownFails = {"stop", "reconnect"}
  WriteFails = {"start", "stop", "reconnect", "callback"}
  MaxWrites = 3
  MaxTimers = 2
INVARIANT TypeOK
INVARIANT NothingLeftOver
PROPERTY DropIsResolved
