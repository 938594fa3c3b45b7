SPECIFICATION Spec
CONSTANTS
  Engine = {e1, e2}
  Proc = {p1, p2}
  NoEngine = NoEngine
  NoProc = NoProc
  MaxAttempts = 1
  TeardownFails = {}
  WriteFails = {}
  MaxWrites = 3
  MaxTimers = 2
INVARIANT NoOrphan
SYMMETRY Symmetric
