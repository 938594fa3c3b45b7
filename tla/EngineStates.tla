----------------------------- MODULE EngineStates -----------------------------
\* The statuses of an engine and the moves a session may see one make.

\* "linking" stands for QR_READY and AUTHENTICATING: nothing here tells them apart.
EngineStatus == {"disconnected", "initializing", "linking", "ready", "failed"}

\* The next statuses of a connected engine, over both adapters.
EngineMoves(s) ==
  IF s = "initializing" THEN {"linking", "ready", "disconnected", "failed"}
  ELSE IF s = "linking" THEN {"initializing", "linking", "ready", "disconnected", "failed"}
  ELSE IF s = "ready" THEN {"initializing", "disconnected", "failed"}
  ELSE {}
=============================================================================
