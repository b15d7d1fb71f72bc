SPECIFICATION SafetySpec
CONSTANTS
  Threads = {t1}
  LoopCalls = {"startRead", "stopRead"}
  ThreadCalls = {"shutdown", "forceClose", "startRead", "stopRead"}
  LateReadCalls = TRUE
  LoopSharing = {TRUE, FALSE}
  EarlyDrop = TRUE
  ServerDtor = TRUE
  MaxQueue = 1
INVARIANTS EstablishedFirst
CHECK_DEADLOCK FALSE
