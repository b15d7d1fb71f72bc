SPECIFICATION Spec
CONSTANTS
  Threads = {t1}
  LoopCalls = {"send", "shutdown", "forceClose", "forceCloseWithDelay"}
  ThreadCalls = {"send"}
  LateReadCalls = FALSE
  LoopSharing = {TRUE, FALSE}
  EarlyDrop = FALSE
  ServerDtor = FALSE
  MaxQueue = 2
INVARIANTS NoAssertFails CallbacksPaired
PROPERTIES NoMessageAfterDown ClosingCompletes
