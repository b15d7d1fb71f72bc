\* The delays are those of the code.
SPECIFICATION Spec
CONSTANTS
  Threads = {t1, t2}
  kInitRetryDelayMs = 500
  kMaxRetryDelayMs = 30000
  MaxQueue = 3
INVARIANTS NoAssertFails SocketsAreOwned KeepsTrying
PROPERTY StopWorks
