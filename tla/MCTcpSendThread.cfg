SPECIFICATION SafetySpec
CONSTANTS
  Threads = {t1}
  Loop = loop
  Closers = {t1}
  Lengths = {1}
  highWaterMark_ = 2
  MaxBytes = 2
  MaxPosted = 2
INVARIANTS ShutdownAfterData
CHECK_DEADLOCK FALSE
