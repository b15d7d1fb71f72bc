SPECIFICATION Spec
CONSTANTS
  Threads = {t1}
  Loop = loop
  Closers = {loop, t1}
  Lengths = {0, 1, 2}
  highWaterMark_ = 2
  MaxBytes = 2
  MaxPosted = 2
INVARIANT BytesInOrder
PROPERTIES ImplementsStream SendingProgresses
CHECK_DEADLOCK FALSE
