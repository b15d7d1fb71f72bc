\* The owner and two other threads post two callbacks; two channels, and room
\* for one event at first, so that a full list and its growth happen.
CONSTANTS
  Threads = {main, t1, t2}
  Owner = main
  Functors = {f1, f2}
  Channels = {c1, c2}
  WakeupChannel = wakeup
  NULL = NULL
  kInitEventListSize = 1
SPECIFICATION TSpec
INVARIANT NothingLost
PROPERTIES ImplementsFunctorQueue FunctorsAreCalled IoIsNotStarved OwnerReturns
\* The program may end: the thread is joined.
CHECK_DEADLOCK FALSE
