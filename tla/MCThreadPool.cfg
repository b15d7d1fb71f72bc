\* Two workers and two producers with four tasks; unbounded, and bounded by one
\* and by two, so that producers and workers meet a full queue.
SPECIFICATION Spec
CONSTANTS
  Workers = {w1, w2}
  Producers = {p1, p2}
  Tasks = {t1, t2, t3, t4}
  MaxQueueSizes = {0, 1, 2}
  NULL = NULL
INVARIANT NoLostSignal
PROPERTIES TasksRun StopTerminates
\* The pool may be stopped with nothing left to do.
CHECK_DEADLOCK FALSE
