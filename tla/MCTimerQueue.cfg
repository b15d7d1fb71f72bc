\* Two timers at two addresses (a freed one may be reused); one-shot and
\* repeating timers, due at once or later.
CONSTANTS
  Addrs = {a1, a2}
  Delays = {0, 2}
  Intervals = {0, 1}
  MaxSequence = 2
  MaxPending = 2
  Never = Never
SPECIFICATION Spec
INVARIANTS SameTimers TouchedStayAlive NoOversleep
PROPERTIES StoppedNeverRuns TimersFire
