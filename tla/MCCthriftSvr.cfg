\* Two connections of one IO thread, two workers; length words of two tokens
\* and bodies of none, one and two, which may arrive in any pieces; a wheel of
\* three buckets.
CONSTANTS
  c1 = c1
  c2 = c2
  Conns = {c1, c2}
  Sizes <- MCSizes
  kSizeBytes = 2
  WorkerNum = 2
  kI8TimeWheelGridNum = 3
  None = None
SPECIFICATION SvrSpec
INVARIANTS IdleIsKicked FramesAreWhole
PROPERTIES RequestsAreServed SilentIsShut
