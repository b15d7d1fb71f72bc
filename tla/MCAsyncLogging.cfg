\* Buffers of two lines, a limit of three buffers instead of 25, and lines
\* enough to exceed it and to go on afterwards.
CONSTANTS
  Capacity = 2
  DropLimit = 3
  MaxLines = 11
  NULL = NULL
SPECIFICATION Spec
INVARIANTS NoAssertFails LogIsInOrder
PROPERTIES LinesAreWritten StopReturns
\* Nothing is left to do once stop() has returned.
CHECK_DEADLOCK FALSE
