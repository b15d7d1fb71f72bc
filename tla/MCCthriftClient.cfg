\* Two threads with three and two calls, over two connections; the output buffer
\* reaches its mark when it holds two requests.
CONSTANTS
  c1 = c1
  c2 = c2
  Callers = {c1, c2}
  MaxCalls <- MCMaxCalls
  MaxConns = 2
  kInt32Max = 100
  kHighWaterSize = 2
SPECIFICATION ClientSpec
INVARIANTS AnswersMatch EntriesAreAwaited HighWaterClears
PROPERTY HangsOnlyWhenLost
\* All calls may have been made, and every caller hang.
CHECK_DEADLOCK FALSE
