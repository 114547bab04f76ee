\* Two concurrent calls; the function of one never returns by itself.
CONSTANTS
  a = a  b = b
  Calls = {a, b}
  MaxFd = 5
  Free = Free
  Hangs = {b}
  Signals = {a}
SPECIFICATION Spec
INVARIANTS
  TypeOK
  TrueMeansFinished
  FrameOutlivesThread
PROPERTIES
  RunReturns
\* The calls have returned, or one waits for ever for a function that hangs.
CHECK_DEADLOCK FALSE
