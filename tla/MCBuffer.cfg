\* Blocks of one or two bytes that have to grow; steps of one and two bytes.
CONSTANTS
  x = x  y = y
  Byte = {x, y}
  Nul = Nul
  Beyond = y
  Cap = {1, 2}
  DefaultStep = 2
  Steps = {1, 2}
  Strings <- MCStrings
  End <- MCEnd
  Room = 2
  MaxFed = 3
SPECIFICATION Spec
INVARIANTS
  TypeOK
  WithinBlock
  EndsWithIsExact
  TillEndMissesNone
PROPERTIES
  ImplementsQueue
  CallEnds
CHECK_DEADLOCK FALSE
