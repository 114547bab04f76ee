\* One thread that logs a line and nothing else.
CONSTANTS
  l1 = l1  l2 = l2
  Tids = {l1}
  Backend = Backend
  Expired = 0
  MaxOps = 1
  MaxTime = 0
SPECIFICATION FairSpec
PROPERTIES
  LineIsWritten
