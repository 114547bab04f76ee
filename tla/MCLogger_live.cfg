\* No entry is old enough to expire.
CONSTANTS
  l1 = l1  l2 = l2
  Tids = {l1, l2}
  Backend = Backend
  Expired = 0
  MaxOps = 2
  MaxTime = 0
SPECIFICATION FairSpec
PROPERTIES
  ScanEnds
  StatementFinishes
