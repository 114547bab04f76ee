\* One thread, and entries that expire.
CONSTANTS
  l1 = l1  l2 = l2
  Tids = {l1}
  Backend = Backend
  Expired = 0
  MaxOps = 2
  MaxTime = 1
SPECIFICATION Spec
INVARIANTS
  NeverCrashes
