\* Two threads log up to three times each; entries expire meanwhile.
CONSTANTS
  l1 = l1  l2 = l2
  Tids = {l1, l2}
  Backend = Backend
  Expired = 0
  MaxOps = 3
  MaxTime = 1
SPECIFICATION Spec
SYMMETRY Symmetry
INVARIANTS
  TypeOK
  WholeLines
  LineKeepsEntry
PROPERTIES
  ExitsFlushed
  ImplementsLineLog
