\* A lock in static storage, as in the loggers INFO and ERROR: the note starts as 0.
CONSTANTS
  t1 = t1  t2 = t2  t3 = t3  garbage = garbage
  Threads = {t1, t2, t3}
  NoOwner = NoOwner
  InitOwner = NoOwner
  MaxDepth = 2
SPECIFICATION Spec
SYMMETRY Symmetry
INVARIANTS
  TypeOK
  AssertHolds
  RefusesTheWriterOnly
