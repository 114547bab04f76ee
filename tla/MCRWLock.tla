------------------------------ MODULE MCRWLock -------------------------------
(* Model-checking instances of the readers-writer lock. *)
EXTENDS RWLock, TLC

CONSTANTS t1, t2, t3, garbage

\* The threads are interchangeable.
Symmetry == Permutations(Threads)
=============================================================================
