------------------------------ MODULE MCServer -------------------------------
(* Model-checking instances of the server's thread pool. *)
EXTENDS IOHandlerServer, TLC

CONSTANTS t1, t2, c1, c2, c3, f1, f2, f3

\* Threads, connections and descriptors are interchangeable; sound for safety.
Symmetry == Permutations(Threads) \cup Permutations(Conns) \cup Permutations(Fds)
=============================================================================
