------------------------------ MODULE MCLogger -------------------------------
(* Model-checking instances of the asynchronous logger. *)
EXTENDS AsyncLogger, TLC

CONSTANTS l1, l2

\* The logging threads are interchangeable; sound for safety.
Symmetry == Permutations(Tids)
=============================================================================
