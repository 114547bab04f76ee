------------------------------ MODULE MCContext ------------------------------
(* Model-checking instances of calls with a timeout. *)
EXTENDS Context

CONSTANTS a, b
=============================================================================
