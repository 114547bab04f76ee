------------------------------ MODULE MCBuffer -------------------------------
(* Model-checking instances of the buffer. *)
EXTENDS Buffer

CONSTANTS x, y

MCStrings == {<<x>>, <<y, x, y>>}
MCEnd == <<x, y>>
=============================================================================
