------------------------------ MODULE MCClient -------------------------------
(* Model-checking instances of the client's thread pool. *)
EXTENDS IOHandlerClient, TLC

CONSTANTS t1, t2, c1, c2, c3, f1, f2, f3

\* Two ports of one machine, and a machine of its own.
MCHostOf == c1 :> <<"a", 80>> @@ c2 :> <<"a", 81>> @@ c3 :> <<"b", 80>>
MCIpHash == [ip \in {"a", "b"} |-> IF ip = "a" THEN 1 ELSE 2]
=============================================================================
