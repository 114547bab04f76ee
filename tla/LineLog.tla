------------------------------ MODULE LineLog --------------------------------
(***************************************************************************)
(* What the logger promises: each thread composes lines, a header, parts   *)
(* and an end; whole lines of a thread are moved to the output, in order.  *)
(***************************************************************************)
EXTENDS Sequences, Naturals

CONSTANT Tids

VARIABLES
    pending,  \* what each thread has logged and is not in the output yet
    out       \* tokens, each with its thread

vars == <<pending, out>>

\* Is thread t in the middle of a line?
Open(t) == pending[t] # <<>> /\ pending[t][Len(pending[t])] # "end"

Init == pending = [t \in Tids |-> <<>>] /\ out = <<>>

Add(t, toks) == pending' = [pending EXCEPT ![t] = @ \o toks] /\ UNCHANGED out

Part(t) == Add(t, IF Open(t) THEN <<"part">> ELSE <<"head", "part">>)
EndLine(t) == Add(t, <<"end">>)

Flush(t) ==
    /\ ~Open(t)
    /\ out' = out \o [i \in DOMAIN pending[t] |-> <<t, pending[t][i]>>]
    /\ pending' = [pending EXCEPT ![t] = <<>>]

Next == \E t \in Tids : Part(t) \/ EndLine(t) \/ Flush(t)

Spec == Init /\ [][Next]_vars
=============================================================================
