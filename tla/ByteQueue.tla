------------------------------ MODULE ByteQueue ------------------------------
(***************************************************************************)
(* What a Buffer promises to its user: a queue of bytes.  Bytes enter at   *)
(* the back, from the descriptor or from the application, and leave at the *)
(* front, to the descriptor; nothing is lost, repeated or reordered, no    *)
(* matter how the bytes are cut into read and write calls.                 *)
(***************************************************************************)
EXTENDS Naturals, Sequences

CONSTANT Byte

VARIABLES
    in,    \* received from the peer, not read yet
    q,     \* in the buffer
    out    \* written to the descriptor

vars == <<in, q, out>>

Prefix(s, n) == SubSeq(s, 1, n)
Rest(s, n) == SubSeq(s, n + 1, Len(s))

Init == in = <<>> /\ q = <<>> /\ out = <<>>

Arrive == \E b \in Byte : in' = Append(in, b) /\ UNCHANGED <<q, out>>

Read == \E n \in 1..Len(in) :
    in' = Rest(in, n) /\ q' = q \o Prefix(in, n) /\ UNCHANGED out

Feed(s) == q' = q \o s /\ UNCHANGED <<in, out>>

Write == \E n \in 1..Len(q) :
    q' = Rest(q, n) /\ out' = out \o Prefix(q, n) /\ UNCHANGED in

Clear == q' = <<>> /\ UNCHANGED <<in, out>>

\* Takes copies of one byte off the back.
Strip(b) == \E n \in 0..Len(q) :
    /\ \A i \in n + 1..Len(q) : q[i] = b
    /\ n > 0 => q[n] # b
    /\ q' = Prefix(q, n)
    /\ UNCHANGED <<in, out>>

\* Strings: what the application may append at once.
Next(Strings) ==
    \/ Arrive \/ Read \/ Write \/ Clear
    \/ \E s \in Strings : Feed(s)
    \/ \E b \in Byte : Strip(b)
=============================================================================
