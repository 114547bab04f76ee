------------------------------- MODULE Buffer --------------------------------
(***************************************************************************)
(* The IO buffer (lib/Buffer.cc): a block of _cap bytes of which           *)
(* [_start, _offset) is the content, refilled from and drained to a        *)
(* non-blocking descriptor in steps, and reallocated when it is too small. *)
(*                                                                         *)
(* One step is one system call, one round of a loop around it or of the    *)
(* doubling in resize.  Indices start at 0, as in the code.                *)
(***************************************************************************)
EXTENDS Integers, Sequences

CONSTANTS
    Byte,         \* characters other than '\0'
    Nul,
    Beyond,       \* what memory after the end of the block holds
    Cap,          \* the capacities the application asks for
    DefaultStep,  \* _default_step
    Steps,        \* the other steps and lengths in use
    Strings,      \* what is appended at once
    End,          \* the terminator readNioToBufferTillEnd looks for
    Room,         \* what the descriptor takes before it would block
    MaxFed        \* bound: bytes received and appended

ASSUME BufferAssumption ==
    /\ Nul \notin Byte /\ Cap \subseteq Nat \ {0}
    /\ DefaultStep \in Nat \ {0} /\ Steps \subseteq Nat \ {0}
    /\ Strings \subseteq Seq(Byte) /\ End \in Seq(Byte) /\ Len(End) > 0
    /\ Room \in Nat /\ MaxFed \in Nat

VARIABLES
    cap, start, offset,
    buf,     \* _buffer, a function on the indices of the block
    pc,      \* "idle", or the step of the call in progress
    op,      \* the call in progress
    step,    \* its step
    len,     \* what is left of the length of the inner read or write
    total,   \* what the inner read or write has done
    str,     \* what is being appended
    at,      \* what readNioToBufferTillEnd has returned, or -1
    from,    \* history: _offset when the last call began
    in, peer, room, out,  \* the descriptor: received, "up"/"fin"/"rst", space, sent
    fed      \* bytes received and appended

blockVars == <<cap, start, offset, buf>>
innerVars == <<pc, op, step, len, total, str>>
callVars == <<innerVars, at, from>>
fdVars == <<in, peer, room, out>>
vars == <<blockVars, callVars, fdVars, fed>>

Reads == {"read", "tillBlock", "tillBlockOrEOF", "tillEnd"}
Writes == {"write", "writeTillBlock", "writeTillEnd"}

TypeOK ==
    /\ cap \in Nat \ {0} /\ start \in Nat /\ offset \in Nat
    /\ buf \in [DOMAIN buf -> Byte \cup {Nul}]
    /\ pc \in {"idle", "grow", "append", "read", "search", "write"}
    /\ op \in Reads \cup Writes \cup {"none", "append"}
    /\ step \in Nat /\ len \in Nat
    /\ total \in 0..(IF op \in Writes THEN step ELSE len)
    /\ str \in Seq(Byte) /\ at \in Int /\ from \in Nat
    /\ in \in Seq(Byte) /\ out \in Seq(Byte) /\ peer \in {"up", "fin", "rst"}
    /\ room \in Nat /\ fed \in Nat

Init ==
    /\ cap \in Cap /\ start = 0 /\ offset = 0
    /\ buf = [i \in 0..cap - 1 |-> Nul] /\ pc = "idle" /\ op = "none"
    /\ step = 0 /\ len = 0 /\ total = 0 /\ str = <<>> /\ at = -1 /\ from = 0
    /\ in = <<>> /\ peer = "up" /\ room = Room /\ out = <<>> /\ fed = 0
-----------------------------------------------------------------------------
Smaller(i, j) == IF i < j THEN i ELSE j
Greater(i, j) == IF i > j THEN i ELSE j

\* The bytes s put at index i.
Stored(i, s) ==
    [j \in DOMAIN buf |-> IF j \in i..i + Len(s) - 1 THEN s[j - i + 1] ELSE buf[j]]

NewCall == pc = "idle" /\ at' = -1 /\ from' = offset

\* The call in progress returns to the application, or throws.
Return == pc' = "idle" /\ op' = "none" /\ step' = 0 /\ len' = 0 /\ total' = 0 /\ str' = <<>>

\* readNioToBuffer(fd, n) begins: resize(_offset + n).
BeginRead(n) == pc' = "grow" /\ len' = n /\ total' = 0

\* writeNioFromBuffer(fd, step) for the next piece of at most s bytes.
BeginWrite(s) ==
    LET n == Smaller(s, offset - start) IN
    pc' = "write" /\ step' = n /\ len' = n /\ total' = 0
-----------------------------------------------------------------------------
(* resize, for the length len of the call in progress. *)

\* while(_cap < cap) { _cap *= 2; }
Double ==
    /\ pc = "grow" /\ cap < offset + len
    /\ cap' = 2 * cap
    /\ UNCHANGED <<start, offset, buf, callVars, fdVars, fed>>

\* Mutant: the content is moved to the front, and _start left where it was.
Copied_ToFront ==
    [i \in 0..cap - 1 |-> IF i < offset - start THEN buf[start + i] ELSE Nul]

\* The new block: zeroed, with the content where it was.
Copied == [i \in 0..cap - 1 |-> IF start <= i /\ i < offset THEN buf[i] ELSE Nul]

Reallocate ==
    /\ pc = "grow" /\ cap >= offset + len
    /\ buf' = IF DOMAIN buf = 0..cap - 1 THEN buf ELSE Copied
    /\ pc' = IF op = "append" THEN "append" ELSE "read"
    /\ UNCHANGED <<cap, start, offset, op, step, len, total, str, at, from, fdVars, fed>>
-----------------------------------------------------------------------------
(* The calls of the application. *)

AppendToBuffer(s) ==
    /\ NewCall /\ fed + Len(s) <= MaxFed
    /\ op' = "append" /\ pc' = "grow" /\ str' = s /\ len' = Len(s)
    /\ UNCHANGED <<blockVars, step, total, fdVars, fed>>

StoreString ==
    /\ pc = "append"
    /\ buf' = Stored(offset, str) /\ offset' = offset + Len(str)
    /\ fed' = fed + Len(str) /\ Return
    /\ UNCHANGED <<cap, start, at, from, fdVars>>

CallRead(o, s) ==
    /\ NewCall
    /\ op' = o /\ step' = s /\ BeginRead(s)
    /\ UNCHANGED <<blockVars, str, fdVars, fed>>

\* The assertion in writeNioFromBuffer bounds its length.
CallWrite(o, s) ==
    /\ NewCall /\ start # offset
    /\ o = "write" => s <= offset - start
    /\ op' = o /\ BeginWrite(s)
    /\ UNCHANGED <<blockVars, str, fdVars, fed>>

\* Also what writeNioFromBufferTillEnd does when there is nothing to write.
Clear ==
    /\ NewCall /\ offset > 0
    /\ buf' = [i \in DOMAIN buf |-> Nul] /\ start' = 0 /\ offset' = 0
    /\ UNCHANGED <<cap, innerVars, fdVars, fed>>

\* Mutant: only the length is adjusted.
Shortened_KeepsBytes(n) == buf

Shortened(n) == [i \in DOMAIN buf |-> IF i < n \/ i >= offset THEN buf[i] ELSE Nul]

\* stripEnd does not look at _start.  Left out: a content that consists of b
\* altogether behind a b that has been written already, which it strips as well.
StripEnd(b) ==
    /\ NewCall
    /\ \E n \in start..offset :
          /\ \A i \in n..offset - 1 : buf[i] = b
          /\ n > 0 => buf[n - 1] # b
          /\ offset' = n /\ buf' = Shortened(n)
    /\ UNCHANGED <<cap, start, innerVars, fdVars, fed>>
-----------------------------------------------------------------------------
(* readNioToBuffer and the loops around it. *)

\* Mutant: a block without data does not end the loop.
Again_Always(r) == op \in {"tillBlock", "tillBlockOrEOF", "tillEnd"}

\* Does the loop go on after an inner read of r bytes (and no terminator)?
Again(r) == op = "tillEnd" \/ (op \in {"tillBlock", "tillBlockOrEOF"} /\ r > 0)

ReadReturns(r) ==
    IF op = "tillEnd" /\ r > 0 THEN pc' = "search" /\ total' = r /\ UNCHANGED <<op, step, len, str>>
    ELSE IF Again(r) THEN BeginRead(step) /\ UNCHANGED <<op, step, str>>
    ELSE Return

\* Mutant: the whole length is asked for again after a short read.
ReadMax_Whole == len

\* ::read(fd, _buffer + _offset, len - total)
ReadMax == len - total

ReadSome ==
    LET n == Smaller(Len(in), ReadMax) IN
    /\ pc = "read" /\ in # <<>>
    /\ buf' = Stored(offset, SubSeq(in, 1, n)) /\ offset' = offset + n
    /\ in' = SubSeq(in, n + 1, Len(in))
    /\ IF total + n = len THEN ReadReturns(total + n)
       ELSE total' = total + n /\ UNCHANGED <<pc, op, step, len, str>>
    /\ UNCHANGED <<cap, start, at, from, peer, room, out, fed>>

ReadBlocks ==
    /\ pc = "read" /\ in = <<>> /\ peer = "up" /\ ReadReturns(total)
    /\ UNCHANGED <<blockVars, at, from, fdVars, fed>>

\* EOFException, which one of the loops swallows, or fdClosedException.
ReadThrows ==
    /\ pc = "read" /\ in = <<>> /\ peer # "up"
    /\ Return
    /\ UNCHANGED <<blockVars, at, from, fdVars, fed>>

At(i) == IF i \in DOMAIN buf THEN buf[i] ELSE Beyond
Matches(i, s) == \A k \in 1..Len(s) : At(i + k - 1) = s[k]

\* Mutant: only terminators that lie in the new bytes altogether.
SearchFrom_NewOnly == offset - total + Len(End) - 1

\* The index of the last byte of the first candidate.
SearchFrom == Greater(offset - total, Len(End) - 1)

\* The search, which tries the byte after the content as well.
Search ==
    LET hits == {i - Len(End) + 1 : i \in {j \in SearchFrom..offset :
                                             Matches(j - Len(End) + 1, End)}}
    IN  /\ pc = "search"
        /\ IF hits = {}
           THEN BeginRead(step) /\ UNCHANGED <<op, step, str, at>>
           ELSE Return /\ \E i \in hits : at' = i /\ \A j \in hits : i <= j
        /\ UNCHANGED <<blockVars, from, fdVars, fed>>
-----------------------------------------------------------------------------
(* writeNioFromBuffer and the loops around it. *)

\* The inner write is over, with the content starting at s now.
WriteReturns(r, s) ==
    IF op = "write" \/ s = offset \/ (op = "writeTillBlock" /\ r = 0) THEN Return
    ELSE LET n == Smaller(step, offset - s)
         IN pc' = "write" /\ step' = n /\ len' = n /\ total' = 0 /\ UNCHANGED <<op, str>>

\* writeNioFromBufferTillEnd ends with clear().
WriteSome ==
    LET n == Smaller(len, room)
        cleared == op = "writeTillEnd" /\ start + n = offset
    IN  /\ pc = "write" /\ n > 0 /\ peer # "rst"
        /\ out' = out \o [i \in 1..n |-> buf[start + i - 1]] /\ room' = room - n
        /\ start' = IF cleared THEN 0 ELSE start + n
        /\ offset' = IF cleared THEN 0 ELSE offset
        /\ buf' = IF cleared THEN [i \in DOMAIN buf |-> Nul] ELSE buf
        /\ IF n = len THEN WriteReturns(total + n, start + n)
           ELSE len' = len - n /\ total' = total + n /\ UNCHANGED <<pc, op, step, str>>
        /\ UNCHANGED <<cap, at, from, in, peer, fed>>

WriteBlocks ==
    /\ pc = "write" /\ room = 0 /\ peer # "rst" /\ WriteReturns(total, start)
    /\ UNCHANGED <<blockVars, at, from, fdVars, fed>>

\* A peer that has closed may take some more bytes, or answer with a reset.
WriteThrows ==
    /\ pc = "write" /\ peer # "up"
    /\ Return
    /\ UNCHANGED <<blockVars, at, from, fdVars, fed>>
-----------------------------------------------------------------------------
(* The peer. *)

PeerSends(b) ==
    /\ peer = "up" /\ fed < MaxFed
    /\ in' = Append(in, b) /\ fed' = fed + 1
    /\ UNCHANGED <<blockVars, callVars, peer, room, out>>

PeerTakes ==
    /\ peer = "up" /\ room < Room
    /\ room' = Room
    /\ UNCHANGED <<blockVars, callVars, in, peer, out, fed>>

\* What was received before the end of the stream or a reset is read first.
PeerGoes ==
    /\ peer = "up"
    /\ peer' \in {"fin", "rst"}
    /\ UNCHANGED <<blockVars, callVars, in, room, out, fed>>

Call ==
    \/ \E s \in Strings : AppendToBuffer(s)
    \/ \E s \in Steps : CallRead("read", s) \/ CallRead("tillEnd", s)
    \/ CallRead("tillBlock", DefaultStep) \/ CallRead("tillBlockOrEOF", DefaultStep)
    \/ \E s \in Steps : CallWrite("write", s) \/ CallWrite("writeTillEnd", s)
    \/ CallWrite("writeTillBlock", DefaultStep)
    \/ Clear
    \/ \E b \in Byte : StripEnd(b)

BufferStep ==
    \/ Double \/ Reallocate \/ StoreString
    \/ ReadSome \/ ReadBlocks \/ ReadThrows \/ Search
    \/ WriteSome \/ WriteBlocks \/ WriteThrows

PeerStep == (\E b \in Byte : PeerSends(b)) \/ PeerTakes \/ PeerGoes

Next == Call \/ BufferStep \/ PeerStep

\* A call that has begun goes on; the application and the peer need not.
Spec == Init /\ [][Next]_vars /\ WF_vars(BufferStep)
-----------------------------------------------------------------------------
\* The content, as a sequence.
Content == [i \in 1..offset - start |-> buf[start + i - 1]]

(* The block is never read or written outside of its bounds by read, write *)
(* and append, and what lies after the content is zero: endsWith and the   *)
(* search for a terminator rely on it (Buffer.cc:29-37, 50, 61-62, 121,    *)
(* 156-158, 167).                                                          *)
WithinBlock ==
    /\ 0 <= start /\ start <= offset /\ offset <= cap
    /\ pc # "grow" => DOMAIN buf = 0..cap - 1
    /\ pc = "read" => offset + len - total <= cap
    /\ pc = "write" => len <= offset - start
    /\ \A i \in DOMAIN buf : i >= offset => buf[i] = Nul

(* The buffer is a queue of bytes, however the calls are cut: see          *)
(* ByteQueue.                                                              *)
Queue == INSTANCE ByteQueue WITH q <- Content
ImplementsQueue == Queue!Init /\ [][Queue!Next(Strings)]_(Queue!vars)

\* endsWith
EndsWith(s) == offset > 0 /\ Matches(offset - Len(s), s) /\ At(offset) = Nul

(* endsWith tells whether the bytes in front of _offset are the terminator *)
(* (Buffer.cc:174-176), as long as the block has a byte to spare for the   *)
(* '\0' that strcmp needs and the block is as long as the string.          *)
EndsWithIsExact ==
    pc = "idle" /\ offset < cap /\ offset >= Len(End) =>
        (EndsWith(End) <=> \A k \in 1..Len(End) : buf[offset - Len(End) + k - 1] = End[k])

\* Where the terminator lies in the first n bytes, ending in what was read.
Terminators(n) ==
    {j \in 0..n - Len(End) : j + Len(End) > from /\ \A k \in 1..Len(End) : buf[j + k - 1] = End[k]}

(* "Read until end": while readNioToBufferTillEnd goes on reading, no      *)
(* terminator ends in the bytes it has read, although two reads may have   *)
(* cut it in the middle; and it returns where the first one begins (of     *)
(* those that end in bytes it has read), as long as the block is not full  *)
(* to its last byte (Buffer.cc:88-103).                                    *)
TillEndMissesNone ==
    /\ op = "tillEnd" /\ pc \in {"grow", "read"} => Terminators(offset - total) = {}
    /\ pc = "idle" /\ at >= 0 /\ offset < cap =>
          at \in Terminators(offset) /\ \A j \in Terminators(offset) : at <= j

(* Every call that is not meant to wait for the peer ends, whatever the    *)
(* peer does; only a loop that reads until nothing more comes can be kept  *)
(* going, by a peer that keeps sending: it ends unless more has arrived    *)
(* since (Buffer.cc:70-87).                                                *)
CallEnds ==
    LET loops == {"tillBlock", "tillBlockOrEOF"} IN
    \A n \in 0..MaxFed :
        op \in loops \cup {"append", "read", "write", "writeTillBlock"} /\ fed = n
            ~> op = "none" \/ (op \in loops /\ fed > n)
=============================================================================
