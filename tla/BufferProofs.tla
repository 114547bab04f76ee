---------------------------- MODULE BufferProofs -----------------------------
(* Proofs about the buffer: it stays within its block, whatever the sizes  *)
(* of the block, of the reads and writes and of the strings.               *)
EXTENDS Buffer, SequenceTheorems, TLAPS

\* Which calls can be at which step.
Control ==
    /\ pc = "idle" <=> op = "none"
    /\ pc = "write" <=> op \in Writes
    /\ pc \in {"read", "search"} => op \in Reads
    /\ pc = "append" => op = "append"
    /\ pc \in {"idle", "grow", "append"} => total = 0

\* What the call in progress has checked or made room for.
Lengths ==
    /\ op = "append" => len = Len(str) /\ str \in Strings
    /\ pc = "append" => offset + len <= cap
    /\ pc = "read" => offset + len - total <= cap
    /\ pc = "write" => total + len = step /\ len <= offset - start

\* The block in memory: as long as _cap says, except within resize.
Block ==
    /\ \E m \in Nat : DOMAIN buf = 0..m - 1 /\ offset <= m /\ m <= cap
    /\ pc # "grow" => DOMAIN buf = 0..cap - 1

\* The content, and the zeroes after it.
Bytes ==
    /\ \A i \in DOMAIN buf : i >= offset => buf[i] = Nul
    /\ \A i \in start..offset - 1 : buf[i] \in Byte

Inv ==
    /\ TypeOK
    /\ start <= offset
    /\ Control
    /\ Lengths
    /\ Block
    /\ Bytes

(* The strengthened invariant implies the one the run checks.              *)
LEMMA InvWithin == Inv => WithinBlock
  BY DEF Inv, TypeOK, Lengths, Block, Bytes, WithinBlock

LEMMA InitInv == Init => Inv
  <1> SUFFICES ASSUME Init PROVE Inv
    OBVIOUS
  <1>1. cap \in Nat \ {0}
    BY BufferAssumption DEF Init
  <1>2. TypeOK
    BY <1>1, BufferAssumption DEF Init, TypeOK, Writes, Reads
  <1>3. Control /\ Lengths
    BY DEF Init, Control, Lengths, Writes, Reads
  <1>4. Block
    <2>1. DOMAIN buf = 0..cap - 1 /\ offset <= cap
      BY <1>1 DEF Init
    <2> QED  BY <2>1, <1>1 DEF Block
  <1>5. Bytes
    BY <1>1 DEF Init, Bytes
  <1> QED  BY <1>1, <1>2, <1>3, <1>4, <1>5 DEF Inv, Init

-----------------------------------------------------------------------------
(* The steps that leave the block alone. *)

(* When the block and what describes it do not change, neither does what   *)
(* is known about them.                                                    *)
LEMMA SameBlock ==
    ASSUME Inv, UNCHANGED blockVars, pc # "grow" \/ pc' = "grow"
    PROVE  Block' /\ Bytes' /\ (start <= offset)'
  BY DEF Inv, blockVars, Block, Bytes

(* A call begins with the block as it is and its own length: append and    *)
(* the reads go on to resize, the writes have checked their length.        *)
LEMMA CallInv == ASSUME Inv, Call, ~Clear, ~\E b \in Byte : StripEnd(b) PROVE Inv'
  <1> USE DEF Inv
  <1>1. ASSUME NEW s \in Strings, AppendToBuffer(s) PROVE Inv'
    <2>1. s \in Seq(Byte) /\ Len(s) \in Nat
      BY BufferAssumption
    <2>2. pc = "idle" /\ UNCHANGED <<blockVars, step, total, fdVars, fed>>
          /\ op' = "append" /\ pc' = "grow" /\ str' = s /\ len' = Len(s)
          /\ at' = -1 /\ from' = offset
      BY <1>1 DEF AppendToBuffer, NewCall
    <2>3. TypeOK'
      BY <2>1, <2>2 DEF TypeOK, blockVars, fdVars, Control, Writes
    <2>4. Control' /\ Lengths'
      BY <2>1, <2>2 DEF TypeOK, Control, Lengths, Writes, Reads
    <2> QED  BY <2>2, <2>3, <2>4, SameBlock
  <1>2. ASSUME NEW o \in Reads, NEW s \in Nat \ {0}, CallRead(o, s) PROVE Inv'
    <2>1. pc = "idle" /\ UNCHANGED <<blockVars, str, fdVars, fed>>
          /\ op' = o /\ pc' = "grow" /\ step' = s /\ len' = s /\ total' = 0
          /\ at' = -1 /\ from' = offset
      BY <1>2 DEF CallRead, NewCall, BeginRead
    <2>2. TypeOK'
      BY <2>1 DEF TypeOK, blockVars, fdVars, Reads
    <2>3. Control' /\ Lengths'
      BY <2>1 DEF Control, Lengths, Writes, Reads
    <2> QED  BY <2>1, <2>2, <2>3, SameBlock
  <1>3. ASSUME NEW o \in Writes, NEW s \in Nat \ {0}, CallWrite(o, s) PROVE Inv'
    <2> DEFINE n == Smaller(s, offset - start)
    <2>1. pc = "idle" /\ UNCHANGED <<blockVars, str, fdVars, fed>>
          /\ op' = o /\ pc' = "write" /\ step' = n /\ len' = n /\ total' = 0
          /\ at' = -1 /\ from' = offset
      BY <1>3 DEF CallWrite, NewCall, BeginWrite
    <2>2. n \in Nat /\ n <= offset - start
      BY DEF TypeOK, Smaller
    <2> HIDE DEF n
    <2>3. TypeOK'
      BY SMTT(40), <2>1, <2>2 DEF TypeOK, blockVars, fdVars, Writes
    <2>4. Control' /\ Lengths'
      BY <2>1, <2>2 DEF Control, Lengths, Writes, Reads, blockVars
    <2> QED  BY <2>1, <2>3, <2>4, SameBlock
  <1> QED  BY <1>1, <1>2, <1>3, BufferAssumption DEF Call, Reads, Writes

(* Doubling keeps the old block in place while _cap grows past it.         *)
LEMMA DoubleInv == ASSUME Inv, Double PROVE Inv'
  <1> USE DEF Inv, Double
  <1>1. TypeOK' /\ Control' /\ Bytes' /\ (start <= offset)'
    BY DEF TypeOK, Control, Bytes, callVars, innerVars, fdVars
  <1>2. Lengths' /\ Block'
    BY DEF TypeOK, Lengths, Block, callVars, innerVars
  <1> QED  BY <1>1, <1>2

(* The new block holds the content where it was, and zeroes.               *)
LEMMA ReallocateInv == ASSUME Inv, Reallocate PROVE Inv'
  <1> USE DEF Inv
  <1>1. UNCHANGED <<cap, start, offset, op, step, len, total, str, at, from, fdVars, fed>>
        /\ pc = "grow" /\ cap >= offset + len
        /\ pc' = IF op = "append" THEN "append" ELSE "read"
    BY DEF Reallocate
  <1>2. /\ DOMAIN buf' = 0..cap - 1
        /\ \A i \in DOMAIN buf' : buf'[i] \in Byte \cup {Nul} /\ (i >= offset => buf'[i] = Nul)
        /\ \A i \in start..offset - 1 : buf'[i] \in Byte
        /\ buf' = [i \in DOMAIN buf' |-> buf'[i]]
    <2>1. CASE DOMAIN buf = 0..cap - 1
      BY <2>1 DEF Reallocate, TypeOK, Bytes
    <2>2. CASE DOMAIN buf # 0..cap - 1
      <3>1. buf' = [i \in 0..cap - 1 |-> IF start <= i /\ i < offset THEN buf[i] ELSE Nul]
        BY <2>2 DEF Reallocate, Copied
      <3>2. offset <= cap
        BY <1>1 DEF TypeOK
      <3>3. \A i \in start..offset - 1 : i \in 0..cap - 1 /\ buf'[i] = buf[i]
        BY SMTT(40), <3>1, <3>2 DEF TypeOK
      <3>4. \A i \in 0..cap - 1 : ~(i \in start..offset - 1) => buf'[i] = Nul
        BY <3>1 DEF TypeOK
      <3>5. DOMAIN buf' = 0..cap - 1 /\ buf' = [i \in DOMAIN buf' |-> buf'[i]]
        BY <3>1
      <3>6. \A i \in 0..cap - 1 : buf'[i] \in Byte \cup {Nul}
        BY <3>3, <3>4 DEF Bytes
      <3>7. \A i \in 0..cap - 1 : i >= offset => buf'[i] = Nul
        BY <3>4 DEF TypeOK
      <3> QED  BY <3>3, <3>5, <3>6, <3>7 DEF Bytes
    <2> QED  BY <2>1, <2>2
  <1>3. TypeOK'
    BY <1>1, <1>2 DEF TypeOK, fdVars
  <1>4. op \in Reads \cup {"append"}
    BY <1>1 DEF TypeOK, Control, Writes
  <1>5. Control' /\ Lengths'
    BY <1>1, <1>4 DEF TypeOK, Control, Lengths, Reads, Writes
  <1>6. Block' /\ Bytes' /\ (start <= offset)'
    BY SMTT(40), <1>1, <1>2 DEF TypeOK, Block, Bytes
  <1> QED  BY <1>3, <1>5, <1>6
-----------------------------------------------------------------------------
(* The steps that change the content. *)

(* Storing bytes at _offset, where there is room for them, appends them to *)
(* the content and leaves the rest of the block as it is.                  *)
LEMMA StoredBytes ==
    ASSUME Inv, pc # "grow", NEW s \in Seq(Byte), offset + Len(s) <= cap,
           buf' = Stored(offset, s), offset' = offset + Len(s), UNCHANGED <<cap, start>>
    PROVE  /\ DOMAIN buf' = 0..cap - 1
           /\ buf' \in [DOMAIN buf' -> Byte \cup {Nul}]
           /\ Bytes'
           /\ \A i \in start..offset - 1 : buf'[i] = buf[i]
           /\ \A k \in 1..Len(s) : buf'[offset + k - 1] = s[k]
  <1> USE DEF Inv
  <1>1. DOMAIN buf = 0..cap - 1 /\ cap \in Nat /\ start \in Nat /\ offset \in Nat
        /\ Len(s) \in Nat /\ start <= offset
    BY DEF Block, TypeOK
  <1>2. buf' = [j \in 0..cap - 1 |-> IF j \in offset..offset + Len(s) - 1
                                    THEN s[j - offset + 1] ELSE buf[j]]
    BY <1>1 DEF Stored
  <1>3. DOMAIN buf' = 0..cap - 1
    BY <1>2
  <1>4. \A j \in offset..offset + Len(s) - 1 : buf'[j] = s[j - offset + 1] /\ buf'[j] \in Byte
    <2> TAKE j \in offset..offset + Len(s) - 1
    <2>1. j \in 0..cap - 1 /\ j - offset + 1 \in 1..Len(s)
      BY <1>1
    <2>2. buf'[j] = s[j - offset + 1]
      BY <2>1, <1>2
    <2>3. s[j - offset + 1] \in Byte
      BY <2>1
    <2> QED  BY <2>2, <2>3
  <1>5. \A j \in 0..cap - 1 : j \notin offset..offset + Len(s) - 1 => buf'[j] = buf[j]
    BY <1>2
  <1>6. \A i \in start..offset - 1 : buf'[i] = buf[i]
    BY <1>1, <1>5
  <1>7. \A k \in 1..Len(s) : buf'[offset + k - 1] = s[k]
    <2> TAKE k \in 1..Len(s)
    <2>1. offset + k - 1 \in offset..offset + Len(s) - 1 /\ (offset + k - 1) - offset + 1 = k
      BY <1>1
    <2> QED  BY <2>1, <1>4
  <1>8. \A j \in 0..cap - 1 : buf'[j] \in Byte \cup {Nul}
    BY <1>1, <1>4, <1>5 DEF TypeOK
  <1>9. buf' \in [DOMAIN buf' -> Byte \cup {Nul}]
    BY <1>2, <1>3, <1>8
  <1>10. \A i \in DOMAIN buf' : i >= offset' => buf'[i] = Nul
    <2> SUFFICES ASSUME NEW i \in 0..cap - 1, i >= offset + Len(s) PROVE buf'[i] = Nul
      BY <1>3
    <2>1. i \notin offset..offset + Len(s) - 1 /\ i >= offset
      BY <1>1
    <2> QED  BY <2>1, <1>1, <1>5 DEF Bytes
  <1>11. \A i \in start..offset' - 1 : buf'[i] \in Byte
    <2> SUFFICES ASSUME NEW i \in start..offset + Len(s) - 1 PROVE buf'[i] \in Byte
      BY <1>1
    <2>1. CASE i < offset
      BY <2>1, <1>1, <1>6 DEF Bytes
    <2>2. CASE i >= offset
      BY <2>2, <1>1, <1>4
    <2> QED  BY <2>1, <2>2, <1>1
  <1> QED  BY <1>3, <1>6, <1>7, <1>9, <1>10, <1>11 DEF Bytes

(* resize has made room for the string.                                    *)
LEMMA StoreStringInv == ASSUME Inv, StoreString PROVE Inv'
  <1> USE DEF Inv
  <1>1. /\ pc = "append" /\ UNCHANGED <<cap, start, at, from, fdVars>>
        /\ buf' = Stored(offset, str) /\ offset' = offset + Len(str)
        /\ fed' = fed + Len(str)
        /\ pc' = "idle" /\ op' = "none" /\ step' = 0 /\ len' = 0 /\ total' = 0 /\ str' = <<>>
    BY DEF StoreString, Return
  <1>2. str \in Seq(Byte) /\ Len(str) \in Nat /\ offset + Len(str) <= cap
    BY <1>1 DEF TypeOK, Control, Lengths
  <1>3. DOMAIN buf' = 0..cap - 1 /\ buf' \in [DOMAIN buf' -> Byte \cup {Nul}] /\ Bytes'
    BY <1>1, <1>2, StoredBytes
  <1>4. TypeOK'
    BY <1>1, <1>2, <1>3 DEF TypeOK, fdVars, Writes
  <1>5. Control' /\ Lengths' /\ (start <= offset)'
    BY <1>1, <1>2 DEF TypeOK, Control, Lengths, Writes, Reads
  <1>6. Block'
    BY <1>1, <1>2, <1>3 DEF TypeOK, Block
  <1> QED  BY <1>3, <1>4, <1>5, <1>6

(* clear zeroes the whole block.                                           *)
LEMMA ClearInv == ASSUME Inv, Clear PROVE Inv'
  <1> USE DEF Inv
  <1>1. /\ pc = "idle" /\ UNCHANGED <<cap, innerVars, fdVars, fed>>
        /\ buf' = [i \in DOMAIN buf |-> Nul] /\ start' = 0 /\ offset' = 0
        /\ at' = -1 /\ from' = offset
    BY DEF Clear, NewCall
  <1>2. DOMAIN buf' = 0..cap - 1 /\ \A i \in DOMAIN buf' : buf'[i] = Nul
    BY <1>1 DEF Block
  <1>3. TypeOK'
    BY <1>1, <1>2 DEF TypeOK, innerVars, fdVars
  <1>4. Control' /\ Lengths' /\ (start <= offset)'
    BY <1>1 DEF TypeOK, Control, Lengths, innerVars, Writes, Reads
  <1>5. Block' /\ Bytes'
    BY <1>1, <1>2 DEF TypeOK, Block, Bytes, innerVars
  <1> QED  BY <1>3, <1>4, <1>5

(* stripEnd zeroes what it takes off.                                      *)
LEMMA StripEndInv == ASSUME Inv, NEW b \in Byte, StripEnd(b) PROVE Inv'
  <1> USE DEF Inv
  <1>1. PICK n \in start..offset :
            /\ \A i \in n..offset - 1 : buf[i] = b
            /\ offset' = n
            /\ buf' = [i \in DOMAIN buf |-> IF i < n \/ i >= offset THEN buf[i] ELSE Nul]
    BY DEF StripEnd, Shortened
  <1>2. /\ pc = "idle" /\ UNCHANGED <<cap, start, innerVars, fdVars, fed>>
        /\ at' = -1 /\ from' = offset
    BY DEF StripEnd, NewCall
  <1>3. /\ n \in Nat /\ start <= n /\ n <= offset
        /\ DOMAIN buf = 0..cap - 1 /\ DOMAIN buf' = 0..cap - 1
    BY <1>1, <1>2 DEF TypeOK, Block
  <1>4. \A i \in 0..cap - 1 : i >= n => buf'[i] = Nul
    BY SMTT(40), <1>1, <1>3 DEF TypeOK, Bytes
  <1>5. \A i \in 0..cap - 1 : i < n => buf'[i] = buf[i]
    BY <1>1, <1>3
  <1>6. \A i \in 0..cap - 1 : buf'[i] \in Byte \cup {Nul}
    BY SMTT(40), <1>3, <1>4, <1>5 DEF TypeOK
  <1>7. TypeOK'
    BY <1>1, <1>2, <1>3, <1>6 DEF TypeOK, innerVars, fdVars
  <1>8. Control' /\ Lengths' /\ (start <= offset)'
    BY <1>1, <1>2, <1>3 DEF TypeOK, Control, Lengths, innerVars, Writes, Reads
  <1>9. Block'
    BY SMTT(40), <1>1, <1>2, <1>3 DEF TypeOK, Block, innerVars
  <1>10. \A i \in start..n - 1 : buf'[i] \in Byte
    <2> TAKE i \in start..n - 1
    <2>0. offset \in Nat /\ cap \in Nat /\ start \in Nat /\ offset <= cap
      <3>1. PICK m \in Nat : offset <= m /\ m <= cap
        BY DEF Block
      <3> QED  BY SMTT(40), <1>2, <3>1 DEF TypeOK
    <2>1. i \in 0..cap - 1 /\ i < n /\ i \in start..offset - 1
      BY <2>0, <1>3
    <2> QED  BY <2>1, <1>5 DEF Bytes
  <1> QED  BY <1>1, <1>2, <1>3, <1>4, <1>7, <1>8, <1>9, <1>10 DEF Bytes
-----------------------------------------------------------------------------
(* The loops around read and write. *)

(* After an inner read the call is over, searches for the terminator or    *)
(* begins another one.                                                     *)
LEMMA ReadReturnsControl ==
    ASSUME Inv, pc \in {"read", "search"}, NEW r \in 0..len, ReadReturns(r)
    PROVE  /\ pc' \in {"idle", "grow", "search"} /\ op' \in Reads \cup {"none"}
           /\ pc' = "idle" <=> op' = "none"
           /\ step' \in Nat /\ len' \in Nat /\ total' \in 0..len' /\ str' \in Seq(Byte)
           /\ pc' # "search" => total' = 0
  <1> USE DEF Inv
  <1>1. op \in Reads /\ len \in Nat /\ step \in Nat /\ str \in Seq(Byte)
    BY DEF Control, TypeOK
  <1>2. CASE op = "tillEnd" /\ r > 0
    <2>1. pc' = "search" /\ total' = r /\ UNCHANGED <<op, step, len, str>>
      BY <1>2 DEF ReadReturns
    <2>2. op' \in Reads /\ op' # "none"
      BY <2>1, <1>1 DEF Reads
    <2> QED  BY <1>1, <2>1, <2>2
  <1>3. CASE ~(op = "tillEnd" /\ r > 0) /\ Again(r)
    <2>1. pc' = "grow" /\ len' = step /\ total' = 0 /\ UNCHANGED <<op, step, str>>
      BY <1>3 DEF ReadReturns, BeginRead
    <2>2. op' \in Reads /\ op' # "none"
      BY <2>1, <1>1 DEF Reads
    <2> QED  BY <1>1, <2>1, <2>2
  <1>4. CASE ~(op = "tillEnd" /\ r > 0) /\ ~Again(r)
    <2>1. Return
      BY <1>4 DEF ReadReturns
    <2> QED  BY <2>1 DEF Return
  <1> QED  BY <1>2, <1>3, <1>4

(* What remains to be shown when the control is as ReadReturns leaves it.  *)
LEMMA AfterReadInv ==
    ASSUME Inv,
           pc' \in {"idle", "grow", "search"}, op' \in Reads \cup {"none"},
           pc' = "idle" <=> op' = "none",
           step' \in Nat, len' \in Nat, total' \in 0..len', str' \in Seq(Byte),
           pc' # "search" => total' = 0
    PROVE  Control' /\ Lengths'
  BY DEF Control, Lengths, Reads, Writes

(* A read of at most the length that is left stays within the block.       *)
LEMMA ReadSomeInv == ASSUME Inv, ReadSome PROVE Inv'
  <1> USE DEF Inv
  <1> DEFINE n == Smaller(Len(in), len - total)
             s == SubSeq(in, 1, n)
  <1>1. /\ pc = "read" /\ in # <<>>
        /\ buf' = Stored(offset, s) /\ offset' = offset + n
        /\ in' = SubSeq(in, n + 1, Len(in))
        /\ IF total + n = len THEN ReadReturns(total + n)
           ELSE total' = total + n /\ UNCHANGED <<pc, op, step, len, str>>
        /\ UNCHANGED <<cap, start, at, from, peer, room, out, fed>>
    BY DEF ReadSome, ReadMax
  <1>2. /\ in \in Seq(Byte) /\ Len(in) \in Nat
        /\ op \in Reads /\ len \in Nat /\ total \in 0..len /\ offset + len - total <= cap
        /\ cap \in Nat /\ offset \in Nat /\ start \in Nat /\ start <= offset
    BY <1>1 DEF TypeOK, Control, Lengths, Reads, Writes
  <1>3. n \in 0..Len(in) /\ n <= len - total
    BY <1>2 DEF Smaller
  <1> HIDE DEF n
  <1>4. s \in Seq(Byte) /\ Len(s) = n /\ in' \in Seq(Byte)
    BY <1>1, <1>2, <1>3
  <1> HIDE DEF s
  <1>5. offset + Len(s) <= cap /\ offset' = offset + Len(s)
    BY <1>1, <1>2, <1>3, <1>4
  <1>6. DOMAIN buf' = 0..cap - 1 /\ buf' \in [DOMAIN buf' -> Byte \cup {Nul}] /\ Bytes'
    BY <1>1, <1>4, <1>5, StoredBytes
  <1> HIDE DEF Inv
  <1>7. /\ offset' \in Nat /\ start' <= offset' /\ cap' \in Nat \ {0} /\ start' \in Nat
        /\ offset' <= cap /\ at' \in Int /\ from' \in Nat /\ out' \in Seq(Byte)
        /\ peer' \in {"up", "fin", "rst"} /\ room' \in Nat /\ fed' \in Nat
    <2>1. offset' \in Nat /\ start' <= offset' /\ start' \in Nat /\ offset' <= cap
      BY <1>1, <1>2, <1>3, <1>4, <1>5
    <2>2. TypeOK
      BY DEF Inv
    <2> QED  BY <1>1, <2>1, <2>2 DEF TypeOK
  <1> USE DEF Inv
  <1>8. Block'
    BY <1>1, <1>2, <1>6, <1>7 DEF Block
  <1>9. CASE total + n = len
    <2>1. total + n \in 0..len /\ ReadReturns(total + n)
      BY <1>9, <1>1, <1>2, <1>3
    <2>2. /\ pc' \in {"idle", "grow", "search"} /\ op' \in Reads \cup {"none"}
          /\ pc' = "idle" <=> op' = "none"
          /\ step' \in Nat /\ len' \in Nat /\ total' \in 0..len' /\ str' \in Seq(Byte)
          /\ pc' # "search" => total' = 0
      BY <1>1, <2>1, ReadReturnsControl
    <2>3. Control' /\ Lengths'
      BY <2>2, AfterReadInv
    <2>4. TypeOK'
      BY <1>4, <1>6, <1>7, <2>2 DEF TypeOK, Reads, Writes
    <2> QED  BY <1>6, <1>7, <1>8, <2>3, <2>4
  <1>10. CASE total + n # len
    <2>1. total' = total + n /\ UNCHANGED <<pc, op, step, len, str>>
      BY <1>10, <1>1
    <2>2. total' \in 0..len
      BY <2>1, <1>2, <1>3
    <2>3. Control' /\ Lengths'
      BY SMTT(40), <1>1, <1>2, <1>3, <2>1 DEF TypeOK, Control, Lengths, Reads, Writes
    <2>4. TypeOK'
      BY <1>2, <1>4, <1>6, <1>7, <2>1, <2>2 DEF TypeOK, Reads, Writes
    <2> QED  BY <1>6, <1>7, <1>8, <2>3, <2>4
  <1> QED  BY <1>9, <1>10

(* A read that would block, throws, or is followed by a search changes     *)
(* nothing but the control.                                                *)
LEMMA ReadEndsInv == ASSUME Inv, ReadBlocks \/ ReadThrows \/ Search PROVE Inv'
  <1> USE DEF Inv
  <1>1. /\ pc' \in {"idle", "grow", "search"} /\ op' \in Reads \cup {"none"}
        /\ pc' = "idle" <=> op' = "none"
        /\ step' \in Nat /\ len' \in Nat /\ total' \in 0..len' /\ str' \in Seq(Byte)
        /\ pc' # "search" => total' = 0
    <2>1. CASE ReadBlocks
      <3>1. total \in 0..len /\ pc = "read" /\ ReadReturns(total)
        BY <2>1 DEF ReadBlocks, TypeOK, Control, Reads, Writes
      <3> QED  BY <3>1, ReadReturnsControl
    <2>2. CASE ReadThrows
      BY <2>2 DEF ReadThrows, Return
    <2>3. CASE Search
      <3>1. pc = "search" /\ op \in Reads /\ step \in Nat /\ str \in Seq(Byte)
        BY <2>3 DEF Search, Control, TypeOK
      <3>2. (BeginRead(step) /\ UNCHANGED <<op, step, str>>) \/ Return
        BY <2>3 DEF Search
      <3>3. op # "none"
        BY <3>1 DEF Reads
      <3>4. CASE BeginRead(step) /\ UNCHANGED <<op, step, str>>
        BY <3>1, <3>3, <3>4 DEF BeginRead
      <3>5. CASE Return
        BY <3>5 DEF Return
      <3> QED  BY <3>2, <3>4, <3>5
    <2> QED  BY <2>1, <2>2, <2>3
  <1>2. UNCHANGED <<blockVars, from, fdVars, fed>> /\ pc # "grow"
    BY DEF ReadBlocks, ReadThrows, Search
  <1>3. at' \in Int
    <2>1. CASE ReadBlocks \/ ReadThrows
      BY <2>1 DEF ReadBlocks, ReadThrows, TypeOK
    <2>2. CASE Search
      <3>1. CASE UNCHANGED at
        BY <3>1 DEF TypeOK
      <3>2. CASE ~UNCHANGED at
        <4>1. PICK j \in SearchFrom..offset : at' = j - Len(End) + 1
          BY <2>2, <3>2 DEF Search
        <4>2. SearchFrom \in Int /\ offset \in Int /\ Len(End) \in Nat
          <5>1. offset \in Nat /\ total \in Int /\ Len(End) \in Nat
            BY BufferAssumption DEF TypeOK
          <5> QED  BY ONLY <5>1 DEF SearchFrom, Greater
        <4> QED  BY <4>1, <4>2
      <3> QED  BY <3>1, <3>2
    <2> QED  BY <2>1, <2>2
  <1>4. Control' /\ Lengths'
    BY <1>1, AfterReadInv
  <1>5. TypeOK'
    BY <1>1, <1>2, <1>3 DEF TypeOK, blockVars, fdVars, Reads, Writes
  <1> QED  BY <1>2, <1>4, <1>5, SameBlock

(* After an inner write the call is over, or takes the next piece, which   *)
(* is not longer than what is left of the content.                         *)
LEMMA WriteReturnsControl ==
    ASSUME Inv, pc = "write", NEW r \in Nat, NEW b \in Nat, b <= offset, WriteReturns(r, b)
    PROVE  \/ /\ pc' = "idle" /\ op' = "none" /\ str' = <<>>
              /\ step' = 0 /\ len' = 0 /\ total' = 0
           \/ /\ pc' = "write" /\ op' = op /\ str' = str
              /\ step' \in Nat /\ len' = step' /\ total' = 0
              /\ step' <= offset - b /\ b # offset
  <1>1. offset \in Nat /\ step \in Nat
    BY DEF Inv, TypeOK
  <1>2. CASE op = "write" \/ b = offset \/ (op = "writeTillBlock" /\ r = 0)
    BY <1>2 DEF WriteReturns, Return
  <1>3. CASE ~(op = "write" \/ b = offset \/ (op = "writeTillBlock" /\ r = 0))
    <2> DEFINE n == Smaller(step, offset - b)
    <2>1. n \in Nat /\ n <= offset - b
      BY <1>1 DEF Smaller
    <2>2. pc' = "write" /\ step' = n /\ len' = n /\ total' = 0 /\ UNCHANGED <<op, str>>
      BY <1>3 DEF WriteReturns
    <2> QED  BY <2>1, <2>2, <1>3
  <1> QED  BY <1>2, <1>3

(* What a write leaves: the content from a later index on, or, after the   *)
(* clear of writeNioFromBufferTillEnd, an empty block of zeroes.           *)
LEMMA WriteSomeInv == ASSUME Inv, WriteSome PROVE Inv'
  <1> USE DEF Inv
  <1> DEFINE n == Smaller(len, room)
             cleared == op = "writeTillEnd" /\ start + n = offset
             sent == [i \in 1..n |-> buf[start + i - 1]]
  <1>1. /\ pc = "write" /\ n > 0 /\ out' = out \o sent
        /\ room' = room - n
        /\ start' = IF cleared THEN 0 ELSE start + n
        /\ offset' = IF cleared THEN 0 ELSE offset
        /\ buf' = IF cleared THEN [i \in DOMAIN buf |-> Nul] ELSE buf
        /\ IF n = len THEN WriteReturns(total + n, start + n)
           ELSE len' = len - n /\ total' = total + n /\ UNCHANGED <<pc, op, step, str>>
        /\ UNCHANGED <<cap, at, from, in, peer, fed>>
    BY DEF WriteSome
  <1>2. /\ op \in Writes /\ DOMAIN buf = 0..cap - 1 /\ cap \in Nat \ {0}
        /\ start \in Nat /\ offset \in Nat /\ len \in Nat /\ room \in Nat /\ step \in Nat
        /\ total + len = step /\ len <= offset - start /\ total \in Nat /\ offset <= cap
        /\ str \in Seq(Byte) /\ out \in Seq(Byte)
    BY <1>1 DEF TypeOK, Control, Lengths, Block, Writes
  <1>3. n \in Nat /\ n <= len /\ n <= room /\ start + n <= offset
    BY <1>2 DEF Smaller
  <1> HIDE DEF n, cleared
  <1>4. sent \in Seq(Byte)
    <2>1. \A i \in 1..n : buf[start + i - 1] \in Byte
      BY <1>2, <1>3 DEF Bytes
    <2> QED  BY <2>1, <1>3, IsASeq
  <1>5. out' \in Seq(Byte)
    BY <1>1, <1>2, <1>4
  <1> HIDE DEF sent
  <1>6. /\ start' \in Nat /\ offset' \in Nat /\ start' <= offset' /\ offset' <= cap
        /\ room' \in Nat /\ DOMAIN buf' = 0..cap - 1 /\ cap' = cap
    <2>1. CASE cleared
      BY SMTT(40), <2>1, <1>1, <1>2, <1>3
    <2>2. CASE ~cleared
      <3>1. start' = start + n /\ offset' = offset /\ buf' = buf
        BY <2>2, <1>1
      <3>2. room' = room - n /\ cap' = cap
        BY <1>1
      <3> QED  BY <3>1, <3>2, <1>2, <1>3
    <2> QED  BY <2>1, <2>2
  <1>7. buf' \in [DOMAIN buf' -> Byte \cup {Nul}] /\ Bytes'
    <2>1. CASE cleared
      <3>1. buf' = [i \in DOMAIN buf |-> Nul] /\ start' = 0 /\ offset' = 0
        BY <2>1, <1>1
      <3> QED  BY <3>1 DEF Bytes
    <2>2. CASE ~cleared
      <3>1. start' = start + n /\ offset' = offset /\ buf' = buf
        BY <2>2, <1>1
      <3>2. buf' \in [DOMAIN buf' -> Byte \cup {Nul}]
        BY <3>1 DEF TypeOK
      <3>3. \A i \in start'..offset' - 1 : i \in start..offset - 1
        BY <3>1, <1>2, <1>3
      <3> QED  BY <3>1, <3>2, <3>3 DEF Bytes
    <2> QED  BY <2>1, <2>2
  <1>8. /\ TypeOK'
        /\ Control' /\ Lengths' /\ pc' # "grow"
    <2>0. at' \in Int /\ from' \in Nat /\ in' \in Seq(Byte) /\ fed' \in Nat
          /\ peer' \in {"up", "fin", "rst"} /\ cap' \in Nat \ {0}
      BY <1>1 DEF TypeOK
    <2>1. CASE n = len
      <3>1. \/ /\ pc' = "idle" /\ op' = "none" /\ str' = <<>>
               /\ step' = 0 /\ len' = 0 /\ total' = 0
            \/ /\ pc' = "write" /\ op' = op /\ str' = str
               /\ step' \in Nat /\ len' = step' /\ total' = 0
               /\ step' <= offset - (start + n) /\ start + n # offset
        <4>1. WriteReturns(total + n, start + n) /\ total + n \in Nat /\ start + n \in Nat
          BY SMTT(40), <2>1, <1>1, <1>2, <1>3
        <4> QED  BY <4>1, <1>1, <1>3, WriteReturnsControl
      <3>2. CASE pc' = "idle" /\ op' = "none" /\ str' = <<>>
                 /\ step' = 0 /\ len' = 0 /\ total' = 0
        <4>1. TypeOK'
          BY <3>2, <2>0, <1>5, <1>6, <1>7 DEF TypeOK, Writes
        <4>2. Control' /\ Lengths'
          BY <3>2 DEF Control, Lengths, Writes, Reads
        <4> QED  BY <3>2, <4>1, <4>2
      <3>3. CASE pc' = "write" /\ op' = op /\ str' = str
                 /\ step' \in Nat /\ len' = step' /\ total' = 0
                 /\ step' <= offset - (start + n) /\ start + n # offset
        <4>1. ~cleared /\ start' = start + n /\ offset' = offset
          BY <3>3, <1>1 DEF cleared
        <4>2. TypeOK'
          BY <3>3, <2>0, <1>2, <1>5, <1>6, <1>7 DEF TypeOK, Writes
        <4>3. Control' /\ Lengths'
          <5>1. op' # "append" /\ total' + len' = step' /\ len' <= offset' - start'
            BY SMTT(40), <3>3, <4>1, <1>2, <1>3 DEF Writes
          <5>2. Lengths'
            BY <5>1, <3>3 DEF Lengths
          <5>3. Control'
            BY <3>3, <1>2 DEF Control, Writes
          <5> QED  BY <5>2, <5>3
        <4> QED  BY <3>3, <4>2, <4>3
      <3> QED  BY <3>1, <3>2, <3>3
    <2>2. CASE n # len
      <3>1. len' = len - n /\ total' = total + n /\ UNCHANGED <<pc, op, step, str>>
        BY <2>2, <1>1
      <3>2. start + n # offset
        BY <2>2, <1>2, <1>3
      <3>3. ~cleared /\ start' = start + n /\ offset' = offset
        BY <3>2, <1>1 DEF cleared
      <3>4. len' \in Nat /\ total' \in 0..step /\ total' + len' = step /\ len' <= offset' - start'
        BY <3>1, <3>3, <1>2, <1>3
      <3>5. TypeOK'
        BY <3>1, <3>4, <2>0, <1>2, <1>5, <1>6, <1>7 DEF TypeOK, Writes
      <3>6. Control' /\ Lengths'
        BY <1>1, <1>2, <3>1, <3>4 DEF Control, Lengths, Writes, Reads
      <3> QED  BY <1>1, <3>1, <3>5, <3>6
    <2> QED  BY <2>1, <2>2
  <1>9. Block'
    BY <1>2, <1>6, <1>8 DEF Block
  <1> QED  BY <1>6, <1>7, <1>8, <1>9

(* A write that would block, or throws, changes nothing but the control.   *)
LEMMA WriteEndsInv == ASSUME Inv, WriteBlocks \/ WriteThrows PROVE Inv'
  <1> USE DEF Inv
  <1>1. pc = "write" /\ UNCHANGED <<blockVars, at, from, fdVars, fed>>
    BY DEF WriteBlocks, WriteThrows
  <1>2. op \in Writes /\ total \in Nat /\ start \in Nat /\ start <= offset
    BY <1>1 DEF Control, TypeOK, Writes
  <1>3. \/ /\ pc' = "idle" /\ op' = "none" /\ str' = <<>>
           /\ step' = 0 /\ len' = 0 /\ total' = 0
        \/ /\ pc' = "write" /\ op' = op /\ str' = str
           /\ step' \in Nat /\ len' = step' /\ total' = 0
           /\ step' <= offset - start /\ start # offset
    <2>1. CASE WriteBlocks
      <3>1. WriteReturns(total, start)
        BY <2>1 DEF WriteBlocks
      <3> QED  BY <3>1, <1>1, <1>2, WriteReturnsControl
    <2>2. CASE WriteThrows
      BY <2>2 DEF WriteThrows, Return
    <2> QED  BY <2>1, <2>2
  <1>4. op' \in Writes \cup {"none"} /\ step' \in Nat /\ len' = step' /\ total' = 0
        /\ pc' \in {"idle", "write"} /\ total' + len' = step'
    BY <1>2, <1>3
  <1>5. TypeOK'
    <2>1. CASE str' = str
      BY <1>1, <1>4, <2>1 DEF TypeOK, blockVars, fdVars
    <2>2. CASE str' = <<>>
      BY <1>1, <1>4, <2>2 DEF TypeOK, blockVars, fdVars
    <2> QED  BY <1>3, <2>1, <2>2
  <1>6. Control'
    BY <1>2, <1>3 DEF Control, Writes
  <1>7. op' # "append" /\ (pc' = "write" => len' <= offset' - start')
    BY <1>1, <1>2, <1>3 DEF Writes, blockVars
  <1>8. Lengths'
    BY <1>4, <1>7 DEF Lengths
  <1> QED  BY <1>1, <1>5, <1>6, <1>8, SameBlock

(* The peer touches the descriptor only.                                   *)
LEMMA PeerInv == ASSUME Inv, PeerStep \/ UNCHANGED vars PROVE Inv'
  <1> USE DEF Inv
  <1>1. UNCHANGED <<blockVars, callVars>>
    <2>1. CASE PeerStep
      BY <2>1 DEF PeerStep, PeerSends, PeerTakes, PeerGoes
    <2>2. CASE UNCHANGED vars
      BY <2>2 DEF vars
    <2> QED  BY <2>1, <2>2
  <1>2. in' \in Seq(Byte) /\ out' = out /\ peer' \in {"up", "fin", "rst"}
        /\ room' \in Nat /\ fed' \in Nat
    <2>1. in \in Seq(Byte) /\ peer \in {"up", "fin", "rst"} /\ room \in Nat /\ fed \in Nat
          /\ Room \in Nat
      BY BufferAssumption DEF TypeOK
    <2>2. ASSUME NEW b \in Byte, PeerSends(b)
          PROVE  in' \in Seq(Byte) /\ UNCHANGED <<out, peer, room>> /\ fed' = fed + 1
      BY <2>1, <2>2 DEF PeerSends
    <2>3. CASE PeerTakes \/ PeerGoes
      BY <2>1, <2>3 DEF PeerTakes, PeerGoes
    <2>4. CASE UNCHANGED vars
      BY <2>1, <2>4 DEF vars, fdVars
    <2> QED  BY <2>1, <2>2, <2>3, <2>4 DEF PeerStep
  <1>3. TypeOK'
    BY <1>1, <1>2 DEF TypeOK, blockVars, callVars, innerVars
  <1>4. Control' /\ Lengths'
    BY <1>1 DEF Control, Lengths, blockVars, callVars, innerVars
  <1>5. pc' = pc
    BY <1>1 DEF callVars, innerVars
  <1> QED  BY <1>1, <1>3, <1>4, <1>5, SameBlock
-----------------------------------------------------------------------------
LEMMA StepInv == ASSUME Inv, [Next]_vars PROVE Inv'
  <1>1. CASE Call
    BY <1>1, CallInv, ClearInv, StripEndInv
  <1>2. CASE BufferStep
    BY <1>2, DoubleInv, ReallocateInv, StoreStringInv, ReadSomeInv, ReadEndsInv,
       WriteSomeInv, WriteEndsInv DEF BufferStep
  <1>3. CASE PeerStep \/ UNCHANGED vars
    BY <1>3, PeerInv
  <1> QED  BY <1>1, <1>2, <1>3 DEF Next

(* Buffer.cc never reads or writes outside of its block, keeps what lies   *)
(* after the content zero, and asks write for no more than the content,    *)
(* for every capacity, step and string, and whatever the descriptor does.  *)
THEOREM StaysWithinBlock == Spec => [](TypeOK /\ WithinBlock)
  <1>1. Inv => TypeOK /\ WithinBlock
    BY InvWithin DEF Inv
  <1> QED  BY <1>1, InitInv, StepInv, PTL DEF Spec

(* _cap, _start and _offset and the variables of the calls keep their      *)
(* types: no offset becomes negative, and an inner read or write never     *)
(* does more than it was asked for (Buffer.cc:45-68, 115-131).             *)
THEOREM BufferTypes == Spec => []TypeOK
  <1>1. Inv => TypeOK
    BY DEF Inv
  <1> QED  BY <1>1, InitInv, StepInv, PTL DEF Spec
-----------------------------------------------------------------------------
(* Looking for the terminator. *)

(* The terminator consists of bytes other than zero.                       *)
LEMMA EndBytes ==
    /\ Len(End) \in Nat \ {0}
    /\ \A k \in 1..Len(End) : End[k] \in Byte /\ End[k] # Nul
  BY BufferAssumption

(* Inside of the content, what At reads is what the block holds; and the   *)
(* byte after it is zero unless the block is full.                         *)
LEMMA AtContent ==
    ASSUME Inv, pc # "grow"
    PROVE  /\ \A i \in 0..offset - 1 : At(i) = buf[i]
           /\ offset < cap => At(offset) = Nul
  <1>1. DOMAIN buf = 0..cap - 1 /\ cap \in Nat /\ offset \in Nat /\ offset <= cap
    BY DEF Inv, Block, TypeOK
  <1> QED  BY <1>1 DEF At, Inv, Bytes

(* endsWith is exact.                                                      *)
LEMMA InvEndsWith == ASSUME Inv PROVE EndsWithIsExact
  <1> SUFFICES ASSUME pc = "idle", offset < cap, offset >= Len(End)
               PROVE  EndsWith(End) <=>
                        \A k \in 1..Len(End) : buf[offset - Len(End) + k - 1] = End[k]
    BY DEF EndsWithIsExact
  <1>1. Len(End) \in Nat \ {0} /\ offset \in Nat
    BY EndBytes DEF Inv, TypeOK
  <1>2. \A k \in 1..Len(End) : offset - Len(End) + k - 1 \in 0..offset - 1
    BY <1>1
  <1>3. At(offset) = Nul /\ offset > 0
    BY <1>1, AtContent
  <1>4. \A k \in 1..Len(End) : At(offset - Len(End) + k - 1) = buf[offset - Len(End) + k - 1]
    BY <1>2, AtContent
  <1> QED  BY <1>3, <1>4 DEF EndsWith, Matches

(* endsWith answers exactly whether the content ends with the terminator,  *)
(* for any terminator, capacity and history of calls, as long as one byte  *)
(* of the block is left for the '\0' that strcmp stops at                  *)
(* (Buffer.cc:174-176).                                                    *)
THEOREM EndsWithExact == Spec => []EndsWithIsExact
  <1> QED  BY InvEndsWith, InitInv, StepInv, PTL DEF Spec

(* The invariant behind TillEndMissesNone.  It also holds between a read   *)
(* and the search that follows, for the bytes searched so far; and a       *)
(* result is there only until the next call begins.                        *)
TillInv ==
    /\ pc # "idle" => at = -1
    /\ pc = "search" => op = "tillEnd"
    /\ op = "tillEnd" => from <= offset - total /\ Terminators(offset - total) = {}
    /\ pc = "idle" /\ at >= 0 /\ offset < cap =>
          at \in Terminators(offset) /\ \A j \in Terminators(offset) : at <= j

(* Bytes that were searched hold no terminator later on either, when they  *)
(* stay as they are or become zero.                                        *)
LEMMA StaysWithout ==
    ASSUME NEW n \in Int, Terminators(n) = {}, UNCHANGED from, offset' - total' = n,
           \A i \in 0..n - 1 : buf'[i] = buf[i] \/ buf'[i] = Nul
    PROVE  Terminators(offset - total)' = {}
  <1> SUFFICES ASSUME NEW j \in 0..n - Len(End), j + Len(End) > from,
                      \A k \in 1..Len(End) : buf'[j + k - 1] = End[k]
               PROVE  FALSE
    BY DEF Terminators
  <1>1. \A k \in 1..Len(End) : j + k - 1 \in 0..n - 1
    BY EndBytes
  <1>2. \A k \in 1..Len(End) : buf[j + k - 1] = End[k]
    BY <1>1, EndBytes
  <1> QED  BY <1>2 DEF Terminators

(* A step that is not a search keeps TillInv when it leaves the searched   *)
(* bytes alone, or is the end or the beginning of a call.                  *)
LEMMA KeepsTill ==
    ASSUME Inv, TillInv, UNCHANGED <<at, from>>, pc # "idle", pc' = "search" => op' = "tillEnd",
           op' = "tillEnd" =>
               /\ op = "tillEnd" /\ offset' - total' = offset - total
               /\ \A i \in 0..(offset - total) - 1 : buf'[i] = buf[i] \/ buf'[i] = Nul
    PROVE  TillInv'
  <1>1. at = -1 /\ at' = -1
    BY DEF TillInv
  <1>2. ASSUME op' = "tillEnd"
        PROVE  from' <= offset' - total' /\ Terminators(offset - total)' = {}
    <2>1. offset - total \in Int
      BY <1>2 DEF Inv, TypeOK, Reads, Writes
    <2>2. from <= offset - total /\ Terminators(offset - total) = {}
      BY <1>2 DEF TillInv
    <2> QED  BY <1>2, <2>1, <2>2, StaysWithout
  <1> QED  BY <1>1, <1>2 DEF TillInv

(* A call begins, or the application changes the content itself.           *)
LEMMA CallTill == ASSUME Inv, Call PROVE TillInv'
  <1>1. at' = -1 /\ from' = offset /\ pc' # "search"
    BY DEF Call, AppendToBuffer, CallRead, CallWrite, Clear, StripEnd, NewCall, BeginRead,
           BeginWrite, innerVars
  <1>2. ASSUME op' = "tillEnd"
        PROVE  from' <= offset' - total' /\ Terminators(offset - total)' = {}
    <2>1. offset' = offset /\ total' = 0 /\ offset \in Nat
      <3>1. ~ \E b \in Byte : StripEnd(b)
        BY <1>2 DEF StripEnd, NewCall, innerVars, Inv, Control
      <3>2. ~Clear
        BY <1>2 DEF Clear, NewCall, innerVars, Inv, Control
      <3>3. PICK s \in Steps : CallRead("tillEnd", s)
        BY <1>2, <3>1, <3>2 DEF Call, AppendToBuffer, CallRead, CallWrite
      <3> QED  BY <3>3 DEF CallRead, BeginRead, blockVars, Inv, TypeOK
    <2>2. \A j \in 0..(offset' - total') - Len(End) : ~(j + Len(End) > from')
      BY <1>1, <2>1, EndBytes
    <2> QED  BY <1>1, <2>1, <2>2 DEF Terminators
  <1> QED  BY <1>1, <1>2 DEF TillInv

(* The search itself: where a terminator ends in the bytes of the last     *)
(* read it hits, and in the older bytes there is none; a hit that does not *)
(* reach beyond the content is a terminator.                               *)
LEMMA SearchTill == ASSUME Inv, TillInv, Search PROVE TillInv'
  <1> DEFINE L == Len(End)
             hits == {i - L + 1 : i \in {j \in SearchFrom..offset : Matches(j - L + 1, End)}}
  <1>1. /\ pc = "search" /\ UNCHANGED <<cap, offset, buf, from>>
        /\ hits = {} => BeginRead(step) /\ UNCHANGED <<op, at>>
        /\ hits # {} => Return /\ \E i \in hits : at' = i /\ \A j \in hits : i <= j
    BY DEF Search, blockVars
  <1>2. /\ L \in Nat \ {0} /\ offset \in Nat /\ total \in Nat /\ from \in Nat /\ at = -1
        /\ cap \in Nat
    BY <1>1, EndBytes DEF Inv, TypeOK, TillInv, Control, Reads, Writes
  <1>3. SearchFrom \in Int /\ SearchFrom >= offset - total /\ SearchFrom >= L - 1
        /\ (SearchFrom = offset - total \/ SearchFrom = L - 1)
    BY <1>2 DEF SearchFrom, Greater
  <1>s. ASSUME op = "tillEnd", NEW j \in Terminators(offset) PROVE j \in hits
    <2>1. /\ j \in 0..offset - L /\ j + L > from
          /\ \A k \in 1..L : buf[j + k - 1] = End[k]
      BY <1>s DEF Terminators
    <2>2. CASE j + L <= offset - total
      <3>1. j \in 0..(offset - total) - L
        BY <2>1, <2>2, <1>2
      <3>2. j \in Terminators(offset - total)
        BY <2>1, <3>1 DEF Terminators
      <3> QED  BY <1>s, <3>2 DEF TillInv
    <2>3. CASE j + L > offset - total
      <3> DEFINE i == j + L - 1
      <3>1. i \in SearchFrom..offset /\ i - L + 1 = j
        BY <2>1, <2>3, <1>2, <1>3
      <3>2. \A k \in 1..L : j + k - 1 \in 0..offset - 1
        BY <2>1, <1>2
      <3>3. Matches(j, End)
        BY <2>1, <3>2, <1>1, AtContent DEF Matches
      <3> QED  BY <3>1, <3>3
    <2> QED  BY <2>1, <2>2, <2>3, <1>2
  <1>4. CASE hits = {}
    <2>1. pc' = "grow" /\ total' = 0 /\ UNCHANGED <<op, at>>
      BY <1>1, <1>4 DEF BeginRead
    <2>2. ASSUME op = "tillEnd", NEW j \in Terminators(offset) PROVE FALSE
      BY <1>4, <1>s, <2>2
    <2>3. from <= offset - total => from <= offset
      BY <1>2
    <2>4. offset' - total' = offset
      BY <1>1, <1>2, <2>1
    <2>5. op = "tillEnd" => Terminators(offset) = {}
      BY <2>2
    <2>6. op = "tillEnd" => Terminators(offset - total)' = {}
      BY <1>1, <2>4, <2>5 DEF Terminators
    <2> QED  BY <1>1, <1>2, <2>1, <2>3, <2>4, <2>6 DEF TillInv
  <1>5. CASE hits # {}
    <2>1. pc' = "idle" /\ op' = "none"
      BY <1>1, <1>5 DEF Return
    <2>2. PICK i \in SearchFrom..offset : Matches(i - L + 1, End) /\ at' = i - L + 1
      BY <1>1, <1>5
    <2>3. ASSUME offset < cap PROVE at' \in Terminators(offset)
      <3>1. At(offset) = Nul /\ \A k \in 0..offset - 1 : At(k) = buf[k]
        BY <2>3, <1>1, AtContent
      <3>2. i # offset
        <4>1. L \in 1..L /\ (i - L + 1) + L - 1 = i
          BY <1>2, <1>3
        <4>2. At((i - L + 1) + L - 1) = End[L]
          BY <2>2, <4>1 DEF Matches
        <4>3. At(i) = End[L] /\ End[L] # Nul
          BY <4>1, <4>2, EndBytes
        <4> QED  BY <3>1, <4>3
      <3>3. i - L + 1 \in 0..offset - L /\ (i - L + 1) + L > offset - total
        BY <3>2, <1>2, <1>3
      <3>4. \A k \in 1..L : (i - L + 1) + k - 1 \in 0..offset - 1
        BY <3>3, <1>2
      <3>5. \A k \in 1..L : buf[(i - L + 1) + k - 1] = End[k]
        BY <2>2, <3>1, <3>4 DEF Matches
      <3>6. op = "tillEnd"
        BY <1>1 DEF TillInv
      <3>7. (i - L + 1) + L > from
        BY <1>2, <1>3, <3>3, <3>6 DEF TillInv
      <3> QED  BY <2>2, <3>3, <3>5, <3>7 DEF Terminators
    <2>4. \A j \in Terminators(offset) : at' <= j
      <3>1. \A j \in hits : at' <= j
        BY <1>1, <1>5
      <3>2. op = "tillEnd"
        BY <1>1 DEF TillInv
      <3> QED  BY <1>s, <3>1, <3>2
    <2>5. offset < cap => (at \in Terminators(offset) /\ \A j \in Terminators(offset) : at <= j)'
      BY <1>1, <2>3, <2>4 DEF Terminators
    <2> QED  BY <1>1, <2>1, <2>5 DEF TillInv
  <1> QED  BY <1>4, <1>5

(* The steps within a call other than the search.                          *)
LEMMA WithinCallTill ==
    ASSUME Inv, TillInv, BufferStep, ~Search PROVE TillInv'
  <1>t. offset \in Nat /\ total \in Nat /\ cap \in Nat /\ start \in Nat /\ len \in Nat
        /\ offset <= cap
    BY DEF Inv, TypeOK, Block, Writes, Reads
  <1>1. CASE Double
    BY <1>1, <1>t, KeepsTill DEF Double, callVars, innerVars
  <1>2. CASE Reallocate
    <2>1. /\ UNCHANGED <<offset, total, op, at, from>> /\ pc = "grow"
          /\ pc' # "search" /\ (buf' = buf \/ buf' = Copied)
      BY <1>2 DEF Reallocate
    <2>2. \A i \in 0..(offset - total) - 1 : i \in 0..cap - 1
      BY <1>t
    <2>3. \A i \in 0..(offset - total) - 1 : buf'[i] = buf[i] \/ buf'[i] = Nul
      BY <2>1, <2>2 DEF Copied
    <2> QED  BY <2>1, <2>3, KeepsTill
  <1>3. CASE StoreString \/ ReadThrows \/ WriteThrows
    <2>1. pc # "idle" /\ pc' = "idle" /\ op' = "none" /\ UNCHANGED <<at, from>>
      BY <1>3 DEF StoreString, ReadThrows, WriteThrows, Return
    <2> QED  BY <2>1, KeepsTill
  <1>4. CASE WriteSome \/ WriteBlocks
    <2>1. pc = "write" /\ UNCHANGED <<at, from>>
          /\ (pc' \in {"idle", "write"} /\ (op' = op \/ op' = "none"))
      BY <1>4 DEF WriteSome, WriteBlocks, WriteReturns, Return
    <2>2. op' # "tillEnd"
      BY <2>1 DEF Inv, Control, Writes
    <2> QED  BY <2>1, <2>2, KeepsTill
  <1>5. CASE ReadBlocks
    <2>1. pc = "read" /\ UNCHANGED <<offset, buf, at, from>> /\ ReadReturns(total)
      BY <1>5 DEF ReadBlocks, blockVars
    <2>2. op' = "tillEnd" => op = "tillEnd" /\ total' = total
      BY <2>1, <1>t DEF ReadReturns, BeginRead, Return
    <2>3. pc' = "search" => op' = "tillEnd"
      BY <2>1 DEF ReadReturns, BeginRead, Return
    <2> QED  BY <2>1, <2>2, <2>3, KeepsTill
  <1>6. CASE ReadSome
    <2> DEFINE n == Smaller(Len(in), ReadMax)
               s == SubSeq(in, 1, n)
    <2>1. /\ pc = "read" /\ buf' = Stored(offset, s) /\ offset' = offset + n
          /\ UNCHANGED <<at, from>> /\ in # <<>>
          /\ IF total + n = len THEN ReadReturns(total + n)
             ELSE total' = total + n /\ UNCHANGED <<pc, op>>
      BY <1>6 DEF ReadSome
    <2>2. /\ n \in Nat /\ n <= Len(in) /\ in \in Seq(Byte) /\ Len(in) \in Nat
          /\ offset - total <= offset
      <3>1. in \in Seq(Byte) /\ Len(in) \in Nat /\ total \in 0..len
        BY <2>1 DEF Inv, TypeOK, Control, Reads, Writes
      <3> QED  BY <1>t, <3>1 DEF ReadMax, Smaller
    <2> HIDE DEF n
    <2>3. Len(s) = n
      BY <2>2
    <2> HIDE DEF s
    <2>4. \A i \in 0..(offset - total) - 1 : buf'[i] = buf[i]
      <3>1. DOMAIN buf = 0..cap - 1
        BY <2>1 DEF Inv, Block
      <3>2. \A i \in 0..(offset - total) - 1 :
               i \in 0..cap - 1 /\ i \notin offset..offset + Len(s) - 1
        BY <1>t, <2>2, <2>3
      <3> QED  BY <2>1, <3>1, <3>2 DEF Stored
    <2>5. op' = "tillEnd" => op = "tillEnd" /\ total' = total + n
      <3>1. CASE total + n = len
        BY <3>1, <2>1, <2>2, <1>t DEF ReadReturns, BeginRead, Return
      <3>2. CASE total + n # len
        BY <3>2, <2>1
      <3> QED  BY <3>1, <3>2
    <2>6. pc' = "search" => op' = "tillEnd"
      BY <2>1 DEF ReadReturns, BeginRead, Return
    <2>7. op' = "tillEnd" => offset' - total' = offset - total
      BY <1>t, <2>1, <2>2, <2>5
    <2> QED  BY <2>1, <2>4, <2>5, <2>6, <2>7, KeepsTill
  <1> QED  BY <1>1, <1>2, <1>3, <1>4, <1>5, <1>6 DEF BufferStep

(* All steps.                                                              *)
LEMMA StepTill == ASSUME Inv, TillInv, [Next]_vars PROVE TillInv'
  <1>1. CASE PeerStep \/ UNCHANGED vars
    <2>1. UNCHANGED <<cap, offset, buf, pc, op, total, at, from>>
      BY <1>1 DEF PeerStep, PeerSends, PeerTakes, PeerGoes, vars, blockVars, callVars, innerVars
    <2> QED  BY <2>1 DEF TillInv, Terminators
  <1>2. CASE Call
    BY <1>2, CallTill
  <1>3. CASE BufferStep
    BY <1>3, WithinCallTill, SearchTill
  <1> QED  BY <1>1, <1>2, <1>3 DEF Next

(* readNioToBufferTillEnd misses no terminator, however the reads cut it   *)
(* and whatever the step, the capacity and the terminator are; and what it *)
(* returns is where the first one begins, as long as the block is not full *)
(* (Buffer.cc:89-105).                                                     *)
THEOREM TillEndExact == Spec => []TillEndMissesNone
  <1>1. Init => TillInv
    BY DEF Init, TillInv
  <1>2. TillInv => TillEndMissesNone
    BY DEF TillInv, TillEndMissesNone
  <1> QED  BY <1>1, <1>2, InitInv, StepInv, StepTill, PTL DEF Spec
-----------------------------------------------------------------------------
(* The buffer implements a queue of bytes. *)

ContentIs ==
    /\ Content \in Seq(Byte) /\ Len(Content) = offset - start
    /\ \A i \in 1..offset - start : Content[i] = buf[start + i - 1]

(* The content is a sequence of bytes other than zero.                     *)
LEMMA ContentSeq == Inv => ContentIs
  <1> SUFFICES ASSUME Inv PROVE ContentIs
    OBVIOUS
  <1>1. start \in Nat /\ offset \in Nat /\ start <= offset
    BY DEF Inv, TypeOK
  <1> DEFINE m == offset - start
  <1>2. m \in Nat
    BY <1>1
  <1>3. \A i \in 1..m : buf[start + i - 1] \in Byte
    BY <1>1 DEF Inv, Bytes
  <1>4. [i \in 1..m |-> buf[start + i - 1]] \in Seq(Byte)
    BY <1>2, <1>3, IsASeq
  <1> QED  BY <1>2, <1>4 DEF Content, ContentIs

(* The content stays the same when its bytes and its ends do.              *)
LEMMA SameContent ==
    ASSUME Inv, UNCHANGED <<start, offset>>,
           \A i \in start..offset - 1 : buf'[i] = buf[i]
    PROVE  Content' = Content
  <1>1. start \in Nat /\ offset \in Nat
    BY DEF Inv, TypeOK
  <1>2. \A i \in 1..offset - start : start + i - 1 \in start..offset - 1
    BY <1>1
  <1> QED  BY <1>2 DEF Content

(* Storing a string at _offset appends it to the content.                  *)
LEMMA StoredContent ==
    ASSUME Inv, Inv', pc # "grow", NEW s \in Seq(Byte), offset + Len(s) <= cap,
           buf' = Stored(offset, s), offset' = offset + Len(s), UNCHANGED <<cap, start>>
    PROVE  Content' = Content \o s
  <1>1. /\ \A i \in start..offset - 1 : buf'[i] = buf[i]
        /\ \A k \in 1..Len(s) : buf'[offset + k - 1] = s[k]
    BY StoredBytes
  <1>2. start \in Nat /\ offset \in Nat /\ start <= offset /\ Len(s) \in Nat
    BY DEF Inv, TypeOK
  <1>3. /\ Content \in Seq(Byte) /\ Len(Content) = offset - start
        /\ \A i \in 1..offset - start : Content[i] = buf[start + i - 1]
    BY ContentSeq DEF ContentIs
  <1>4. /\ Content' \in Seq(Byte) /\ Len(Content') = offset' - start'
        /\ \A i \in 1..offset' - start' : Content'[i] = buf'[start' + i - 1]
    <2>1. ContentIs'
      BY ContentSeq, PTL
    <2> QED  BY <2>1 DEF ContentIs
  <1> DEFINE r == Content \o s
  <1>5. /\ r \in Seq(Byte) /\ Len(r) = (offset - start) + Len(s)
        /\ \A i \in 1..(offset - start) + Len(s) :
              r[i] = IF i <= offset - start THEN Content[i] ELSE s[i - (offset - start)]
    <2>1. /\ r \in Seq(Byte) /\ Len(r) = Len(Content) + Len(s)
          /\ \A i \in 1..Len(Content) + Len(s) :
                r[i] = IF i <= Len(Content) THEN Content[i] ELSE s[i - Len(Content)]
      BY ONLY s \in Seq(Byte), <1>3, ConcatProperties
    <2> QED  BY ONLY <2>1, <1>3
  <1> HIDE DEF r
  <1>6. Len(Content') = Len(r)
    BY <1>2, <1>4, <1>5
  <1>7. ASSUME NEW i \in 1..Len(Content') PROVE Content'[i] = r[i]
    <2>1. Content'[i] = buf'[start + i - 1] /\ i \in 1..(offset - start) + Len(s)
      BY <1>2, <1>4
    <2>2. CASE i <= offset - start
      <3>1. start + i - 1 \in start..offset - 1 /\ i \in 1..offset - start
        BY <1>2, <2>1, <2>2
      <3> QED  BY <3>1, <2>1, <2>2, <1>1, <1>3, <1>5
    <2>3. CASE i > offset - start
      <3>1. i - (offset - start) \in 1..Len(s)
            /\ offset + (i - (offset - start)) - 1 = start + i - 1
        BY <1>2, <2>1, <2>3
      <3>2. buf'[start + i - 1] = s[i - (offset - start)]
        BY <3>1, <1>1
      <3>3. ~(i <= offset - start)
        BY <2>3, <1>2
      <3> QED  BY <3>2, <3>3, <2>1, <1>5
    <2> QED  BY <2>2, <2>3, <1>2, <2>1
  <1> QED  BY <1>4, <1>5, <1>6, <1>7, SeqEqual DEF r

(* The steps that change neither the content nor the two streams.          *)
LEMMA StutterQueue ==
    ASSUME Inv, UNCHANGED <<start, offset, in, out>>,
           \A i \in start..offset - 1 : buf'[i] = buf[i]
    PROVE  UNCHANGED Queue!vars
  <1>1. Content' = Content
    BY SameContent
  <1> QED  BY <1>1 DEF Queue!vars

(* append feeds the string to the queue.                                   *)
LEMMA StoreStringFeeds ==
    ASSUME Inv, Inv', StoreString PROVE \E s \in Strings : Queue!Feed(s)
  <1>1. /\ pc = "append" /\ buf' = Stored(offset, str) /\ offset' = offset + Len(str)
        /\ UNCHANGED <<cap, start, in, out>>
    BY DEF StoreString, fdVars
  <1>2. str \in Strings /\ str \in Seq(Byte) /\ offset + Len(str) <= cap
    BY <1>1 DEF Inv, TypeOK, Control, Lengths
  <1>3. Content' = Content \o str
    BY <1>1, <1>2, StoredContent
  <1> QED  BY <1>1, <1>2, <1>3 DEF Queue!Feed

(* A read moves what it got from the front of the stream to the back of    *)
(* the queue.                                                              *)
LEMMA ReadSomeReads ==
    ASSUME Inv, Inv', ReadSome PROVE Queue!Read \/ UNCHANGED Queue!vars
  <1> DEFINE n == Smaller(Len(in), len - total)
             s == SubSeq(in, 1, n)
  <1>1. /\ pc = "read" /\ buf' = Stored(offset, s) /\ offset' = offset + n
        /\ in' = SubSeq(in, n + 1, Len(in)) /\ UNCHANGED <<cap, start, out>>
    BY DEF ReadSome, ReadMax
  <1>2. /\ in \in Seq(Byte) /\ Len(in) \in Nat
        /\ len \in Nat /\ total \in 0..len /\ offset + len - total <= cap
        /\ cap \in Nat /\ offset \in Nat
    BY <1>1 DEF Inv, TypeOK, Control, Lengths, Reads, Writes
  <1>3. n \in 0..Len(in) /\ n <= len - total
    BY <1>2 DEF Smaller
  <1> HIDE DEF n
  <1>4. s \in Seq(Byte) /\ Len(s) = n
    BY <1>2, <1>3
  <1> HIDE DEF s
  <1>5. offset + Len(s) <= cap /\ offset' = offset + Len(s)
    BY <1>1, <1>2, <1>3, <1>4
  <1>6. Content' = Content \o s
    BY <1>1, <1>4, <1>5, StoredContent
  <1>7. CASE n = 0
    <2>1. in' = in
      BY <1>1, <1>2, <1>7
    <2>2. \A i \in start..offset - 1 : buf'[i] = buf[i]
      BY <1>1, <1>4, <1>5, StoredBytes
    <2>3. offset' = offset
      BY <1>1, <1>2, <1>7
    <2> QED  BY <1>1, <2>1, <2>2, <2>3, StutterQueue
  <1>8. CASE n # 0
    <2>1. n \in 1..Len(in)
      BY <1>2, <1>3, <1>8
    <2> QED  BY <1>1, <1>6, <2>1 DEF s, Queue!Read, Queue!Rest, Queue!Prefix
  <1> QED  BY <1>7, <1>8

(* clear empties the queue.                                                *)
LEMMA ClearClears == ASSUME Inv, Clear PROVE Queue!Clear
  <1>1. start' = 0 /\ offset' = 0 /\ UNCHANGED <<in, out>>
    BY DEF Clear, fdVars
  <1>2. Content' = <<>>
    BY <1>1 DEF Content
  <1> QED  BY <1>1, <1>2 DEF Queue!Clear

(* The peer's bytes arrive in the stream.                                  *)
LEMMA PeerArrives == ASSUME Inv, PeerStep PROVE Queue!Arrive \/ UNCHANGED Queue!vars
  <1>1. UNCHANGED <<start, offset, buf, out>>
    BY DEF PeerStep, PeerSends, PeerTakes, PeerGoes, blockVars
  <1>2. Content' = Content
    BY <1>1, SameContent
  <1>3. ASSUME NEW b \in Byte, PeerSends(b) PROVE Queue!Arrive
    BY <1>1, <1>2, <1>3 DEF PeerSends, Queue!Arrive
  <1>4. CASE PeerTakes \/ PeerGoes
    BY <1>1, <1>2, <1>4 DEF PeerTakes, PeerGoes, Queue!vars
  <1> QED  BY <1>3, <1>4 DEF PeerStep

(* What a piece of the content is in the block.                            *)
LEMMA ContentPiece ==
    ASSUME Inv, NEW j \in Nat, NEW k \in j..offset - start
    PROVE  SubSeq(Content, j + 1, k) = [i \in 1..k - j |-> buf[start + j + i - 1]]
  <1> DEFINE p == SubSeq(Content, j + 1, k)
             r == [i \in 1..k - j |-> buf[start + j + i - 1]]
  <1>1. start \in Nat /\ offset \in Nat /\ start <= offset /\ k \in Nat /\ j <= k
        /\ k <= offset - start
    BY DEF Inv, TypeOK
  <1>2. /\ Content \in Seq(Byte) /\ Len(Content) = offset - start
        /\ \A i \in 1..offset - start : Content[i] = buf[start + i - 1]
    BY ContentSeq DEF ContentIs
  <1>3. j + 1 \in 1..Len(Content) + 1 /\ k \in (j + 1) - 1..Len(Content)
    BY <1>1, <1>2
  <1>4. /\ p \in Seq(Byte) /\ Len(p) = k - (j + 1) + 1
        /\ \A i \in 1..k - (j + 1) + 1 : p[i] = Content[(j + 1) + i - 1]
    BY ONLY <1>2, <1>3, SubSeqProperties
  <1>5. \A i \in 1..k - j : buf[start + j + i - 1] \in Byte
    BY <1>1 DEF Inv, Bytes
  <1>6. r \in Seq(Byte) /\ Len(r) = k - j
    BY <1>1, <1>5, IsASeq
  <1>7. ASSUME NEW i \in 1..k - j PROVE p[i] = r[i]
    <2>1. /\ i \in 1..k - (j + 1) + 1 /\ (j + 1) + i - 1 = j + i
          /\ j + i \in 1..offset - start /\ start + (j + i) - 1 = start + j + i - 1
      BY <1>1
    <2>2. p[i] = Content[j + i] /\ Content[j + i] = buf[start + j + i - 1]
      BY <2>1, <1>2, <1>4
    <2> QED  BY <2>2
  <1>8. Len(p) = Len(r) /\ Len(p) = k - j
    BY <1>1, <1>4, <1>6
  <1> HIDE DEF p, r
  <1>9. p = r
    BY <1>4, <1>6, <1>7, <1>8, SeqEqual
  <1> QED  BY <1>9 DEF p, r

(* A write moves what was written from the front of the queue to the back  *)
(* of the outgoing stream; clear() after the last byte takes nothing away. *)
LEMMA WriteSomeWrites == ASSUME Inv, WriteSome PROVE Queue!Write
  <1> DEFINE n == Smaller(len, room)
             m == offset - start
             cleared == op = "writeTillEnd" /\ start + n = offset
             sent == [i \in 1..n |-> buf[start + i - 1]]
  <1>1. /\ pc = "write" /\ n > 0 /\ out' = out \o sent
        /\ start' = IF cleared THEN 0 ELSE start + n
        /\ offset' = IF cleared THEN 0 ELSE offset
        /\ buf' = IF cleared THEN [i \in DOMAIN buf |-> Nul] ELSE buf
        /\ in' = in
    BY DEF WriteSome
  <1>2. /\ start \in Nat /\ offset \in Nat /\ len \in Nat /\ room \in Nat
        /\ len <= m /\ start <= offset
    BY <1>1 DEF Inv, TypeOK, Control, Lengths
  <1>3. n \in 1..m /\ m \in Nat
    <2>1. n > 0 /\ m \in Nat
      BY <1>1, <1>2
    <2>2. n \in Nat /\ n <= len
      BY <1>2 DEF Smaller
    <2> HIDE DEF n
    <2> QED  BY <1>2, <2>1, <2>2
  <1> HIDE DEF n
  <1>4. Len(Content) = m
    BY ContentSeq DEF ContentIs
  <1>5. SubSeq(Content, 1, n) = sent
    <2>1. SubSeq(Content, 0 + 1, n) = [i \in 1..n - 0 |-> buf[start + 0 + i - 1]]
      <3>1. 0 \in Nat /\ n \in 0..offset - start
        BY <1>3
      <3> QED  BY ONLY <3>1, Inv, ContentPiece, Zenon
    <2>2. \A i \in 1..n : start + 0 + i - 1 = start + i - 1
      BY <1>2, <1>3
    <2>3. n - 0 = n /\ 0 + 1 = 1
      BY <1>3
    <2> QED  BY <2>1, <2>2, <2>3
  <1>6. SubSeq(Content, n + 1, m) = [i \in 1..m - n |-> buf[start + n + i - 1]]
    <2>1. n \in Nat /\ m \in n..offset - start
      BY <1>2, <1>3
    <2> QED  BY <2>1, ContentPiece
  <1>7. Content' = SubSeq(Content, n + 1, m)
    <2>1. CASE cleared
      <3>1. start' = 0 /\ offset' = 0 /\ m - n = 0
        BY <2>1, <1>1, <1>2, <1>3
      <3>2. Content' = <<>>
        BY <3>1 DEF Content
      <3>3. SubSeq(Content, n + 1, m) = <<>>
        BY <3>1, <1>3, SubSeqEmpty
      <3> QED  BY <3>2, <3>3
    <2>2. CASE ~cleared
      <3>1. start' = start + n /\ offset' = offset /\ buf' = buf
        BY <2>2, <1>1
      <3>2. Content' = [i \in 1..offset - (start + n) |-> buf[(start + n) + i - 1]]
        BY <3>1 DEF Content
      <3>3. offset - (start + n) = m - n
        BY <1>2, <1>3
      <3> QED  BY <3>2, <3>3, <1>6
    <2> QED  BY <2>1, <2>2
  <1> HIDE DEF m
  <1> QED  BY <1>1, <1>3, <1>4, <1>5, <1>7 DEF Queue!Write, Queue!Rest, Queue!Prefix

(* stripEnd takes the trailing copies of one byte off the queue.           *)
LEMMA StripEndStrips == ASSUME Inv, NEW b \in Byte, StripEnd(b) PROVE Queue!Strip(b)
  <1>1. PICK n \in start..offset :
          /\ \A i \in n..offset - 1 : buf[i] = b
          /\ n > 0 => buf[n - 1] # b
          /\ offset' = n /\ buf' = Shortened(n)
    BY DEF StripEnd
  <1> DEFINE m == n - start
  <1>2. /\ start' = start /\ UNCHANGED <<in, out>> /\ offset \in Nat /\ start \in Nat
        /\ n \in Nat /\ start <= n /\ n <= offset /\ m \in 0..offset - start
    BY <1>1 DEF StripEnd, fdVars, Inv, TypeOK
  <1>3. /\ Len(Content) = offset - start
        /\ \A i \in 1..offset - start : Content[i] = buf[start + i - 1]
    BY <1>2, ContentSeq DEF ContentIs
  <1>4. \A i \in 0..n - 1 : buf'[i] = buf[i]
    <2>1. \A i \in 0..n - 1 : i \in DOMAIN buf
      BY <1>2 DEF Inv, Block
    <2> QED  BY <2>1, <1>1 DEF Shortened
  <1>5. Content' = SubSeq(Content, 1, m)
    <2>1. SubSeq(Content, 0 + 1, m) = [i \in 1..m - 0 |-> buf[start + 0 + i - 1]]
      <3>1. 0 \in Nat /\ m \in 0..offset - start
        BY <1>2
      <3> QED  BY ONLY <3>1, Inv, ContentPiece, Zenon
    <2>2. \A i \in 1..m : start + 0 + i - 1 = start + i - 1 /\ start + i - 1 \in 0..n - 1
      BY <1>2
    <2>3. m - 0 = m /\ 0 + 1 = 1
      BY <1>2
    <2>4. Content' = [i \in 1..m |-> buf'[start + i - 1]]
      BY <1>1, <1>2 DEF Content
    <2>5. Content' = [i \in 1..m |-> buf[start + i - 1]]
      BY ONLY <2>2, <2>4, <1>4
    <2>6. SubSeq(Content, 1, m) = [i \in 1..m |-> buf[start + i - 1]]
      BY ONLY <2>1, <2>2, <2>3
    <2> QED  BY ONLY <2>5, <2>6
  <1>6. \A i \in m + 1..Len(Content) : Content[i] = b
    <2>1. \A i \in m + 1..offset - start : start + i - 1 \in n..offset - 1 /\ i \in 1..offset - start
      BY <1>2
    <2> QED  BY <2>1, <1>1, <1>3
  <1>7. m > 0 => Content[m] # b
    <2>1. m > 0 => m \in 1..offset - start /\ start + m - 1 = n - 1 /\ n > 0
      BY <1>2
    <2> QED  BY <2>1, <1>1, <1>3
  <1> HIDE DEF m
  <1> QED  BY <1>2, <1>3, <1>5, <1>6, <1>7 DEF Queue!Strip, Queue!Prefix
-----------------------------------------------------------------------------
(* Every step of the buffer is a step of the queue, or leaves it alone.    *)
LEMMA StepQueue ==
    ASSUME Inv, Inv', [Next]_vars PROVE [Queue!Next(Strings)]_(Queue!vars)
  <1> USE DEF Queue!Next
  <1>1. CASE Call /\ ~Clear /\ ~\E b \in Byte : StripEnd(b)
    <2>1. UNCHANGED <<start, offset, buf, in, out>>
      BY <1>1 DEF Call, AppendToBuffer, CallRead, CallWrite, blockVars, fdVars
    <2> QED  BY <2>1, StutterQueue
  <1>2. CASE Double
    <2>1. UNCHANGED <<start, offset, buf, in, out>>
      BY <1>2 DEF Double, fdVars
    <2> QED  BY <2>1, StutterQueue
  <1>3. CASE Reallocate
    <2>1. UNCHANGED <<start, offset, in, out>>
          /\ (buf' = buf \/ buf' = Copied)
      BY <1>3 DEF Reallocate, fdVars
    <2>2. \A i \in start..offset - 1 : i \in 0..cap - 1 /\ start <= i /\ i < offset
      <3>1. start \in Nat /\ offset \in Nat /\ cap \in Nat /\ cap >= offset + len /\ len \in Nat
        BY <1>3 DEF Inv, TypeOK, Reallocate
      <3> QED  BY <3>1
    <2>3. \A i \in start..offset - 1 : buf'[i] = buf[i]
      BY <2>1, <2>2 DEF Copied
    <2> QED  BY <2>1, <2>3, StutterQueue
  <1>4. CASE ReadBlocks \/ ReadThrows \/ Search \/ WriteBlocks \/ WriteThrows \/ UNCHANGED vars
    <2>1. UNCHANGED <<start, offset, buf, in, out>>
      BY <1>4 DEF ReadBlocks, ReadThrows, Search, WriteBlocks, WriteThrows, vars, blockVars, fdVars
    <2> QED  BY <2>1, StutterQueue
  <1>5. CASE StoreString
    BY <1>5, StoreStringFeeds
  <1>6. CASE ReadSome
    BY <1>6, ReadSomeReads
  <1>7. CASE WriteSome
    BY <1>7, WriteSomeWrites
  <1>8. CASE Clear
    BY <1>8, ClearClears
  <1>9. CASE \E b \in Byte : StripEnd(b)
    BY <1>9, StripEndStrips
  <1>10. CASE PeerStep
    BY <1>10, PeerArrives
  <1> QED  BY <1>1, <1>2, <1>3, <1>4, <1>5, <1>6, <1>7, <1>8, <1>9, <1>10 DEF Next, BufferStep

(* Buffer.cc implements a queue of bytes: whatever the steps, the sizes    *)
(* and the short reads and writes, bytes leave in the order they entered,  *)
(* each once, and a reallocation or a clear() after the last byte is not   *)
(* seen.                                                                   *)
THEOREM BufferIsQueue == Spec => ImplementsQueue
  <1>1. Init => Queue!Init
    <2> SUFFICES ASSUME Init PROVE Queue!Init
      OBVIOUS
    <2>1. Content = <<>> /\ in = <<>> /\ out = <<>>
      BY DEF Init, Content
    <2> QED  BY <2>1 DEF Queue!Init
  <1>2. Inv /\ Inv' /\ [Next]_vars => [Queue!Next(Strings)]_(Queue!vars)
    BY StepQueue
  <1>3. Inv /\ [Next]_vars => Inv'
    BY StepInv
  <1> QED  BY <1>1, <1>2, <1>3, InitInv, PTL DEF Spec, ImplementsQueue
=============================================================================
