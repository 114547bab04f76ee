-------------------------- MODULE AsyncLoggerProofs --------------------------
(* Proofs about the asynchronous logger, for any number of threads and     *)
(* lines.                                                                  *)
EXTENDS AsyncLogger, SequenceTheorems, TLAPS

(* Types and LineKeepsEntry are inductive together: that END leaves a      *)
(* depth of zero, not a negative one, needs depth = count.                 *)
IInv == TypeOK /\ LineKeepsEntry

(* Appending text to a buffer.                                             *)
LEMMA AppendType ==
    ASSUME TypeOK, NEW t \in Tids, NEW toks \in Seq(Token), Len(toks) > 0,
           appendToBuffer(t, toks)
    PROVE  /\ buf' \in [Tids -> Seq(Token)]
           /\ buf'[t] = buf[t] \o toks
           /\ buf'[t] # <<>>
           /\ \A u \in Tids \ {t} : buf'[u] = buf[u]
<1>1. /\ buf \in [Tids -> Seq(Token)]
      /\ Len(toks) \in Nat
  BY LenProperties DEF TypeOK
<1>2. /\ buf[t] \o toks \in Seq(Token)
      /\ Len(buf[t] \o toks) = Len(buf[t]) + Len(toks)
      /\ Len(buf[t]) \in Nat
  BY <1>1, ConcatProperties, LenProperties
<1>3. buf[t] \o toks # <<>>
  BY <1>1, <1>2
<1> QED BY <1>1, <1>2, <1>3 DEF appendToBuffer

(* Going on with another step.                                             *)
PcType == pc \in [Tids \cup {Backend} -> LoggerPc \cup BackendPc \cup {"dead"}]

(* Moving one thread on leaves every thread at a step it has.              *)
LEMMA GotoType ==
    ASSUME TypeOK, NEW p \in Tids \cup {Backend},
           NEW l \in LoggerPc \cup BackendPc \cup {"dead"}, Goto(p, l)
    PROVE  PcType'
BY DEF Goto, TypeOK, PcType

(* The steps of operator<<.                                                *)
LEMMA LoggerStepIInv ==
    ASSUME IInv, NEW t \in Tids, LoggerStep(t)
    PROVE  IInv'
<1> USE LoggerAssumption DEF entryVars, backendVars, clientVars, LoggerPc, BackendPc
<1>1. CASE Enter(t)
  <2>1. op' \in [Tids -> {"put", "end"}] /\ sent' \in [Tids -> 0..MaxOps]
    BY <1>1 DEF Enter, NextOps, IInv, TypeOK
  <2>2. readers' \in SUBSET (Tids \cup {Backend})
    BY <1>1 DEF Enter, IInv, TypeOK
  <2>3. PcType'
    BY <1>1, GotoType DEF Enter, IInv
  <2> QED BY <1>1, <2>1, <2>2, <2>3 DEF Enter, IInv, TypeOK, PcType, LineKeepsEntry
<1>2. CASE InitBuffer(t)
  <2>1. <<>> \in Seq(Token)
    BY EmptySeq
  <2>2. TypeOK'
    <3>1. PcType'
      BY <1>2, GotoType DEF InitBuffer, IInv
    <3>2. entries' \in SUBSET Tids /\ buf' \in [Tids -> Seq(Token)]
      BY <1>2, <2>1 DEF InitBuffer, IInv, TypeOK
    <3>3. /\ depth' \in [Tids -> Nat]
          /\ count' \in [Tids -> Nat]
          /\ stamp' \in [Tids -> Nat]
      BY <1>2 DEF InitBuffer, IInv, TypeOK
    <3> QED BY <1>2, <3>1, <3>2, <3>3 DEF InitBuffer, IInv, TypeOK, PcType
  <2>3. LineKeepsEntry'
    BY <1>2 DEF InitBuffer, IInv, TypeOK, LineKeepsEntry
  <2> QED BY <2>2, <2>3 DEF IInv
<1>3. CASE Relock(t)
  BY <1>3 DEF Relock, Goto, IInv, TypeOK, LineKeepsEntry
<1>4. CASE NullEntry(t)
  BY <1>4 DEF NullEntry, Crash, IInv, TypeOK, LineKeepsEntry
<1>5. CASE Put(t)
  <2>1. Text(t) \in Seq(Token) /\ Len(Text(t)) > 0
    <3>1. /\ <<"head", "part">> \in Seq(Token) /\ Len(<<"head", "part">>) = 2
          /\ <<"part">> \in Seq(Token) /\ Len(<<"part">>) = 1
      BY DEF Token
    <3> QED BY <3>1 DEF Text
  <2>2. appendToBuffer(t, Text(t))
    BY <1>5 DEF Put
  <2>3. /\ buf' \in [Tids -> Seq(Token)]
        /\ buf'[t] # <<>>
        /\ \A u \in Tids \ {t} : buf'[u] = buf[u]
    BY <2>1, <2>2, AppendType DEF IInv
  <2>4. TypeOK'
    <3>1. PcType'
      BY <1>5, GotoType DEF Put, IInv
    <3>2. /\ depth' \in [Tids -> Nat]
          /\ count' \in [Tids -> Nat]
          /\ readers' \in SUBSET (Tids \cup {Backend})
      <4>1. /\ depth' = [depth EXCEPT ![t] = @ + 1]
            /\ count' = [count EXCEPT ![t] = @ + 1]
            /\ readers' = readers \ {t}
        BY <1>5 DEF Put
      <4> QED BY <4>1 DEF IInv, TypeOK
    <3> QED BY <1>5, <2>3, <3>1, <3>2 DEF Put, IInv, TypeOK, PcType
  <2>5. LineKeepsEntry'
    BY <1>5, <2>3 DEF Put, IInv, TypeOK, LineKeepsEntry
  <2> QED BY <2>4, <2>5 DEF IInv
<1>6. CASE End(t)
  <2>1. <<"end">> \in Seq(Token) /\ Len(<<"end">>) > 0
    BY DEF Token
  <2>2. /\ buf' \in [Tids -> Seq(Token)]
        /\ \A u \in Tids \ {t} : buf'[u] = buf[u]
    BY <1>6, <2>1, AppendType DEF End, IInv
  <2>3. depth' = [depth EXCEPT ![t] = 0]
    <3>1. depth[t] \in Nat /\ count[t] = depth[t]
      BY DEF IInv, TypeOK, LineKeepsEntry
    <3>2. depth[t] + 1 - (count[t] + 1) = 0
      BY <3>1
    <3> QED BY <1>6, <3>2 DEF End, Unlocks
  <2>4. TypeOK'
    <3>1. PcType'
      BY <1>6, GotoType DEF End, IInv
    <3>2. /\ depth' \in [Tids -> Nat]
          /\ count' \in [Tids -> Nat]
          /\ stamp' \in [Tids -> Nat]
          /\ readers' \in SUBSET (Tids \cup {Backend})
      BY <1>6, <2>3 DEF End, IInv, TypeOK
    <3> QED BY <1>6, <2>2, <3>1, <3>2 DEF End, IInv, TypeOK, PcType
  <2>5. LineKeepsEntry'
    BY <1>6, <2>2, <2>3 DEF End, IInv, TypeOK, LineKeepsEntry
  <2> QED BY <2>4, <2>5 DEF IInv
<1>7. CASE NotifyOne(t)
  <2>1. pc' \in [Tids \cup {Backend} -> LoggerPc \cup BackendPc \cup {"dead"}]
    BY <1>7 DEF NotifyOne, Notified, IInv, TypeOK
  <2> QED BY <1>7, <2>1 DEF NotifyOne, IInv, TypeOK, LineKeepsEntry
<1> QED BY <1>1, <1>2, <1>3, <1>4, <1>5, <1>6, <1>7 DEF LoggerStep

(* The steps of the backend thread.                                        *)
LEMMA BackendStepIInv ==
    ASSUME IInv, BackendStep \/ SpuriousWakeup
    PROVE  IInv'
<1> USE LoggerAssumption DEF entryVars, backendVars, clientVars, LoggerPc, BackendPc
<1>1. CASE BeginScan
  BY <1>1 DEF BeginScan, Goto, IInv, TypeOK, LineKeepsEntry
<1>2. ASSUME NEW t \in Tids, VisitEntry(t)
      PROVE  IInv'
  <2>1. CASE buf[t] # <<>>
    <3>1. Labelled(t) \in Seq(Tids \X Token)
      <4>1. buf[t] \in Seq(Token)
        BY DEF IInv, TypeOK
      <4>2. /\ DOMAIN buf[t] = 1..Len(buf[t])
            /\ Len(buf[t]) \in Nat
            /\ \A i \in 1..Len(buf[t]) : buf[t][i] \in Token
        BY <4>1, LenProperties, ElementOfSeq
      <4> QED BY <4>2, IsASeq DEF Labelled
    <3>2. out' \in Seq(Tids \X Token)
      <4>1. out \in Seq(Tids \X Token)
        BY DEF IInv, TypeOK
      <4>2. out \o Labelled(t) \in Seq(Tids \X Token)
        BY <3>1, <4>1, ConcatProperties
      <4> QED BY <1>2, <2>1, <4>2 DEF VisitEntry
    <3>3. <<>> \in Seq(Token)
      BY EmptySeq
    <3>4. TypeOK'
      <4>1. /\ todo' = todo \ {t} /\ buf' = [buf EXCEPT ![t] = <<>>] /\ shall_delay' = FALSE
            /\ UNCHANGED <<remove_list, entries, depth, count, stamp, readers, pc, op, sent,
                           stop, main, now>>
        BY <1>2, <2>1 DEF VisitEntry
      <4>2. TypeOK
        BY DEF IInv
      <4>3. buf' \in [Tids -> Seq(Token)] /\ todo' \in SUBSET Tids /\ shall_delay' \in BOOLEAN
        BY ONLY <3>3, <4>1, <4>2 DEF TypeOK
      <4> QED BY ONLY <3>2, <4>1, <4>2, <4>3 DEF TypeOK
    <3>5. LineKeepsEntry'
      BY <1>2, <2>1 DEF VisitEntry, Unlocked, IInv, TypeOK, LineKeepsEntry
    <3> QED BY <3>4, <3>5 DEF IInv
  <2>2. CASE buf[t] = <<>>
    BY <1>2, <2>2 DEF VisitEntry, IInv, TypeOK, LineKeepsEntry
  <2> QED BY <2>1, <2>2
<1>3. CASE EndScan
  BY <1>3 DEF EndScan, Goto, IInv, TypeOK, LineKeepsEntry
<1>4. CASE RemoveExpired
  <2>1. buf' = buf
    BY <1>4 DEF RemoveExpired, Removable, IInv, TypeOK
  <2>2. TypeOK'
    BY <1>4, <2>1 DEF RemoveExpired, Goto, IInv, TypeOK
  <2>3. LineKeepsEntry'
    BY <1>4, <2>1 DEF RemoveExpired, Removable, IInv, TypeOK, LineKeepsEntry
  <2> QED BY <2>2, <2>3 DEF IInv
<1>5. CASE Recheck
  BY <1>5 DEF Recheck, NoLog, Goto, IInv, TypeOK, LineKeepsEntry
<1>6. CASE CvWait
  BY <1>6 DEF CvWait, Goto, IInv, TypeOK, LineKeepsEntry
<1>7. CASE WakeUp
  BY <1>7 DEF WakeUp, Goto, IInv, TypeOK, LineKeepsEntry
<1>8. CASE SpuriousWakeup
  BY <1>8 DEF SpuriousWakeup, Goto, IInv, TypeOK, LineKeepsEntry
<1> QED BY <1>1, <1>2, <1>3, <1>4, <1>5, <1>6, <1>7, <1>8 DEF BackendStep

(* All steps, with the destructor's and the clock's.                       *)
LEMMA NextIInv ==
    ASSUME IInv, [Next]_vars
    PROVE  IInv'
<1> USE LoggerAssumption DEF entryVars, backendVars, clientVars, LoggerPc, BackendPc
<1>1. CASE MainStep
  <2>1. CASE SetStop
    BY <2>1 DEF SetStop, IInv, TypeOK, LineKeepsEntry
  <2>2. CASE NotifyStop
    BY <2>2 DEF NotifyStop, Notified, Goto, IInv, TypeOK, LineKeepsEntry
  <2>3. CASE Join
    BY <2>3 DEF Join, IInv, TypeOK, LineKeepsEntry
  <2> QED BY <1>1, <2>1, <2>2, <2>3 DEF MainStep
<1>2. CASE Tick
  BY <1>2 DEF Tick, IInv, TypeOK, LineKeepsEntry
<1>3. CASE UNCHANGED vars
  BY <1>3 DEF vars, IInv, TypeOK, LineKeepsEntry
<1> QED BY <1>1, <1>2, <1>3, LoggerStepIInv, BackendStepIInv DEF Next, Terminated

(* A new logger, without entries, is in a state of the invariant.          *)
LEMMA InitIInv ==
    ASSUME Init
    PROVE  IInv
<1>1. <<>> \in Seq(Token) /\ <<>> \in Seq(Tids \X Token)
  BY EmptySeq
<1>2. PcType
  BY DEF Init, PcType, LoggerPc, BackendPc
<1>3. /\ depth = [t \in Tids |-> 0] /\ count = [t \in Tids |-> 0]
      /\ stamp = [t \in Tids |-> 0] /\ sent = [t \in Tids |-> 0] /\ now = 0
  BY DEF Init
<1>4. /\ depth \in [Tids -> Nat] /\ count \in [Tids -> Nat]
      /\ stamp \in [Tids -> Nat] /\ sent \in [Tids -> 0..MaxOps]
      /\ now \in 0..MaxTime
  BY <1>3, LoggerAssumption
<1>5. /\ entries = {} /\ readers = {} /\ todo = {} /\ remove_list = {}
      /\ buf = [t \in Tids |-> <<>>] /\ out = <<>> /\ op = [t \in Tids |-> "put"]
      /\ shall_delay = TRUE /\ stop = FALSE /\ main = "run"
  BY DEF Init
<1>6. /\ entries \in SUBSET Tids /\ readers \in SUBSET (Tids \cup {Backend})
      /\ todo \in SUBSET Tids /\ remove_list \in SUBSET Tids
      /\ buf \in [Tids -> Seq(Token)] /\ out \in Seq(Tids \X Token)
      /\ op \in [Tids -> {"put", "end"}]
      /\ shall_delay \in BOOLEAN /\ stop \in BOOLEAN
      /\ main \in {"run", "notify", "join", "done"}
  BY <1>1, <1>5
<1>7. TypeOK
  BY <1>2, <1>4, <1>6 DEF TypeOK, PcType
<1>8. LineKeepsEntry
  <2> SUFFICES ASSUME NEW t \in Tids
               PROVE  depth[t] = count[t] /\ ~(depth[t] > 0)
    BY DEF LineKeepsEntry
  <2>1. depth[t] = 0 /\ count[t] = 0
    BY <1>3
  <2> QED BY <2>1
<1> QED BY <1>7, <1>8 DEF IInv

(* The invariant holds in every state of the logger.                       *)
LEMMA SpecIInv == Spec => []IInv
BY InitIInv, NextIInv, PTL DEF Spec

(* In the middle of a line a thread's entry stays in the map and keeps its *)
(* text, and END undoes exactly the locks of its line, for any number of   *)
(* threads and lines and any expiry time.                                  *)
THEOREM LineKept == Spec => [](TypeOK /\ LineKeepsEntry)
<1>1. IInv => TypeOK /\ LineKeepsEntry
  BY DEF IInv
<1> QED BY <1>1, SpecIInv, PTL
-----------------------------------------------------------------------------
(* What is in a buffer. *)

\* Tokens in the order of a line: a header at the beginning, and only there.
InOrder(s) ==
    \A i \in 1..Len(s) :
        /\ s[i] = "head" => i = 1 \/ s[i - 1] = "end"
        /\ s[i] = "part" => i > 1 /\ s[i - 1] # "end"

EndsOpen(s) == s # <<>> /\ s[Len(s)] # "end"

\* A thread is in the middle of a line when it holds its lock; an entry that
\* is not in the map has no text.
BufferLines ==
    \A t \in Tids :
        /\ depth[t] > 0 <=> EndsOpen(buf[t])
        /\ t \notin entries => buf[t] = <<>>
        /\ pc[t] = "init" => t \notin entries
        /\ InOrder(buf[t])

(* Adding one token that fits.                                             *)
LEMMA AppendInOrder ==
    ASSUME NEW s \in Seq(Token), InOrder(s), NEW x \in Token,
           x = "head" => ~EndsOpen(s),
           x = "part" => EndsOpen(s)
    PROVE  /\ s \o <<x>> \in Seq(Token)
           /\ InOrder(s \o <<x>>)
           /\ EndsOpen(s \o <<x>>) <=> x # "end"
  <1> DEFINE r == s \o <<x>>
             m == Len(s)
  <1>1. <<x>> \in Seq(Token) /\ Len(<<x>>) = 1 /\ <<x>>[1] = x /\ m \in Nat
    OBVIOUS
  <1>2. /\ r \in Seq(Token) /\ Len(r) = m + 1
        /\ \A i \in 1..m : r[i] = s[i]
        /\ r[m + 1] = x
    <2>1. /\ r \in Seq(Token) /\ Len(r) = Len(s) + Len(<<x>>)
          /\ \A i \in 1..Len(s) + Len(<<x>>) :
                r[i] = IF i <= Len(s) THEN s[i] ELSE <<x>>[i - Len(s)]
      BY ONLY s \in Seq(Token), <1>1, ConcatProperties
    <2>2. r[m + 1] = x
      <3>1. m + 1 \in 1..Len(s) + Len(<<x>>) /\ ~(m + 1 <= Len(s)) /\ m + 1 - Len(s) = 1
        BY <1>1
      <3> QED  BY <3>1, <2>1, <1>1
    <2>3. \A i \in 1..m : i \in 1..Len(s) + Len(<<x>>) /\ i <= Len(s)
      BY <1>1
    <2>4. \A i \in 1..m : r[i] = s[i]
      BY ONLY <2>1, <2>3
    <2> QED  BY ONLY <1>1, <2>1, <2>2, <2>4
  <1>3. /\ x = "head" => m = 0 \/ s[m] = "end"
        /\ x = "part" => m > 0 /\ s[m] # "end"
    BY <1>1, EmptySeq DEF EndsOpen
  <1> HIDE DEF r, m
  <1>4. InOrder(r)
    <2> SUFFICES ASSUME NEW i \in 1..m + 1
                 PROVE  /\ r[i] = "head" => i = 1 \/ r[i - 1] = "end"
                        /\ r[i] = "part" => i > 1 /\ r[i - 1] # "end"
      BY <1>2 DEF InOrder
    <2>1. CASE i = m + 1
      <3>1. m > 0 => r[m] = s[m]
        BY <1>1, <1>2
      <3>2. i - 1 = m /\ (m > 0 => i > 1) /\ (m = 0 => i = 1)
        BY <2>1, <1>1
      <3>3. r[i] = x /\ m = Len(s)
        BY <2>1, <1>2 DEF m
      <3>4. m = 0 \/ m > 0
        BY <1>1
      <3> QED  BY ONLY <1>3, <3>1, <3>2, <3>3, <3>4
    <2>2. CASE i \in 1..m
      <3>1. i = 1 \/ (i > 1 /\ i - 1 \in 1..m)
        BY <1>1, <2>2
      <3>2. r[i] = s[i] /\ (i > 1 => r[i - 1] = s[i - 1])
        BY <1>2, <2>2, <3>1
      <3>3. /\ s[i] = "head" => i = 1 \/ s[i - 1] = "end"
            /\ s[i] = "part" => i > 1 /\ s[i - 1] # "end"
        BY <2>2 DEF InOrder, m
      <3> QED  BY ONLY <3>1, <3>2, <3>3
    <2> QED  BY <1>1, <2>1, <2>2
  <1>5. EndsOpen(r) <=> x # "end"
    <2>1. r # <<>>
      BY <1>1, <1>2
    <2> QED  BY <1>2, <2>1 DEF EndsOpen
  <1> QED  BY <1>2, <1>4, <1>5 DEF r

(* The text of a part: with a header in front of it at the beginning of a  *)
(* line.                                                                   *)
LEMMA TextInOrder ==
    ASSUME IInv, BufferLines, NEW t \in Tids
    PROVE  /\ InOrder(buf[t] \o Text(t)) /\ EndsOpen(buf[t] \o Text(t))
           /\ Text(t) = IF EndsOpen(buf[t]) THEN <<"part">> ELSE <<"head", "part">>
  <1>1. /\ buf[t] \in Seq(Token) /\ InOrder(buf[t]) /\ depth[t] \in Nat
        /\ count[t] = depth[t] /\ (depth[t] > 0 <=> EndsOpen(buf[t]))
    BY DEF IInv, TypeOK, LineKeepsEntry, BufferLines
  <1>2. "head" \in Token /\ "part" \in Token
    BY DEF Token
  <1>3. CASE count[t] = 0
    <2>1. ~EndsOpen(buf[t]) /\ Text(t) = <<"head", "part">>
      BY <1>1, <1>3 DEF Text
    <2> DEFINE s == buf[t] \o <<"head">>
    <2>2. s \in Seq(Token) /\ InOrder(s) /\ EndsOpen(s)
      BY <1>1, <1>2, <2>1, AppendInOrder
    <2> HIDE DEF s
    <2>3. InOrder(s \o <<"part">>) /\ EndsOpen(s \o <<"part">>)
      BY <1>2, <2>2, AppendInOrder
    <2>4. s \o <<"part">> = buf[t] \o <<"head", "part">>
      <3>1. <<"head">> \in Seq(Token) /\ <<"part">> \in Seq(Token)
            /\ <<"head">> \o <<"part">> = <<"head", "part">>
        <4>2. <<"head">> \in Seq(Token) /\ <<"part">> \in Seq(Token)
          BY <1>2
        <4>1. <<"head">> \o <<"part">> = <<"head", "part">>
          <5> DEFINE h == <<"head">>
                     q == <<"part">>
                     r == <<"head", "part">>
          <5>1. h \in Seq(Token) /\ q \in Seq(Token) /\ Len(h) = 1 /\ Len(q) = 1
                /\ h[1] = "head" /\ q[1] = "part"
            BY <4>2
          <5>2. r \in Seq(Token) /\ Len(r) = 2 /\ r[1] = "head" /\ r[2] = "part"
            BY <1>2
          <5> HIDE DEF h, q, r
          <5>3. /\ h \o q \in Seq(Token) /\ Len(h \o q) = Len(h) + Len(q)
                /\ \A i \in 1..Len(h) + Len(q) :
                      (h \o q)[i] = IF i <= Len(h) THEN h[i] ELSE q[i - Len(h)]
            BY ONLY <5>1, ConcatProperties
          <5>4. Len(h \o q) = Len(r) /\ \A i \in 1..Len(h \o q) : (h \o q)[i] = r[i]
            BY ONLY <5>1, <5>2, <5>3
          <5>5. h \o q = r
            BY ONLY <5>2, <5>3, <5>4, SeqEqual
          <5> QED  BY <5>5 DEF h, q, r
        <4> QED  BY <4>1, <4>2
      <3> QED  BY <1>1, <3>1, ConcatAssociative DEF s
    <2> QED  BY <2>1, <2>3, <2>4
  <1>4. CASE count[t] # 0
    <2>1. EndsOpen(buf[t]) /\ Text(t) = <<"part">>
      BY <1>1, <1>4 DEF Text
    <2>2. InOrder(buf[t] \o <<"part">>) /\ EndsOpen(buf[t] \o <<"part">>)
      BY <1>1, <1>2, <2>1, AppendInOrder
    <2> QED  BY <2>1, <2>2
  <1> QED  BY <1>3, <1>4

LEMMA EmptyInOrder == InOrder(<<>>) /\ ~EndsOpen(<<>>)
  BY DEF InOrder, EndsOpen

(* The steps of operator<<.                                                *)
LEMMA LoggerStepLines ==
    ASSUME IInv, IInv', BufferLines, NEW t \in Tids, LoggerStep(t)
    PROVE  BufferLines'
  <1> USE DEF entryVars, Goto
  <1>0. pc \in [Tids \cup {Backend} -> LoggerPc \cup BackendPc \cup {"dead"}]
        /\ Backend \notin Tids /\ buf \in [Tids -> Seq(Token)] /\ depth \in [Tids -> Nat]
    BY LoggerAssumption DEF IInv, TypeOK
  <1>1. CASE Enter(t)
    BY <1>0, <1>1 DEF Enter, BufferLines
  <1>2. CASE InitBuffer(t)
    <2>1. /\ entries' = entries \cup {t}
          /\ buf' = [buf EXCEPT ![t] = <<>>] /\ depth' = [depth EXCEPT ![t] = 0]
          /\ pc' = [pc EXCEPT ![t] = "relock"]
      BY <1>2 DEF InitBuffer
    <2>2. buf'[t] = <<>> /\ depth'[t] = 0 /\ t \in entries' /\ pc'[t] = "relock"
          /\ \A u \in Tids \ {t} : buf'[u] = buf[u] /\ depth'[u] = depth[u] /\ pc'[u] = pc[u]
                                   /\ (u \in entries' <=> u \in entries)
      BY ONLY <1>0, <2>1, t \in Tids
    <2> QED  BY <2>2, EmptyInOrder DEF BufferLines
  <1>3. CASE Relock(t)
    BY <1>0, <1>3 DEF Relock, BufferLines
  <1>4. CASE NullEntry(t)
    BY <1>0, <1>4 DEF NullEntry, Crash, BufferLines
  <1>5. CASE Put(t)
    <2>1. InOrder(buf[t] \o Text(t)) /\ EndsOpen(buf[t] \o Text(t))
      BY TextInOrder
    <2>2. /\ t \in entries /\ entries' = entries
          /\ buf' = [buf EXCEPT ![t] = @ \o Text(t)]
          /\ depth' = [depth EXCEPT ![t] = @ + 1]
          /\ pc' = [pc EXCEPT ![t] = "idle"]
      BY <1>5 DEF Put, appendToBuffer
    <2>3. buf'[t] = buf[t] \o Text(t) /\ depth'[t] > 0 /\ pc'[t] = "idle"
          /\ \A u \in Tids \ {t} : buf'[u] = buf[u] /\ depth'[u] = depth[u] /\ pc'[u] = pc[u]
      BY ONLY <1>0, <2>2, t \in Tids
    <2> QED  BY <2>1, <2>2, <2>3 DEF BufferLines
  <1>6. CASE End(t)
    <2>1. InOrder(buf[t] \o <<"end">>) /\ ~EndsOpen(buf[t] \o <<"end">>)
      <3>1. buf[t] \in Seq(Token) /\ InOrder(buf[t]) /\ "end" \in Token
        BY DEF IInv, TypeOK, BufferLines, Token
      <3> QED  BY <3>1, AppendInOrder
    <2>2. /\ t \in entries /\ entries' = entries
          /\ buf' = [buf EXCEPT ![t] = @ \o <<"end">>]
          /\ depth' = [depth EXCEPT ![t] = @ + 1 - Unlocks(t)]
          /\ pc' = [pc EXCEPT ![t] = "notify"]
      BY <1>6 DEF End, appendToBuffer
    <2>3. depth'[t] = 0
      <3>1. depth[t] \in Nat /\ count[t] = depth[t] /\ t \in DOMAIN depth
        BY DEF IInv, TypeOK, LineKeepsEntry
      <3> QED  BY <3>1, <2>2 DEF Unlocks
    <2>4. buf'[t] = buf[t] \o <<"end">> /\ pc'[t] = "notify"
          /\ \A u \in Tids \ {t} : buf'[u] = buf[u] /\ depth'[u] = depth[u] /\ pc'[u] = pc[u]
      BY ONLY <1>0, <2>2, t \in Tids
    <2> QED  BY <2>1, <2>2, <2>3, <2>4 DEF BufferLines
  <1>7. CASE NotifyOne(t)
    BY <1>0, <1>7 DEF NotifyOne, BufferLines
  <1> QED  BY <1>1, <1>2, <1>3, <1>4, <1>5, <1>6, <1>7 DEF LoggerStep

(* The other steps.                                                        *)
LEMMA NextLines ==
    ASSUME IInv, IInv', BufferLines, [Next]_vars
    PROVE  BufferLines'
  <1> USE DEF entryVars, Goto
  <1>0. pc \in [Tids \cup {Backend} -> LoggerPc \cup BackendPc \cup {"dead"}]
        /\ Backend \notin Tids /\ buf \in [Tids -> Seq(Token)] /\ depth \in [Tids -> Nat]
    BY LoggerAssumption DEF IInv, TypeOK
  <1>1. ASSUME NEW t \in Tids, VisitEntry(t) PROVE BufferLines'
    <2>1. /\ depth[t] = 0 /\ UNCHANGED <<depth, entries, pc>>
          /\ (buf' = [buf EXCEPT ![t] = <<>>] \/ buf' = buf)
      BY <1>1 DEF VisitEntry, Unlocked
    <2>2. CASE buf' = buf
      BY <2>1, <2>2 DEF BufferLines
    <2>3. CASE buf' = [buf EXCEPT ![t] = <<>>]
      <3>1. buf'[t] = <<>> /\ \A u \in Tids \ {t} : buf'[u] = buf[u]
        BY <2>3 DEF IInv, TypeOK
      <3> QED  BY <2>1, <3>1, EmptyInOrder DEF BufferLines
    <2> QED  BY <2>1, <2>2, <2>3
  <1>2. CASE RemoveExpired
    <2>1. buf' = buf /\ UNCHANGED depth /\ entries' \subseteq entries
          /\ \A u \in Tids : pc'[u] = pc[u]
      BY <1>0, <1>2 DEF RemoveExpired, Removable, IInv, TypeOK
    <2>2. \A u \in entries : u \notin entries' => buf[u] = <<>>
      BY <1>2 DEF RemoveExpired, Removable
    <2> QED  BY <2>1, <2>2 DEF BufferLines
  <1>3. CASE BeginScan \/ EndScan \/ Recheck \/ CvWait \/ WakeUp \/ SpuriousWakeup \/ NotifyStop
    <2>1. UNCHANGED <<buf, depth, entries>> /\ \A u \in Tids : pc'[u] = pc[u]
      BY <1>0, <1>3 DEF BeginScan, EndScan, Recheck, CvWait, WakeUp, SpuriousWakeup, NotifyStop
    <2> QED  BY <2>1 DEF BufferLines
  <1>4. CASE SetStop \/ Join \/ Tick \/ UNCHANGED vars
    <2>1. UNCHANGED <<buf, depth, entries, pc>>
      BY <1>4 DEF SetStop, Join, Tick, vars
    <2> QED  BY <2>1 DEF BufferLines
  <1> QED  BY <1>1, <1>2, <1>3, <1>4, LoggerStepLines
           DEF Next, BackendStep, MainStep, Terminated
-----------------------------------------------------------------------------
(* The output. *)

(* Appending the whole lines of one thread to the output.                  *)
LEMMA FlushWhole ==
    ASSUME IInv, BufferLines, WholeLines, NEW t \in Tids, ~EndsOpen(buf[t]),
           out' = out \o Labelled(t)
    PROVE  WholeLines'
  <1> DEFINE b == buf[t]
             m == Len(out)
             k == Len(b)
  <1>1. /\ out \in Seq(Tids \X Token) /\ b \in Seq(Token) /\ m \in Nat /\ k \in Nat
        /\ InOrder(b) /\ DOMAIN b = 1..k /\ DOMAIN out = 1..m
    BY DEF IInv, TypeOK, BufferLines
  <1>2. k > 0 => b[k] = "end"
    BY <1>1, EmptySeq DEF EndsOpen
  <1>3. m > 0 => out[m][2] = "end"
    <2> SUFFICES ASSUME m > 0, out[m][2] # "end" PROVE FALSE
      OBVIOUS
    <2>1. m \in DOMAIN out
      BY <1>1
    <2>2. m < Len(out)
      BY <2>1 DEF WholeLines
    <2> QED  BY <1>1, <2>2
  <1>4. /\ Labelled(t) \in Seq(Tids \X Token) /\ Len(Labelled(t)) = k
        /\ \A j \in 1..k : Labelled(t)[j] = <<t, b[j]>>
    <2>1. \A j \in 1..k : b[j] \in Token
      BY <1>1
    <2>2. Labelled(t) = [j \in 1..k |-> <<t, b[j]>>]
      BY <1>1 DEF Labelled
    <2>3. \A j \in 1..k : <<t, b[j]>> \in Tids \X Token
      BY <2>1
    <2>4. [j \in 1..k |-> <<t, b[j]>>] \in Seq(Tids \X Token)
      BY <1>1, <2>3, IsASeq
    <2> QED  BY <1>1, <2>2, <2>4
  <1>5. /\ Len(out') = m + k /\ DOMAIN out' = 1..m + k
        /\ \A i \in 1..m : out'[i] = out[i]
        /\ \A j \in 1..k : out'[m + j] = <<t, b[j]>>
    <2> DEFINE l == Labelled(t)
    <2> HIDE DEF l
    <2>1. l \in Seq(Tids \X Token) /\ Len(l) = k /\ \A j \in 1..k : l[j] = <<t, b[j]>>
      BY <1>4 DEF l
    <2>2. out' = out \o l
      BY DEF l
    <2>3. /\ out \o l \in Seq(Tids \X Token) /\ Len(out \o l) = Len(out) + Len(l)
          /\ \A i \in 1..Len(out) + Len(l) :
                (out \o l)[i] = IF i <= Len(out) THEN out[i] ELSE l[i - Len(out)]
      <3>1. out \in Seq(Tids \X Token) /\ l \in Seq(Tids \X Token)
        BY ONLY <1>1, <2>1
      <3> QED  BY ONLY <3>1, ConcatProperties
    <2>4. out' \in Seq(Tids \X Token) /\ Len(out') = m + k
          /\ \A i \in 1..m + k : out'[i] = IF i <= m THEN out[i] ELSE l[i - m]
      BY ONLY <2>1, <2>2, <2>3
    <2>5. \A i \in 1..m : i \in 1..m + k /\ i <= m
      BY <1>1
    <2>6. \A j \in 1..k : m + j \in 1..m + k /\ ~(m + j <= m) /\ m + j - m = j
      BY <1>1
    <2>7. DOMAIN out' = 1..m + k
      BY <2>4
    <2>8. \A i \in 1..m : out'[i] = out[i]
      BY ONLY <2>4, <2>5
    <2>9. \A j \in 1..k : out'[m + j] = <<t, b[j]>>
      BY ONLY <2>1, <2>4, <2>6
    <2> QED  BY <2>4, <2>7, <2>8, <2>9
  <1> HIDE DEF b, m, k
  <1>6. ASSUME NEW i \in 1..m
        PROVE  LET first == i = 1 \/ out'[i - 1][2] = "end" IN
               /\ out'[i][2] # "end" => /\ i < Len(out')
                                        /\ out'[i + 1][1] = out'[i][1]
               /\ out'[i][2] = "head" => first
               /\ out'[i][2] = "part" => ~first
    <2>1. LET first == i = 1 \/ out[i - 1][2] = "end" IN
          /\ out[i][2] # "end" => i < m /\ out[i + 1][1] = out[i][1]
          /\ out[i][2] = "head" => first
          /\ out[i][2] = "part" => ~first
      BY <1>1, <1>6 DEF WholeLines, m
    <2>2. out'[i] = out[i] /\ (i < m => out'[i + 1] = out[i + 1])
          /\ (i # 1 => out'[i - 1] = out[i - 1]) /\ (i < m => i < Len(out'))
      <3>1. (i < m => i + 1 \in 1..m) /\ (i # 1 => i - 1 \in 1..m) /\ (i < m => i < m + k)
        BY <1>1
      <3> QED  BY <3>1, <1>5
    <2> QED  BY ONLY <2>1, <2>2
  <1>7. ASSUME NEW j \in 1..k
        PROVE  LET i == m + j
                   first == i = 1 \/ out'[i - 1][2] = "end" IN
               /\ out'[i][2] # "end" => /\ i < Len(out')
                                        /\ out'[i + 1][1] = out'[i][1]
               /\ out'[i][2] = "head" => first
               /\ out'[i][2] = "part" => ~first
    <2>0. out'[m + j] = <<t, b[j]>>
      BY ONLY <1>5, j \in 1..k
    <2>1. out'[m + j] = <<t, b[j]>> /\ out'[m + j][1] = t /\ out'[m + j][2] = b[j]
      BY ONLY <2>0
    <2>2. /\ b[j] = "head" => j = 1 \/ b[j - 1] = "end"
          /\ b[j] = "part" => j > 1 /\ b[j - 1] # "end"
      BY <1>1 DEF InOrder, k
    <2>3. b[j] # "end" => m + j < Len(out') /\ out'[m + j + 1][1] = t
      <3> SUFFICES ASSUME b[j] # "end" PROVE m + j < Len(out') /\ out'[m + j + 1][1] = t
        OBVIOUS
      <3>1. j # k /\ k > 0
        BY <1>1, <1>2
      <3>2. j + 1 \in 1..k /\ m + j < m + k /\ m + (j + 1) = m + j + 1
        BY <1>1, <3>1
      <3>3. out'[m + (j + 1)] = <<t, b[j + 1]>>
        BY <1>5, <3>2
      <3>4. out'[m + j + 1] = <<t, b[j + 1]>> /\ m + j < Len(out')
        BY <3>2, <3>3, <1>5
      <3> QED  BY ONLY <3>4
    <2>4. CASE j = 1
      <3>1. m = 0 \/ (m > 0 /\ m \in 1..m)
        BY <1>1
      <3>2. (m + j) - 1 = m /\ (m = 0 => m + j = 1) /\ ~(j > 1)
        BY <1>1, <2>4
      <3>3. m > 0 => out'[(m + j) - 1][2] = "end"
        <4>1. m > 0 => m \in 1..m
          BY <3>1, <1>1
        <4>2. m > 0 => out'[m] = out[m]
          BY ONLY <4>1, <1>5
        <4> QED  BY ONLY <4>2, <1>3, <3>2
      <3> QED  BY ONLY <2>1, <2>2, <2>3, <2>4, <3>1, <3>2, <3>3
    <2>5. CASE j # 1
      <3>1. j - 1 \in 1..k /\ m + (j - 1) = (m + j) - 1 /\ m + j # 1
        BY <1>1, <2>5
      <3>2. out'[m + (j - 1)] = <<t, b[j - 1]>>
        BY <1>5, <3>1
      <3>3. out'[(m + j) - 1][2] = b[j - 1]
        <4>1. out'[(m + j) - 1] = <<t, b[j - 1]>>
          BY <3>1, <3>2
        <4> QED  BY ONLY <4>1
      <3>4. m + j # 1
        BY <3>1
      <3> QED  BY ONLY <2>1, <2>2, <2>3, <2>5, <3>3, <3>4, Zenon
    <2> QED  BY <2>4, <2>5
  <1>8. \A i \in DOMAIN out' : i \in 1..m \/ \E j \in 1..k : i = m + j
    <2> SUFFICES ASSUME NEW i \in 1..m + k, ~(i \in 1..m) PROVE \E j \in 1..k : i = m + j
      BY <1>5
    <2>1. i - m \in 1..k /\ i = m + (i - m)
      BY <1>1
    <2> QED  BY <2>1
  <1>9. ASSUME NEW i \in DOMAIN out'
        PROVE  LET first == i = 1 \/ out'[i - 1][2] = "end" IN
               /\ out'[i][2] # "end" => /\ i < Len(out')
                                        /\ out'[i + 1][1] = out'[i][1]
               /\ out'[i][2] = "head" => first
               /\ out'[i][2] = "part" => ~first
    <2>1. CASE i \in 1..m
      BY ONLY <1>6, <2>1, Zenon
    <2>2. CASE \E j \in 1..k : i = m + j
      <3>1. PICK j \in 1..k : i = m + j
        BY <2>2
      <3> QED  BY ONLY <1>7, <3>1, Zenon
    <2> QED  BY <1>8, <2>1, <2>2
  <1> QED  BY ONLY <1>9, Zenon DEF WholeLines
-----------------------------------------------------------------------------
(* The logger implements a log of lines. *)

OpenSame == \A t \in Tids : Lines!Open(t) <=> EndsOpen(buf[t])

LEMMA SameOpen == OpenSame
  BY DEF OpenSame, Lines!Open, EndsOpen

(* A step of the logger adds a part or an end to a line, moves whole lines *)
(* to the output, or is not seen.                                          *)
LEMMA NextLineLog ==
    ASSUME IInv, BufferLines, [Next]_vars
    PROVE  [Lines!Next]_(Lines!vars)
  <1> USE DEF entryVars, Lines!vars
  <1>1. ASSUME NEW t \in Tids, Put(t) PROVE Lines!Part(t)
    <2>1. buf' = [buf EXCEPT ![t] = @ \o Text(t)] /\ out' = out
      BY <1>1 DEF Put, appendToBuffer
    <2>2. Text(t) = IF Lines!Open(t) THEN <<"part">> ELSE <<"head", "part">>
      BY TextInOrder, SameOpen DEF OpenSame
    <2> QED  BY <2>1, <2>2 DEF Lines!Part, Lines!Add
  <1>2. ASSUME NEW t \in Tids, End(t) PROVE Lines!EndLine(t)
    <2>1. buf' = [buf EXCEPT ![t] = @ \o <<"end">>] /\ out' = out
      BY <1>2 DEF End, appendToBuffer
    <2> QED  BY <2>1 DEF Lines!EndLine, Lines!Add
  <1>3. ASSUME NEW t \in Tids, VisitEntry(t) PROVE Lines!Flush(t) \/ UNCHANGED Lines!vars
    <2>1. CASE buf[t] = <<>>
      BY <1>3, <2>1 DEF VisitEntry
    <2>2. CASE buf[t] # <<>>
      <3>1. ~Lines!Open(t)
        <4>1. ~(depth[t] > 0)
          BY <1>3 DEF VisitEntry, Unlocked
        <4> QED  BY <4>1, SameOpen DEF OpenSame, BufferLines
      <3>2. out' = out \o Labelled(t) /\ buf' = [buf EXCEPT ![t] = <<>>]
        BY <1>3, <2>2 DEF VisitEntry
      <3> QED  BY <3>1, <3>2 DEF Lines!Flush, Labelled
    <2> QED  BY <2>1, <2>2
  <1>4. ASSUME NEW t \in Tids, InitBuffer(t) PROVE UNCHANGED Lines!vars
    <2>1. buf[t] = <<>> /\ buf' = [buf EXCEPT ![t] = <<>>] /\ out' = out
      BY <1>4 DEF InitBuffer, BufferLines
    <2>2. buf' = buf
      BY <2>1 DEF IInv, TypeOK
    <2> QED  BY <2>1, <2>2
  <1>5. CASE RemoveExpired
    BY <1>5 DEF RemoveExpired, Removable, IInv, TypeOK
  <1>6. ASSUME NEW t \in Tids, Enter(t) \/ Relock(t) \/ NullEntry(t) \/ NotifyOne(t)
        PROVE  UNCHANGED Lines!vars
    BY <1>6 DEF Enter, Relock, NullEntry, NotifyOne
  <1>7. CASE BeginScan \/ EndScan \/ Recheck \/ CvWait \/ WakeUp \/ SpuriousWakeup
    BY <1>7 DEF BeginScan, EndScan, Recheck, CvWait, WakeUp, SpuriousWakeup
  <1>8. CASE MainStep \/ Tick \/ UNCHANGED vars
    BY <1>8 DEF MainStep, SetStop, NotifyStop, Join, Tick, vars
  <1> QED  BY <1>1, <1>2, <1>3, <1>4, <1>5, <1>6, <1>7, <1>8
           DEF Next, LoggerStep, BackendStep, Terminated, Lines!Next

(* Only a flush writes to the output.                                      *)
LEMMA NextWhole ==
    ASSUME IInv, BufferLines, WholeLines, [Next]_vars
    PROVE  WholeLines'
  <1>1. ASSUME NEW t \in Tids, Lines!Flush(t) PROVE WholeLines'
    <2>1. ~EndsOpen(buf[t]) /\ out' = out \o Labelled(t)
      BY <1>1, SameOpen DEF OpenSame, Lines!Flush, Labelled
    <2> QED  BY <2>1, FlushWhole
  <1>2. CASE UNCHANGED out
    BY <1>2 DEF WholeLines
  <1>3. UNCHANGED out \/ \E t \in Tids : Lines!Flush(t)
    BY NextLineLog DEF Lines!Next, Lines!Part, Lines!EndLine, Lines!Add, Lines!vars
  <1> QED  BY <1>1, <1>2, <1>3

LEMMA InitLines == Init => BufferLines /\ WholeLines /\ Lines!Init
  <1> SUFFICES ASSUME Init PROVE BufferLines /\ WholeLines /\ Lines!Init
    OBVIOUS
  <1>1. /\ buf = [t \in Tids |-> <<>>] /\ out = <<>> /\ depth = [t \in Tids |-> 0]
        /\ entries = {} /\ \A t \in Tids : pc[t] # "init"
    BY LoggerAssumption DEF Init
  <1>2. BufferLines
    <2> SUFFICES ASSUME NEW t \in Tids
                 PROVE  /\ depth[t] > 0 <=> EndsOpen(buf[t])
                        /\ t \notin entries => buf[t] = <<>>
                        /\ pc[t] = "init" => t \notin entries
                        /\ InOrder(buf[t])
      BY DEF BufferLines
    <2>1. buf[t] = <<>> /\ depth[t] = 0 /\ ~(depth[t] > 0) /\ pc[t] # "init"
      BY <1>1
    <2>2. InOrder(buf[t]) /\ ~EndsOpen(buf[t])
      BY ONLY <2>1, EmptyInOrder, Zenon
    <2> QED  BY ONLY <2>1, <2>2
  <1>3. WholeLines
    BY <1>1 DEF WholeLines
  <1> QED  BY <1>1, <1>2, <1>3 DEF Lines!Init

(* Whatever the interleaving of any number of logging threads with the     *)
(* backend, its flushes and its expiry of entries, the output consists of  *)
(* whole lines.                                                            *)
THEOREM OutputIsLines == Spec => []WholeLines
  BY InitIInv, NextIInv, InitLines, NextLines, NextWhole, PTL DEF Spec

(* The buffers and the output implement LineLog: no token is lost,         *)
(* repeated or reordered.                                                  *)
THEOREM LoggerIsLineLog == Spec => ImplementsLineLog
  BY InitIInv, NextIInv, InitLines, NextLines, NextLineLog, PTL
  DEF Spec, ImplementsLineLog, Lines!Spec
-----------------------------------------------------------------------------
(* The end of the backend thread. *)

(* Only the decision under the write lock ends the backend: no other step  *)
(* takes it to its end.                                                    *)
LEMMA OnlyRecheckExits ==
    ASSUME IInv, [Next]_vars, pc[Backend] # "exit", pc'[Backend] = "exit"
    PROVE  Recheck /\ NoLog
<1> USE DEF Goto, entryVars, backendVars, clientVars
<1>0. /\ pc \in [Tids \cup {Backend} -> LoggerPc \cup BackendPc \cup {"dead"}]
      /\ Backend \notin Tids
  BY LoggerAssumption DEF IInv, TypeOK
<1>1. ASSUME NEW t \in Tids, LoggerStep(t)
      PROVE  FALSE
  BY <1>0, <1>1 DEF LoggerStep, Enter, InitBuffer, Relock, NullEntry, Crash, Put, End, NotifyOne,
                    Notified
<1>2. ~(MainStep \/ SpuriousWakeup \/ Tick \/ UNCHANGED vars)
  BY <1>0 DEF MainStep, SetStop, NotifyStop, Notified, Join, SpuriousWakeup, Tick, vars
<1>3. BackendStep
  BY <1>1, <1>2 DEF Next, Terminated
<1>4. Recheck
  BY <1>0, <1>3 DEF BackendStep, BeginScan, VisitEntry, EndScan, RemoveExpired, CvWait, WakeUp
<1> QED BY <1>0, <1>4 DEF Recheck

(* When the backend ends, every buffer is empty, however the threads have  *)
(* interleaved with its last scan: what it finds under the write lock is   *)
(* true of every entry, and an entry that is not in the map has no text.   *)
THEOREM FlushedAtExit == Spec => ExitsFlushed
<1>1. IInv /\ BufferLines /\ [Next]_vars =>
        [pc[Backend] # "exit" /\ pc'[Backend] = "exit" => \A t \in Tids : buf[t] = <<>>]_vars
  BY OnlyRecheckExits DEF NoLog, BufferLines
<1> QED BY <1>1, InitIInv, NextIInv, InitLines, NextLines, PTL DEF Spec, ExitsFlushed

(* The variables of the logger keep their types: in particular a depth     *)
(* never becomes negative, so that END never unlocks too often.            *)
THEOREM LoggerTypes == Spec => []TypeOK
<1>1. IInv => TypeOK
  BY DEF IInv
<1> QED BY <1>1, SpecIInv, PTL
=============================================================================
