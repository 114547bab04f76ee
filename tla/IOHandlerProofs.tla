--------------------------- MODULE IOHandlerProofs ----------------------------
(* Lemmas about the base class that the proofs about the server and the    *)
(* client share.  P and R are the steps of the _run at hand and the steps  *)
(* its handlers return to.                                                 *)
EXTENDS IOHandler, SequenceTheorems, TLAPS

(* A handler in progress is about a descriptor, not about none.            *)
CurOK == \A t \in Threads : pc[t] \in HandlerPc => cur[t] \in Fds

(* What the base class needs of the _run it is called from.                *)
Loop(P, R) ==
    /\ HandlerPc \cup R \cup {"loop", "dead"} \subseteq P
    /\ {"lock", "events"} \subseteq R
    /\ HandlerPc \cap (R \cup {"loop"}) = {}

IOTypeInv(P, R) == Loop(P, R) /\ IOTypeOK(P, R) /\ CurOK

(* Changing one cell of a table.                                           *)
LEMMA CellType ==
    ASSUME NEW S, NEW f \in [Threads -> [Fds -> S]],
           NEW t \in Threads, NEW fd \in Fds, NEW v \in S
    PROVE  [f EXCEPT ![t][fd] = v] \in [Threads -> [Fds -> S]]
OBVIOUS

(* Taking two buffers off the pool leaves a pool, and they are buffers.    *)
LEMMA PoolPop ==
    ASSUME NEW pool \in Seq(Content), Len(pool) >= 2
    PROVE  /\ SubSeq(pool, 1, Len(pool) - 2) \in Seq(Content)
           /\ pool[Len(pool)] \in Content
           /\ pool[Len(pool) - 1] \in Content
<1>1. Len(pool) \in Nat /\ \A i \in 1..Len(pool) : pool[i] \in Content
  BY ElementOfSeq, LenProperties
<1>2. \A i \in 1..(Len(pool) - 2) : pool[i] \in Content
  BY <1>1
<1>3. SubSeq(pool, 1, Len(pool) - 2) \in Seq(Content)
  BY <1>1, <1>2, SubSeqProperties
<1> QED BY <1>1, <1>3

(* Putting two buffers back onto the pool leaves a pool.                   *)
LEMMA PoolPush ==
    ASSUME NEW pool \in Seq(Content), NEW a \in Content, NEW b \in Content
    PROVE  pool \o <<a, b>> \in Seq(Content)
<1>1. <<a, b>> \in Seq(Content)
  OBVIOUS
<1> QED BY <1>1, ConcatProperties

(* What is in the pool after two buffers were put onto it.                 *)
LEMMA PushElements ==
    ASSUME NEW pool \in Seq(Content), NEW a \in Content, NEW b \in Content
    PROVE  \A i \in DOMAIN (pool \o <<a, b>>) :
              (pool \o <<a, b>>)[i] \in {pool[j] : j \in DOMAIN pool} \cup {a, b}
<1> DEFINE two == <<a, b>>
<1>1. /\ two \in Seq(Content) /\ Len(two) = 2 /\ two[1] = a /\ two[2] = b
      /\ Len(pool) \in Nat /\ DOMAIN pool = 1..Len(pool)
  OBVIOUS
<1> HIDE DEF two
<1>2. /\ Len(pool \o two) = Len(pool) + Len(two)
      /\ \A i \in 1..Len(pool) + Len(two) :
            (pool \o two)[i] = IF i <= Len(pool) THEN pool[i] ELSE two[i - Len(pool)]
      /\ pool \o two \in Seq(Content)
  BY ONLY pool \in Seq(Content), <1>1, ConcatProperties
<1>3. DOMAIN (pool \o two) = 1..Len(pool \o two)
  BY <1>2
<1>4. ASSUME NEW i \in 1..Len(pool) + Len(two)
      PROVE  (pool \o two)[i] \in {pool[j] : j \in DOMAIN pool} \cup {a, b}
  <2>1. CASE i <= Len(pool)
    <3>1. i \in DOMAIN pool /\ (pool \o two)[i] = pool[i]
      BY <1>1, <1>2, <2>1
    <3> QED BY <3>1
  <2>2. CASE ~(i <= Len(pool))
    <3>1. i - Len(pool) \in {1, 2} /\ (pool \o two)[i] = two[i - Len(pool)]
      BY <1>1, <1>2, <2>2
    <3> QED BY <1>1, <3>1
  <2> QED BY <2>1, <2>2
<1> QED BY <1>2, <1>3, <1>4 DEF two

(* What is left in the pool after two buffers were taken off it.           *)
LEMMA PopElements ==
    ASSUME NEW pool \in Seq(Content), Len(pool) >= 2
    PROVE  /\ Len(pool) \in DOMAIN pool /\ Len(pool) - 1 \in DOMAIN pool
           /\ \A i \in DOMAIN SubSeq(pool, 1, Len(pool) - 2) :
                 SubSeq(pool, 1, Len(pool) - 2)[i] \in {pool[j] : j \in DOMAIN pool}
<1> DEFINE n == Len(pool) - 2
           left == SubSeq(pool, 1, n)
<1>1. Len(pool) \in Nat /\ DOMAIN pool = 1..Len(pool)
  BY LenProperties
<1>2. n \in Nat /\ n + 2 = Len(pool) /\ \A i \in 1..n : i \in 1..Len(pool)
  BY <1>1
<1>3. /\ Len(left) = IF 1 <= n THEN n - 1 + 1 ELSE 0
      /\ \A i \in 1..(n - 1 + 1) : left[i] = pool[1 + i - 1]
  <2> HIDE DEF n
  <2> QED BY ONLY pool \in Seq(Content), <1>1, <1>2, SubSeqProperties
<1>4. left \in Seq(Content)
  BY PoolPop
<1> HIDE DEF n, left
<1>5. DOMAIN left = 1..n /\ \A i \in 1..n : left[i] = pool[i]
  BY <1>2, <1>3, <1>4
<1>6. \A i \in DOMAIN left : left[i] \in {pool[j] : j \in DOMAIN pool}
  BY <1>1, <1>2, <1>5
<1> QED BY <1>1, <1>6 DEF n, left

(* createBuffer takes its two buffers from the thread's pool, or makes     *)
(* empty ones.                                                             *)
LEMMA CreateElements ==
    ASSUME NEW t \in Threads, NEW fd \in Fds, createBuffer(t, fd),
           buffer_pool \in [Threads -> Seq(Content)]
    PROVE  LET pooled == {buffer_pool[t][j] : j \in DOMAIN buffer_pool[t]}
           IN  /\ keys' = [keys EXCEPT ![t] = @ \cup {fd}]
               /\ \E r, w \in pooled \cup {{}} :
                     /\ rbh' = [rbh EXCEPT ![t][fd] = r]
                     /\ wbh' = [wbh EXCEPT ![t][fd] = w]
               /\ \A u \in Threads \ {t} : buffer_pool'[u] = buffer_pool[u]
               /\ \A i \in DOMAIN buffer_pool'[t] : buffer_pool'[t][i] \in pooled
<1> DEFINE pool == buffer_pool[t]
           pooled == {pool[j] : j \in DOMAIN pool}
           left == IF Len(pool) < 2 THEN pool ELSE SubSeq(pool, 1, Len(pool) - 2)
<1>1. pool \in Seq(Content) /\ Len(pool) \in Nat
  BY LenProperties
<1>2. /\ keys' = [keys EXCEPT ![t] = @ \cup {fd}]
      /\ \E r, w \in pooled \cup {{}} :
            /\ rbh' = [rbh EXCEPT ![t][fd] = r]
            /\ wbh' = [wbh EXCEPT ![t][fd] = w]
      /\ buffer_pool' = [buffer_pool EXCEPT ![t] = left]
      /\ \A i \in DOMAIN left : left[i] \in pooled
  <2>1. CASE Len(pool) < 2
    BY <1>1, <2>1 DEF createBuffer
  <2>2. CASE ~(Len(pool) < 2)
    <3>1. Len(pool) >= 2 /\ pool \in Seq(Content)
      BY <1>1, <2>2
    <3>2. /\ Len(pool) \in DOMAIN pool /\ Len(pool) - 1 \in DOMAIN pool
          /\ \A i \in DOMAIN SubSeq(pool, 1, Len(pool) - 2) :
                SubSeq(pool, 1, Len(pool) - 2)[i] \in pooled
      <4> HIDE DEF pool
      <4> QED BY <3>1, PopElements
    <3>3. /\ rbh' = [rbh EXCEPT ![t][fd] = pool[Len(pool)]]
          /\ wbh' = [wbh EXCEPT ![t][fd] = pool[Len(pool) - 1]]
      BY <2>2 DEF createBuffer
    <3>4. pool[Len(pool)] \in pooled /\ pool[Len(pool) - 1] \in pooled
      BY <3>2
    <3> QED BY <2>2, <3>2, <3>3, <3>4 DEF createBuffer
  <2> QED BY <2>1, <2>2
<1> HIDE DEF left
<1>3. buffer_pool'[t] = left /\ \A u \in Threads \ {t} : buffer_pool'[u] = buffer_pool[u]
  BY <1>2
<1> QED BY <1>2, <1>3

(* createBuffer makes buffers out of fresh or pooled ones.                 *)
LEMMA CreateBufferType ==
    ASSUME NEW P, NEW R, IOTypeOK(P, R), NEW t \in Threads, NEW fd \in Fds, createBuffer(t, fd)
    PROVE  /\ keys' \in [Threads -> SUBSET Fds]
           /\ rbh' \in [Threads -> [Fds -> Content]]
           /\ wbh' \in [Threads -> [Fds -> Content]]
           /\ buffer_pool' \in [Threads -> Seq(Content)]
<1> DEFINE pool == buffer_pool[t]
<1>1. pool \in Seq(Content) /\ Len(pool) \in Nat
  BY LenProperties DEF IOTypeOK
<1>2. {} \in Content
  BY DEF Content
<1>3. CASE Len(pool) < 2
  BY <1>1, <1>2, <1>3 DEF createBuffer, IOTypeOK
<1>4. CASE ~(Len(pool) < 2)
  <2>1. /\ SubSeq(pool, 1, Len(pool) - 2) \in Seq(Content)
        /\ pool[Len(pool)] \in Content
        /\ pool[Len(pool) - 1] \in Content
    BY <1>1, <1>4, PoolPop
  <2> QED BY <1>1, <1>4, <2>1 DEF createBuffer, IOTypeOK
<1> QED BY <1>3, <1>4

(* destoryBuffer gives both buffers of a descriptor to the pool.           *)
LEMMA DestoryBufferType ==
    ASSUME NEW P, NEW R, IOTypeOK(P, R), NEW t \in Threads, NEW fd \in Fds, destoryBuffer(t, fd)
    PROVE  /\ keys' \in [Threads -> SUBSET Fds]
           /\ rbh' \in [Threads -> [Fds -> Content]]
           /\ wbh' \in [Threads -> [Fds -> Content]]
           /\ buffer_pool' \in [Threads -> Seq(Content)]
<1>1. buffer_pool[t] \o <<rbh[t][fd], wbh[t][fd]>> \in Seq(Content)
  BY PoolPush DEF IOTypeOK
<1>2. {} \in Content
  BY DEF Content
<1> QED BY <1>1, <1>2 DEF destoryBuffer, IOTypeOK

(* Closing a descriptor leaves the kernel's state well typed.              *)
LEMMA CloseFdType ==
    ASSUME NEW P, NEW R, IOTypeOK(P, R), NEW fd \in Fds, CloseFd(fd)
    PROVE  /\ sock' \in [Fds -> Conns \cup {NoConn}]
           /\ interest' \in [Threads -> [Fds -> {"none", "IN", "OUT"}]]
           /\ st' \in [Conns -> {"idle", "pending", "open", "closed"}]
           /\ peer' \in [Conns -> {"up", "fin", "rst"}]
           /\ unread' \in SUBSET Conns
           /\ full' \in SUBSET Conns
           /\ owner' \in [Conns -> Threads \cup {NoThread}]
BY DEF CloseFd, IOTypeOK

(* A handler returns to a step of the loop, never into another handler.    *)
LEMMA FinishType ==
    ASSUME NEW P, NEW R, IOTypeInv(P, R), NEW t \in Threads, Finish(t)
    PROVE  /\ pc' = [pc EXCEPT ![t] = NextAfter(t)]
           /\ NextAfter(t) \in R \cup {"loop"}
           /\ cur' = [cur EXCEPT ![t] = NoFd]
BY DEF Finish, Goto, NextAfter, IOTypeInv, IOTypeOK, Loop

(* The control variables stay well typed when the thread goes on with step *)
(* l and keeps its descriptor, or is done with its handler.                *)
ControlOK(P) ==
    /\ pc \in [Threads -> P]
    /\ cur \in [Threads -> Fds \cup {NoFd}]
    /\ CurOK

(* A thread that goes on, into a handler only with a descriptor in hand.   *)
LEMMA GotoControl ==
    ASSUME NEW P, NEW R, IOTypeInv(P, R), NEW t \in Threads, NEW l \in P,
           Goto(t, l), UNCHANGED cur, l \in HandlerPc => cur[t] \in Fds
    PROVE  ControlOK(P)'
BY DEF Goto, ControlOK, IOTypeInv, IOTypeOK, Loop, CurOK

(* A thread whose handler returns has no descriptor in hand.               *)
LEMMA FinishControl ==
    ASSUME NEW P, NEW R, IOTypeInv(P, R), NEW t \in Threads, Finish(t)
    PROVE  ControlOK(P)'
<1>1. /\ pc' = [pc EXCEPT ![t] = NextAfter(t)]
      /\ NextAfter(t) \in R \cup {"loop"}
      /\ cur' = [cur EXCEPT ![t] = NoFd]
  BY FinishType
<1>2. /\ pc' \in [Threads -> P]
      /\ cur' \in [Threads -> Fds \cup {NoFd}]
  BY <1>1 DEF IOTypeInv, IOTypeOK, Loop
<1>3. CurOK'
  BY <1>1 DEF IOTypeInv, IOTypeOK, Loop, CurOK, HandlerPc
<1> QED BY <1>2, <1>3 DEF ControlOK

(* writeToBuffer(conn, str) leaves the write buffers buffers.              *)
LEMMA AppendType ==
    ASSUME NEW P, NEW R, IOTypeInv(P, R), NEW t \in Threads, NEW fd \in Fds, AppendAndWrite(t, fd)
    PROVE  wbh' \in [Threads -> [Fds -> Content]]
BY DEF AppendAndWrite, Content, IOTypeInv, IOTypeOK, Loop

(* A handler in progress has a descriptor, with two buffers.               *)
LEMMA HandlerCur ==
    ASSUME NEW P, NEW R, IOTypeInv(P, R), NEW t \in Threads, pc[t] \in HandlerPc
    PROVE  /\ cur[t] \in Fds
           /\ sock[cur[t]] \in Conns \cup {NoConn}
           /\ rbh[t][cur[t]] \in Content
           /\ wbh[t][cur[t]] \in Content
BY DEF IOTypeInv, IOTypeOK, Loop, CurOK

(* The steps of the base class.                                            *)
LEMMA IOStepType ==
    ASSUME NEW P, NEW R, IOTypeInv(P, R), NEW t \in Threads, IOStep(t)
    PROVE  IOTypeInv(P, R)'
<1> USE DEF kernelVars, bufferVars
<1>p. HandlerPc \cup {"loop", "lock", "events", "dead"} \subseteq P
  BY DEF IOTypeInv, Loop
<1>a. ASSUME pc[t] \in {"read", "message", "write", "flush", "rearm", "clean", "destroy"}
      PROVE  /\ cur[t] \in Fds
             /\ sock[cur[t]] \in Conns \cup {NoConn}
             /\ rbh[t][cur[t]] \in Content
             /\ wbh[t][cur[t]] \in Content
  BY <1>a, HandlerCur DEF HandlerPc
<1>1. CASE OnEpollLoop(t)
  <2>1. CASE Goto(t, "lock") /\ UNCHANGED <<cur, wbh>>
    <3>1. ControlOK(P)'
      BY <2>1, <1>p, GotoControl DEF HandlerPc
    <3> QED BY <1>1, <2>1, <3>1 DEF OnEpollLoop, ControlOK, IOTypeInv, IOTypeOK, Loop
  <2>2. ASSUME NEW fd \in keys[t], cur' = [cur EXCEPT ![t] = fd], AppendAndWrite(t, fd)
        PROVE  IOTypeInv(P, R)'
    <3>1. fd \in Fds
      BY DEF IOTypeInv, IOTypeOK, Loop
    <3>2. ControlOK(P)'
      BY <2>2, <3>1 DEF AppendAndWrite, Goto, ControlOK, HandlerPc,
                        IOTypeInv, IOTypeOK, Loop, CurOK
    <3>3. wbh' \in [Threads -> [Fds -> Content]]
      BY <2>2, <3>1, AppendType
    <3> QED BY <1>1, <3>2, <3>3 DEF OnEpollLoop, ControlOK, IOTypeInv, IOTypeOK, Loop
  <2> QED BY <1>1, <2>1, <2>2 DEF OnEpollLoop
<1>2. CASE ProcessEvent(t)
  <2> PICK e \in evs[t] :
          /\ e[1] \in Fds /\ DropEvent(t, e) /\ cur' = [cur EXCEPT ![t] = e[1]]
          /\ \/ Goto(t, "read") \/ Goto(t, "flush") \/ Terminate
    BY <1>2 DEF ProcessEvent
  <2>1. ControlOK(P)'
    BY <1>p DEF Goto, Terminate, ControlOK, IOTypeInv, IOTypeOK, CurOK, HandlerPc
  <2>2. evs' \in [Threads -> SUBSET Event]
    BY DEF DropEvent, IOTypeInv, IOTypeOK
  <2> QED BY <1>2, <2>1, <2>2 DEF ProcessEvent, ControlOK, IOTypeInv, IOTypeOK, Loop
<1>3. CASE OnReadable(t)
  BY <1>3 DEF OnReadable, Goto, Content, IOTypeInv, IOTypeOK, Loop, CurOK, HandlerPc
<1>4. CASE OnMessage(t)
  <2>1. cur[t] \in Fds
    BY <1>4, <1>a DEF OnMessage
  <2>2. ControlOK(P)'
    BY <1>4, <2>1, <1>p, GotoControl, FinishControl DEF OnMessage, AppendAndWrite, HandlerPc
  <2>3. rbh' \in [Threads -> [Fds -> Content]]
    <3> PICK consumed \in BOOLEAN :
            rbh' = [rbh EXCEPT ![t][cur[t]] = IF consumed THEN {} ELSE rbh[t][cur[t]]]
      BY <1>4 DEF OnMessage
    <3>1. (IF consumed THEN {} ELSE rbh[t][cur[t]]) \in Content
      BY <1>4, <1>a DEF OnMessage, Content
    <3>2. rbh \in [Threads -> [Fds -> Content]]
      BY DEF IOTypeInv, IOTypeOK, Loop
    <3> QED BY <2>1, <3>1, <3>2, CellType
  <2>4. wbh' \in [Threads -> [Fds -> Content]]
    BY <1>4, <2>1, AppendType DEF OnMessage, IOTypeInv, IOTypeOK, Loop
  <2> QED BY <1>4, <2>2, <2>3, <2>4 DEF OnMessage, ControlOK, IOTypeInv, IOTypeOK, Loop
<1>5. CASE WriteFails(t)
  BY <1>5 DEF WriteFails, Goto, IOTypeInv, IOTypeOK, Loop, CurOK, HandlerPc
<1>6. CASE WriteCompletes(t)
  <2>1. cur[t] \in Fds
    BY <1>6, <1>a DEF WriteCompletes, AppMayClose
  <2>2. ControlOK(P)'
    BY <1>6, <2>1, <1>p, GotoControl, FinishControl DEF WriteCompletes, HandlerPc
  <2>3. wbh' \in [Threads -> [Fds -> Content]]
    BY <1>6 DEF WriteCompletes, Content, IOTypeInv, IOTypeOK, Loop
  <2>4. CASE CloseFd(cur[t])
    <3>1. /\ sock' \in [Fds -> Conns \cup {NoConn}]
          /\ interest' \in [Threads -> [Fds -> {"none", "IN", "OUT"}]]
          /\ st' \in [Conns -> {"idle", "pending", "open", "closed"}]
          /\ peer' \in [Conns -> {"up", "fin", "rst"}]
          /\ unread' \in SUBSET Conns
          /\ full' \in SUBSET Conns
          /\ owner' \in [Conns -> Threads \cup {NoThread}]
      BY <2>1, <2>4, CloseFdType DEF IOTypeInv
    <3> QED BY <1>6, <2>2, <2>3, <3>1 DEF WriteCompletes, ControlOK, IOTypeInv, IOTypeOK, Loop
  <2>5. CASE UNCHANGED kernelVars
    BY <1>6, <2>2, <2>3, <2>5 DEF WriteCompletes, ControlOK, IOTypeInv, IOTypeOK, Loop
  <2> QED BY <1>6, <2>4, <2>5 DEF WriteCompletes, AppMayClose
<1>7. CASE WriteBlocks(t)
  <2>1. cur[t] \in Fds /\ sock[cur[t]] \in Conns /\ wbh[t][cur[t]] \in Content
    BY <1>7, <1>a DEF WriteBlocks, Connected
  <2>2. ControlOK(P)'
    BY <1>7, <2>1, <1>p, GotoControl, FinishControl DEF WriteBlocks, HandlerPc
  <2>3. wbh' \in [Threads -> [Fds -> Content]]
    BY <1>7, <2>1 DEF WriteBlocks, Content, IOTypeInv, IOTypeOK, Loop
  <2>4. full' \in SUBSET Conns
    BY <1>7, <2>1 DEF WriteBlocks, IOTypeInv, IOTypeOK, Loop
  <2>5. interest' \in [Threads -> [Fds -> {"none", "IN", "OUT"}]]
    <3>1. interest \in [Threads -> [Fds -> {"none", "IN", "OUT"}]]
      BY DEF IOTypeInv, IOTypeOK, Loop
    <3>2. \/ UNCHANGED interest
          \/ interest' = [interest EXCEPT ![t][cur[t]] = "OUT"]
          \/ interest' = [interest EXCEPT ![t][cur[t]] = "none"]
      BY <1>7 DEF WriteBlocks
    <3> QED BY <2>1, <3>1, <3>2, CellType
  <2> QED BY <1>7, <2>2, <2>3, <2>4, <2>5 DEF WriteBlocks, ControlOK, IOTypeInv, IOTypeOK, Loop
<1>8. CASE Rearm(t)
  <2>1. cur[t] \in Fds
    BY <1>8, <1>a DEF Rearm
  <2>2. ControlOK(P)'
    BY <1>8, <2>1, <1>p, GotoControl, FinishControl DEF Rearm, HandlerPc
  <2>3. interest' \in [Threads -> [Fds -> {"none", "IN", "OUT"}]]
    <3>1. interest \in [Threads -> [Fds -> {"none", "IN", "OUT"}]]
      BY DEF IOTypeInv, IOTypeOK, Loop
    <3>2. UNCHANGED interest \/ interest' = [interest EXCEPT ![t][cur[t]] = "IN"]
      BY <1>8 DEF Rearm
    <3> QED BY <2>1, <3>1, <3>2, CellType
  <2> QED BY <1>8, <2>2, <2>3 DEF Rearm, ControlOK, IOTypeInv, IOTypeOK, Loop
<1>9. CASE OnPassivelyClosed(t)
  <2>1. cur[t] \in Fds
    BY <1>9, <1>a DEF OnPassivelyClosed, AppMayClose
  <2>2. ControlOK(P)'
    BY <1>9, <2>1, <1>p, GotoControl DEF OnPassivelyClosed, HandlerPc
  <2>3. /\ rbh' \in [Threads -> [Fds -> Content]]
        /\ wbh' \in [Threads -> [Fds -> Content]]
    <3>1. {} \in Content
      BY DEF Content
    <3>2. /\ rbh \in [Threads -> [Fds -> Content]]
          /\ wbh \in [Threads -> [Fds -> Content]]
      BY DEF IOTypeInv, IOTypeOK, Loop
    <3>3. PICK r \in {{}, rbh[t][cur[t]]}, w \in {{}, wbh[t][cur[t]]} :
             /\ rbh' = [rbh EXCEPT ![t][cur[t]] = r]
             /\ wbh' = [wbh EXCEPT ![t][cur[t]] = w]
      BY <1>9 DEF OnPassivelyClosed
    <3>4. r \in Content /\ w \in Content
      BY <1>9, <1>a, <3>1 DEF OnPassivelyClosed
    <3> QED BY <2>1, <3>2, <3>3, <3>4, CellType
  <2>4. CASE CloseFd(cur[t])
    <3>1. /\ sock' \in [Fds -> Conns \cup {NoConn}]
          /\ interest' \in [Threads -> [Fds -> {"none", "IN", "OUT"}]]
          /\ st' \in [Conns -> {"idle", "pending", "open", "closed"}]
          /\ peer' \in [Conns -> {"up", "fin", "rst"}]
          /\ unread' \in SUBSET Conns
          /\ full' \in SUBSET Conns
          /\ owner' \in [Conns -> Threads \cup {NoThread}]
      BY <2>1, <2>4, CloseFdType DEF IOTypeInv
    <3> QED BY <1>9, <2>2, <2>3, <3>1 DEF OnPassivelyClosed, ControlOK, IOTypeInv, IOTypeOK, Loop
  <2>5. CASE UNCHANGED kernelVars
    BY <1>9, <2>2, <2>3, <2>5 DEF OnPassivelyClosed, ControlOK, IOTypeInv, IOTypeOK, Loop
  <2> QED BY <1>9, <2>4, <2>5 DEF OnPassivelyClosed, AppMayClose
<1>10. CASE DestroyAndClose(t)
  <2>1. cur[t] \in Fds
    BY <1>10, <1>a DEF DestroyAndClose
  <2>2. ControlOK(P)'
    BY <1>10, FinishControl DEF DestroyAndClose
  <2>3. /\ keys' \in [Threads -> SUBSET Fds]
        /\ rbh' \in [Threads -> [Fds -> Content]]
        /\ wbh' \in [Threads -> [Fds -> Content]]
        /\ buffer_pool' \in [Threads -> Seq(Content)]
    BY <1>10, <2>1, DestoryBufferType DEF DestroyAndClose, IOTypeInv
  <2>4. /\ sock' \in [Fds -> Conns \cup {NoConn}]
        /\ interest' \in [Threads -> [Fds -> {"none", "IN", "OUT"}]]
        /\ st' \in [Conns -> {"idle", "pending", "open", "closed"}]
        /\ peer' \in [Conns -> {"up", "fin", "rst"}]
        /\ unread' \in SUBSET Conns
        /\ full' \in SUBSET Conns
        /\ owner' \in [Conns -> Threads \cup {NoThread}]
    BY <1>10, <2>1, CloseFdType DEF DestroyAndClose, IOTypeInv
  <2> QED BY <1>10, <2>2, <2>3, <2>4 DEF DestroyAndClose, ControlOK, IOTypeInv, IOTypeOK, Loop
<1> QED BY <1>1, <1>2, <1>3, <1>4, <1>5, <1>6, <1>7, <1>8, <1>9, <1>10 DEF IOStep

(* epoll_wait.                                                             *)
LEMMA FetchEventsType ==
    ASSUME NEW P, NEW R, IOTypeInv(P, R), NEW t \in Threads,
           NEW ready \in SUBSET Event, FetchEvents(t, ready)
    PROVE  IOTypeInv(P, R)'
<1> USE DEF kernelVars, bufferVars
<1>1. ControlOK(P)'
  BY GotoControl DEF FetchEvents, IOTypeInv, Loop
<1> QED BY <1>1 DEF FetchEvents, ControlOK, IOTypeInv, IOTypeOK, Loop

(* What a step of the base class can do to the control state: nothing to   *)
(* the other threads', unless it ends the process, and it ends in a        *)
(* handler or where the loop goes on.                                      *)
LEMMA IOStepControl ==
    ASSUME NEW P, NEW R, IOTypeInv(P, R), NEW t \in Threads, IOStep(t)
    PROVE  /\ \A u \in Threads \ {t} :
                 /\ pc'[u] \in {pc[u], "dead"}
                 /\ ret'[u] = ret[u] /\ evs'[u] = evs[u] /\ keys'[u] = keys[u]
           /\ ret'[t] \in {ret[t], "lock"}
           /\ evs'[t] \subseteq evs[t]
           /\ keys'[t] \subseteq keys[t]
           /\ fd_num' = fd_num
           /\ \/ pc'[t] \in HandlerPc \cup {"loop", "lock", "events", "dead"}
              \/ pc'[t] = ret[t] /\ ret'[t] = ret[t]
           /\ pc[t] \in HandlerPc \cup {"loop", "events"}
<1> USE DEF kernelVars, bufferVars
<1> DEFINE Frame ==
        /\ \A u \in Threads \ {t} :
              /\ pc'[u] \in {pc[u], "dead"}
              /\ ret'[u] = ret[u] /\ evs'[u] = evs[u] /\ keys'[u] = keys[u]
        /\ ret'[t] \in {ret[t], "lock"}
        /\ evs'[t] \subseteq evs[t]
        /\ keys'[t] \subseteq keys[t]
        /\ fd_num' = fd_num
        /\ \/ pc'[t] \in HandlerPc \cup {"loop", "lock", "events", "dead"}
           \/ pc'[t] = ret[t] /\ ret'[t] = ret[t]
        /\ pc[t] \in HandlerPc \cup {"loop", "events"}
<1>t. /\ pc \in [Threads -> P]
      /\ ret \in [Threads -> R]
      /\ evs \in [Threads -> SUBSET Event]
      /\ keys \in [Threads -> SUBSET Fds]
  BY DEF IOTypeInv, IOTypeOK
<1>g. ASSUME NEW l \in HandlerPc, Goto(t, l), UNCHANGED <<ret, evs, keys, fd_num>>,
             pc[t] \in HandlerPc
      PROVE  Frame
  BY <1>g, <1>t DEF Goto
<1>f. ASSUME Finish(t), UNCHANGED <<ret, evs, fd_num>>, pc[t] \in HandlerPc,
             keys' \in {keys, [keys EXCEPT ![t] = @ \ {cur[t]}]}
      PROVE  Frame
  <2>1. \A u \in Threads \ {t} : pc'[u] = pc[u] /\ keys'[u] = keys[u]
    BY <1>f, <1>t DEF Finish, Goto
  <2>2. keys'[t] \subseteq keys[t]
    BY <1>f, <1>t
  <2>3. pc'[t] = NextAfter(t)
    BY <1>f, <1>t DEF Finish, Goto
  <2>4. NextAfter(t) \in {"loop", ret[t]}
    BY <1>t DEF NextAfter
  <2> QED BY <1>f, <2>1, <2>2, <2>3, <2>4
<1>1. CASE OnEpollLoop(t)
  <2>1. pc' = [pc EXCEPT ![t] = "lock"] \/ pc' = [pc EXCEPT ![t] = "write"]
    BY <1>1 DEF OnEpollLoop, AppendAndWrite, Goto
  <2>2. /\ pc[t] = "loop"
        /\ ret' = [ret EXCEPT ![t] = "lock"]
        /\ UNCHANGED <<keys, evs, fd_num>>
    BY <1>1 DEF OnEpollLoop
  <2> QED BY <1>t, <2>1, <2>2 DEF HandlerPc
<1>2. CASE ProcessEvent(t)
  <2>1. /\ pc[t] = "events"
        /\ \/ pc' = [pc EXCEPT ![t] = "read"] \/ pc' = [pc EXCEPT ![t] = "flush"]
           \/ pc' = [u \in Threads |-> "dead"]
        /\ \E e \in evs[t] : evs' = [evs EXCEPT ![t] = @ \ {e}]
        /\ UNCHANGED <<ret, keys, fd_num>>
    BY <1>2 DEF ProcessEvent, DropEvent, Goto, Terminate
  <2> QED BY <1>t, <2>1 DEF HandlerPc
<1>3. CASE OnReadable(t)
  BY <1>3, <1>g DEF OnReadable, HandlerPc
<1>4. CASE OnMessage(t)
  BY <1>4, <1>g, <1>f DEF OnMessage, AppendAndWrite, HandlerPc
<1>5. CASE WriteFails(t)
  BY <1>5, <1>g DEF WriteFails, HandlerPc
<1>6. CASE WriteCompletes(t)
  BY <1>6, <1>g, <1>f DEF WriteCompletes, HandlerPc
<1>7. CASE WriteBlocks(t)
  BY <1>7, <1>g, <1>f DEF WriteBlocks, HandlerPc
<1>8. CASE Rearm(t)
  BY <1>8, <1>g, <1>f DEF Rearm, HandlerPc
<1>9. CASE OnPassivelyClosed(t)
  BY <1>9, <1>g DEF OnPassivelyClosed, HandlerPc
<1>10. CASE DestroyAndClose(t)
  BY <1>10, <1>f DEF DestroyAndClose, destoryBuffer, HandlerPc
<1> QED BY <1>1, <1>2, <1>3, <1>4, <1>5, <1>6, <1>7, <1>8, <1>9, <1>10 DEF IOStep
=============================================================================
