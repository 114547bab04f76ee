------------------------ MODULE IOHandlerClientProofs ------------------------
(* Proofs about the client's thread pool, for any number of threads,       *)
(* targets, hosts and descriptors, any batch size and any callbacks.       *)
EXTENDS IOHandlerClient, IOHandlerProofs, WellFoundedInduction

ClientSteps == HandlerPc \cup ClientPc
ClientRets == {"lock", "events", "established", "arm"}

(* A thread between the end of its connect and the registration for        *)
(* reading: conn[t] is the connection it is about.                         *)
Stage(t) == pc[t] \in {"first", "established", "arm"} \/ ret[t] \in {"established", "arm"}

(* The descriptors in hand are descriptors.                                *)
InHand ==
    \A t \in Threads :
        /\ pc[t] = "syn" => cur[t] \in Fds
        /\ Stage(t) => conn[t] \in Fds

(* What the client adds to the type invariant of the base class.           *)
ClientTypes ==
    /\ pool \in [Keys -> Seq(Conns)] /\ pool_lock \in Threads \cup {NoThread}
    /\ notify \in SUBSET Conns /\ added \in SUBSET Conns
    /\ syn_sent \in [Threads -> SUBSET Fds]
    /\ init_message \in [Threads -> [Fds -> Conns \cup {NoConn}]]
    /\ conn \in [Threads -> Fds \cup {NoFd}] /\ got \in [Threads -> 0..Batch]
    /\ dest \in [Conns -> Hosts \cup {NoHost}]

TypeInv == TypeOK /\ CurOK /\ InHand

(* The type invariant in the form the base class's lemmas use, before and  *)
(* after a step.                                                           *)
LEMMA TypeInvParts ==
    /\ TypeInv <=> IOTypeInv(ClientSteps, ClientRets) /\ ClientTypes /\ InHand
    /\ TypeInv' <=> IOTypeInv(ClientSteps, ClientRets)' /\ ClientTypes' /\ InHand'
<1>1. Loop(ClientSteps, ClientRets)
  BY DEF Loop, ClientSteps, ClientRets, HandlerPc, ClientPc
<1> QED BY <1>1 DEF TypeInv, TypeOK, IOTypeInv, ClientTypes, ClientSteps, ClientRets
-----------------------------------------------------------------------------
(* The pool of targets. *)

(* The keys are natural numbers, so one of those in use is the smallest.   *)
LEMMA KeysAreNumbers == Keys \subseteq Nat
BY ClientAssumption DEF Keys, HostKey

LEMMA SmallestKey ==
    ASSUME NEW T, T \subseteq Nat, T # {}
    PROVE  \E k \in T : \A j \in T : k <= j
<1> DEFINE R == OpToRel(<, Nat)
<1>1. IsWellFoundedOn(R, Nat)
  BY NatLessThanWellFounded
<1>2. \A x, y \in Nat : <<x, y>> \in R <=> x < y
  BY DEF OpToRel
<1> HIDE DEF R
<1>3. PICK k \in T : \A j \in T : ~(<<j, k>> \in R)
  BY <1>1, WFMin
<1>4. ASSUME NEW j \in T PROVE k <= j
  <2>1. j \in Nat /\ k \in Nat /\ ~(<<j, k>> \in R)
    BY <1>3
  <2>2. ~(j < k)
    BY <1>2, <2>1
  <2> QED BY <2>1, <2>2
<1> QED BY <1>4

(* The first key of a pool that is not empty, and what raw_get takes.      *)
LEMMA FirstInUse ==
    ASSUME ClientTypes, ~PoolEmpty
    PROVE  /\ FirstKey \in Keys /\ pool[FirstKey] # <<>>
           /\ pool[FirstKey] \in Seq(Conns)
           /\ Len(pool[FirstKey]) \in Nat \ {0}
           /\ Taken \in Conns /\ pool[FirstKey][1] \in Conns
           /\ FirstHost \in Hosts
<1> DEFINE used == {k \in Keys : pool[k] # <<>>}
<1>1. used # {} /\ used \subseteq Nat
  BY KeysAreNumbers DEF PoolEmpty
<1>2. \E k \in Keys : pool[k] # <<>> /\ \A j \in Keys : pool[j] # <<>> => k <= j
  <2>1. \E k \in used : \A j \in used : k <= j
    <3> HIDE DEF used
    <3> QED BY <1>1, SmallestKey
  <2> QED BY <2>1
<1>3. FirstKey \in Keys /\ pool[FirstKey] # <<>>
  BY <1>2 DEF FirstKey
<1>4. pool[FirstKey] \in Seq(Conns)
  BY <1>3 DEF ClientTypes
<1>5. Len(pool[FirstKey]) \in Nat \ {0}
  BY <1>3, <1>4, EmptySeq, LenProperties
<1>6. /\ 1 \in 1..Len(pool[FirstKey])
      /\ Len(pool[FirstKey]) \in 1..Len(pool[FirstKey])
  BY <1>5
<1>7. Taken \in Conns /\ pool[FirstKey][1] \in Conns
  BY <1>4, <1>6, ElementOfSeq DEF Taken
<1> QED BY <1>3, <1>4, <1>5, <1>7 DEF FirstHost, Hosts

(* The sequence without its last element.                                  *)
LEMMA AllButLast ==
    ASSUME NEW S, NEW s \in Seq(S), Len(s) \in Nat \ {0}
    PROVE  /\ SubSeq(s, 1, Len(s) - 1) \in Seq(S)
           /\ Len(SubSeq(s, 1, Len(s) - 1)) = Len(s) - 1
           /\ \A i \in 1..Len(s) - 1 : SubSeq(s, 1, Len(s) - 1)[i] = s[i]
<1> DEFINE n == Len(s) - 1
<1>1. n \in Nat /\ \A i \in 1..n : s[i] \in S
  BY ElementOfSeq
<1>2. /\ SubSeq(s, 1, n) \in Seq(S)
      /\ Len(SubSeq(s, 1, n)) = IF 1 <= n THEN n - 1 + 1 ELSE 0
      /\ \A i \in 1..(n - 1 + 1) : SubSeq(s, 1, n)[i] = s[1 + i - 1]
  <2> HIDE DEF n
  <2> QED BY ONLY <1>1, SubSeqProperties
<1> HIDE DEF n
<1>3. Len(SubSeq(s, 1, n)) = n /\ \A i \in 1..n : SubSeq(s, 1, n)[i] = s[i]
  BY <1>1, <1>2
<1> QED BY <1>2, <1>3 DEF n

(* raw_add and raw_get leave a pool.                                       *)
LEMMA RawAddType ==
    ASSUME ClientTypes, NEW c \in Conns, RawAdd(c)
    PROVE  pool' \in [Keys -> Seq(Conns)]
<1>1. HostKey(HostOf[c]) \in Keys
  BY DEF Keys, Hosts
<1>2. pool[HostKey(HostOf[c])] \in Seq(Conns)
  BY <1>1 DEF ClientTypes
<1>3. Append(pool[HostKey(HostOf[c])], c) \in Seq(Conns)
  BY <1>2, AppendProperties
<1> QED BY <1>1, <1>3 DEF RawAdd, ClientTypes

LEMMA RawGetType ==
    ASSUME ClientTypes, ~PoolEmpty, RawGet
    PROVE  pool' \in [Keys -> Seq(Conns)]
<1>1. /\ FirstKey \in Keys /\ pool[FirstKey] \in Seq(Conns)
      /\ Len(pool[FirstKey]) \in Nat \ {0}
  BY FirstInUse
<1>2. SubSeq(pool[FirstKey], 1, Len(pool[FirstKey]) - 1) \in Seq(Conns)
  BY <1>1, AllButLast
<1> QED BY <1>1, <1>2 DEF RawGet, ClientTypes
-----------------------------------------------------------------------------
(* Types. *)

(* A step of the client's own that keeps the tables of the base class: the *)
(* thread goes on with a step that is not a handler, or the process ends.  *)
LEMMA GoesOn ==
    ASSUME TypeInv, NEW t \in Threads, NEW l \in ClientPc,
           Goto(t, l) \/ Terminate, UNCHANGED <<kernelVars, bufferVars, ret, cur, evs>>,
           fd_num' = fd_num \/ CountUp(t)
    PROVE  IOTypeInv(ClientSteps, ClientRets)'
<1> USE DEF kernelVars, bufferVars
<1>1. /\ Loop(ClientSteps, ClientRets) /\ IOTypeOK(ClientSteps, ClientRets) /\ CurOK
      /\ l \notin HandlerPc /\ "dead" \notin HandlerPc /\ l \in ClientSteps
      /\ "dead" \in ClientSteps
  BY TypeInvParts DEF IOTypeInv, ClientPc, HandlerPc, ClientSteps
<1>2. fd_num' \in [Threads -> {0, 1}]
  BY <1>1 DEF IOTypeOK, CountUp
<1>3. /\ pc' \in [Threads -> ClientSteps]
      /\ \A u \in Threads : pc'[u] \in HandlerPc => pc'[u] = pc[u]
  BY <1>1 DEF IOTypeOK, Goto, Terminate
<1>4. CurOK'
  BY <1>1, <1>3 DEF CurOK
<1> QED BY <1>1, <1>2, <1>3, <1>4 DEF IOTypeInv, IOTypeOK

(* Such a step, when it is not one of those that have a connection or a    *)
(* descriptor in hand.                                                     *)
LEMMA GoesOnInHand ==
    ASSUME TypeInv, NEW t \in Threads,
           NEW l \in ClientPc \ {"syn", "first", "established", "arm"},
           Goto(t, l) \/ Terminate, UNCHANGED <<ret, cur, conn>>
    PROVE  InHand'
BY DEF TypeInv, TypeOK, IOTypeOK, InHand, Stage, Goto, Terminate

(* Waiting and competing for the pool.                                     *)
LEMMA CompeteType ==
    ASSUME TypeInv, NEW t \in Threads,
           \/ LockPool(t) \/ WaitForTarget(t) \/ PeekPool(t) \/ TryLockPool(t)
           \/ TryLockFails(t) \/ UnlockPool(t) \/ SpuriousWakeup(t)
    PROVE  TypeInv'
<1> DEFINE own == ClientPc \ {"syn", "first", "established", "arm"}
<1>1. PICK l \in own : Goto(t, l)
  BY DEF LockPool, WaitForTarget, PeekPool, TryLockPool, TryLockFails, UnlockPool,
         SpuriousWakeup, EnterPool, ClientPc
<1>2. UNCHANGED <<kernelVars, bufferVars, ret, cur, evs, fd_num, pool, notify, added,
                  syn_sent, init_message, conn, dest>>
  BY DEF LockPool, WaitForTarget, PeekPool, TryLockPool, TryLockFails, UnlockPool,
         SpuriousWakeup, EnterPool, clientVars, poolVars, connVars
<1>3. /\ pool_lock' \in {pool_lock, t, NoThread}
      /\ got' = got \/ got' = [got EXCEPT ![t] = 0]
  BY DEF LockPool, WaitForTarget, PeekPool, TryLockPool, TryLockFails, UnlockPool,
         SpuriousWakeup, EnterPool, clientVars, poolVars, connVars
<1>4. ClientTypes
  BY TypeInvParts
<1>5. ClientTypes'
  BY <1>2, <1>3, <1>4, ClientAssumption DEF ClientTypes
<1>6. IOTypeInv(ClientSteps, ClientRets)'
  BY <1>1, <1>2, GoesOn
<1>7. InHand'
  BY <1>1, <1>2, GoesOnInHand
<1> QED BY <1>5, <1>6, <1>7, TypeInvParts

(* Taking a target, and the two ends of the process that this can have.    *)
LEMMA GetFromPoolType ==
    ASSUME TypeInv, NEW t \in Threads, GetFromPool(t)
    PROVE  TypeInv'
<1>1. ClientTypes /\ IOTypeOK(ClientSteps, ClientRets) /\ CurOK /\ Loop(ClientSteps, ClientRets)
  BY TypeInvParts DEF IOTypeInv
<1>2. PICK fd \in FreeFds :
          /\ sock' = [sock EXCEPT ![fd] = Taken]
          /\ st' = [st EXCEPT ![Taken] = "pending"] /\ full' = full \cup {Taken}
          /\ owner' = [owner EXCEPT ![Taken] = t]
          /\ dest' = [dest EXCEPT ![Taken] = FirstHost]
          /\ init_message' = [init_message EXCEPT ![t][fd] = Taken]
          /\ cur' = [cur EXCEPT ![t] = fd]
  BY DEF GetFromPool
<1>3. /\ ~PoolEmpty /\ got[t] < Batch /\ RawGet
      /\ fd_num' = [fd_num EXCEPT ![t] = 1]
      /\ got' = [got EXCEPT ![t] = @ + 1] /\ pc' = [pc EXCEPT ![t] = "syn"]
      /\ UNCHANGED <<interest, peer, unread, bufferVars, ret, evs,
                     pool_lock, notify, added, syn_sent, conn>>
  BY DEF GetFromPool, MoreToGet, CountUp, Goto
<1>4. Taken \in Conns /\ FirstHost \in Hosts /\ fd \in Fds
  BY <1>1, <1>3, FirstInUse DEF FreeFds
<1> HIDE DEF Taken, FirstHost
<1>5. pool' \in [Keys -> Seq(Conns)]
  BY <1>1, <1>3, RawGetType
<1>6. ClientTypes'
  <2>1. got' \in [Threads -> 0..Batch]
    BY <1>1, <1>3, ClientAssumption DEF ClientTypes
  <2>2. init_message' \in [Threads -> [Fds -> Conns \cup {NoConn}]]
    BY <1>1, <1>2, <1>4, CellType DEF ClientTypes
  <2> QED BY <1>1, <1>2, <1>3, <1>4, <1>5, <2>1, <2>2 DEF ClientTypes
<1>7. /\ pc' \in [Threads -> ClientSteps] /\ CurOK'
  BY <1>1, <1>2, <1>3, <1>4 DEF IOTypeOK, CurOK, ClientSteps, ClientPc, HandlerPc
<1>8. IOTypeInv(ClientSteps, ClientRets)'
  BY <1>1, <1>2, <1>3, <1>4, <1>7 DEF IOTypeInv, IOTypeOK, bufferVars
<1>9. InHand'
  BY <1>1, <1>2, <1>3, <1>4 DEF TypeInv, IOTypeOK, InHand, Stage
<1> QED BY <1>6, <1>8, <1>9, TypeInvParts

LEMMA ConnectThrowsType ==
    ASSUME TypeInv, NEW t \in Threads, ConnectThrows(t)
    PROVE  TypeInv'
<1>1. /\ ~PoolEmpty /\ RawGet /\ CountUp(t) /\ Terminate
      /\ UNCHANGED <<kernelVars, bufferVars, ret, cur, evs, pool_lock, notify, added, connVars>>
  BY DEF ConnectThrows, MoreToGet
<1>2. ClientTypes
  BY TypeInvParts
<1>3. pool' \in [Keys -> Seq(Conns)]
  BY <1>1, <1>2, RawGetType
<1>4. ClientTypes'
  BY <1>1, <1>2, <1>3 DEF ClientTypes, connVars
<1>5. IOTypeInv(ClientSteps, ClientRets)' /\ InHand'
  <2>1. "dead" \in ClientPc \ {"syn", "first", "established", "arm"}
    BY DEF ClientPc
  <2> QED BY <1>1, <2>1, GoesOn, GoesOnInHand DEF connVars
<1> QED BY <1>4, <1>5, TypeInvParts

LEMMA RegisterSynType ==
    ASSUME TypeInv, NEW t \in Threads, RegisterSyn(t)
    PROVE  TypeInv'
<1>1. ClientTypes /\ IOTypeOK(ClientSteps, ClientRets) /\ CurOK /\ Loop(ClientSteps, ClientRets)
  BY TypeInvParts DEF IOTypeInv
<1>2. cur[t] \in Fds
  BY DEF TypeInv, InHand, RegisterSyn
<1>3. /\ interest' \in {interest, [interest EXCEPT ![t][cur[t]] = "OUT"]}
      /\ syn_sent' \in {syn_sent, [syn_sent EXCEPT ![t] = @ \cup {cur[t]}]}
      /\ Goto(t, "get") \/ Terminate
      /\ cur' = [cur EXCEPT ![t] = NoFd] /\ pc[t] = "syn"
      /\ UNCHANGED <<sock, st, peer, unread, full, owner, bufferVars, ret, evs, fd_num,
                     poolVars, init_message, conn, got, dest>>
  BY DEF RegisterSyn
<1>4. ClientTypes'
  BY <1>1, <1>2, <1>3 DEF ClientTypes, poolVars
<1>5. interest' \in [Threads -> [Fds -> {"none", "IN", "OUT"}]]
  <2>1. interest \in [Threads -> [Fds -> {"none", "IN", "OUT"}]]
    BY <1>1 DEF IOTypeOK
  <2>2. [interest EXCEPT ![t][cur[t]] = "OUT"] \in [Threads -> [Fds -> {"none", "IN", "OUT"}]]
    BY <1>2, <2>1, CellType
  <2> QED BY <1>3, <2>1, <2>2
<1>6. /\ pc' \in [Threads -> ClientSteps]
      /\ pc'[t] \in {"get", "dead"}
      /\ \A u \in Threads \ {t} : (pc'[u] = pc[u] \/ pc'[u] = "dead") /\ cur'[u] = cur[u]
  BY <1>1, <1>3 DEF IOTypeOK, Goto, Terminate, ClientSteps, ClientPc
<1>7. CurOK' /\ InHand'
  BY <1>1, <1>3, <1>6 DEF CurOK, HandlerPc, TypeInv, InHand, Stage
<1>8. IOTypeInv(ClientSteps, ClientRets)'
  BY <1>1, <1>3, <1>5, <1>6, <1>7 DEF IOTypeInv, IOTypeOK, bufferVars
<1> QED BY <1>4, <1>7, <1>8, TypeInvParts

(* The end of a connect.                                                   *)
LEMMA ConnectFailedType ==
    ASSUME TypeInv, NEW t \in Threads, ConnectFailed(t)
    PROVE  TypeInv'
<1>1. ClientTypes /\ IOTypeOK(ClientSteps, ClientRets) /\ CurOK /\ Loop(ClientSteps, ClientRets)
  BY TypeInvParts DEF IOTypeInv
<1>2. PICK e \in evs[t] :
          /\ SynDone(t, e)
          /\ CloseFd(e[1]) \/ UNCHANGED kernelVars
          /\ Goto(t, "loop") \/ Goto(t, "events") \/ Terminate
          /\ UNCHANGED <<bufferVars, ret, cur, fd_num, poolVars, init_message, conn, got, dest>>
  BY DEF ConnectFailed, OnConnectFailed
<1>3. /\ e[1] \in Fds /\ evs' = [evs EXCEPT ![t] = @ \ {e}]
      /\ syn_sent' = [syn_sent EXCEPT ![t] = @ \ {e[1]}]
  BY <1>1, <1>2 DEF SynDone, DropEvent, ClientTypes
<1>4. ClientTypes'
  BY <1>1, <1>2, <1>3 DEF ClientTypes, poolVars
<1>5. /\ pc' \in [Threads -> ClientSteps]
      /\ \A u \in Threads : pc'[u] = pc[u] \/ pc'[u] \in {"loop", "events", "dead"}
  BY <1>1, <1>2 DEF IOTypeOK, Goto, Terminate, ClientSteps, ClientPc
<1>6. CurOK' /\ InHand'
  BY <1>1, <1>2, <1>5 DEF CurOK, HandlerPc, TypeInv, InHand, Stage
<1>7. /\ sock' \in [Fds -> Conns \cup {NoConn}]
      /\ interest' \in [Threads -> [Fds -> {"none", "IN", "OUT"}]]
      /\ st' \in [Conns -> {"idle", "pending", "open", "closed"}]
      /\ peer' \in [Conns -> {"up", "fin", "rst"}]
      /\ unread' \in SUBSET Conns
      /\ full' \in SUBSET Conns
      /\ owner' \in [Conns -> Threads \cup {NoThread}]
  <2>1. CASE CloseFd(e[1])
    BY <1>1, <1>3, <2>1, CloseFdType
  <2>2. CASE UNCHANGED kernelVars
    BY <1>1, <2>2 DEF kernelVars, IOTypeOK
  <2> QED BY <1>2, <2>1, <2>2
<1>8. IOTypeInv(ClientSteps, ClientRets)'
  BY <1>1, <1>2, <1>3, <1>5, <1>6, <1>7 DEF IOTypeInv, IOTypeOK, bufferVars
<1> QED BY <1>4, <1>6, <1>8, TypeInvParts

LEMMA ConnectSucceedsType ==
    ASSUME TypeInv, NEW t \in Threads, ConnectSucceeds(t)
    PROVE  TypeInv'
<1>1. ClientTypes /\ IOTypeOK(ClientSteps, ClientRets) /\ CurOK /\ Loop(ClientSteps, ClientRets)
  BY TypeInvParts DEF IOTypeInv
<1>2. PICK e \in evs[t] :
          /\ SynDone(t, e)
          /\ interest' = [interest EXCEPT ![t][e[1]] = "none"]
          /\ createBuffer(t, e[1]) /\ conn' = [conn EXCEPT ![t] = e[1]]
          /\ pc' = [pc EXCEPT ![t] = "first"]
          /\ UNCHANGED <<sock, st, peer, unread, full, owner, ret, cur, fd_num,
                         poolVars, init_message, got, dest>>
  BY DEF ConnectSucceeds, Goto
<1>3. /\ e[1] \in Fds /\ evs' = [evs EXCEPT ![t] = @ \ {e}]
      /\ syn_sent' = [syn_sent EXCEPT ![t] = @ \ {e[1]}]
  BY <1>1, <1>2 DEF SynDone, DropEvent, ClientTypes
<1>4. ClientTypes'
  BY <1>1, <1>2, <1>3 DEF ClientTypes, poolVars
<1>5. /\ keys' \in [Threads -> SUBSET Fds]
      /\ rbh' \in [Threads -> [Fds -> Content]]
      /\ wbh' \in [Threads -> [Fds -> Content]]
      /\ buffer_pool' \in [Threads -> Seq(Content)]
  BY <1>1, <1>2, <1>3, CreateBufferType
<1>6. interest' \in [Threads -> [Fds -> {"none", "IN", "OUT"}]]
  BY <1>1, <1>2, <1>3 DEF IOTypeOK
<1>7. pc' \in [Threads -> ClientSteps] /\ CurOK' /\ InHand'
  BY <1>1, <1>2, <1>3 DEF IOTypeOK, ClientTypes, CurOK, HandlerPc, ClientSteps, ClientPc, TypeInv,
                          InHand, Stage
<1>8. IOTypeInv(ClientSteps, ClientRets)'
  BY <1>1, <1>2, <1>3, <1>5, <1>6, <1>7 DEF IOTypeInv, IOTypeOK
<1> QED BY <1>4, <1>7, <1>8, TypeInvParts

LEMMA StageStepType ==
    ASSUME TypeInv, NEW t \in Threads, FirstWrite(t) \/ OnConnect(t) \/ Arm(t)
    PROVE  TypeInv'
<1>1. ClientTypes /\ IOTypeOK(ClientSteps, ClientRets) /\ CurOK /\ Loop(ClientSteps, ClientRets)
  BY TypeInvParts DEF IOTypeInv
<1>2. conn[t] \in Fds
  BY DEF TypeInv, InHand, Stage, FirstWrite, OnConnect, Arm
<1>3. /\ UNCHANGED <<sock, st, peer, unread, full, owner, keys, rbh, buffer_pool, evs, fd_num,
                     poolVars, syn_sent, init_message, got, dest>>
      /\ UNCHANGED conn \/ (conn' = [conn EXCEPT ![t] = NoFd] /\ pc'[t] \notin HandlerPc
                              /\ pc'[t] \notin {"syn", "first", "established", "arm"}
                              /\ ret' = [ret EXCEPT ![t] = "events"])
      /\ \E r \in ClientRets : ret' = [ret EXCEPT ![t] = r]
      /\ UNCHANGED cur \/ cur' = [cur EXCEPT ![t] = conn[t]]
      /\ UNCHANGED interest \/ interest' = [interest EXCEPT ![t][conn[t]] = "IN"]
      /\ \/ UNCHANGED wbh
         \/ wbh' = [wbh EXCEPT ![t][conn[t]] = @ \cup {init_message[t][conn[t]]}]
         \/ wbh' = [wbh EXCEPT ![t][conn[t]] = @ \cup {sock[conn[t]]}]
      /\ \/ Terminate
         \/ \E l \in {"arm", "loop", "events"} : Goto(t, l)
         \/ Goto(t, "write") /\ cur' = [cur EXCEPT ![t] = conn[t]]
  <2>p. pc \in [Threads -> ClientSteps]
    BY <1>1 DEF IOTypeOK
  <2>1. CASE FirstWrite(t)
    BY <2>1 DEF FirstWrite, clientVars, connVars, kernelVars, ClientRets
  <2>2. CASE OnConnect(t)
    BY <2>2 DEF OnConnect, AppendAndWrite, clientVars, connVars, kernelVars, ClientRets
  <2>3. CASE Arm(t)
    BY <2>p, <2>3 DEF Arm, Goto, Terminate, bufferVars, ClientRets, HandlerPc
  <2> QED BY <2>1, <2>2, <2>3
<1>4. ClientTypes'
  BY <1>1, <1>3 DEF ClientTypes, poolVars
<1>5. wbh' \in [Threads -> [Fds -> Content]]
  <2>1. init_message[t][conn[t]] \in Conns \cup {NoConn} /\ sock[conn[t]] \in Conns \cup {NoConn}
        /\ wbh[t][conn[t]] \in Content
    BY <1>1, <1>2 DEF ClientTypes, IOTypeOK
  <2>2. /\ wbh[t][conn[t]] \cup {init_message[t][conn[t]]} \in Content
        /\ wbh[t][conn[t]] \cup {sock[conn[t]]} \in Content
    BY <2>1 DEF Content
  <2>3. wbh \in [Threads -> [Fds -> Content]]
    BY <1>1 DEF IOTypeOK
  <2>4. \A v \in Content : [wbh EXCEPT ![t][conn[t]] = v] \in [Threads -> [Fds -> Content]]
    BY <1>2, <2>3, CellType
  <2> QED BY <1>3, <2>2, <2>3, <2>4
<1>6. interest' \in [Threads -> [Fds -> {"none", "IN", "OUT"}]]
  <2>1. interest \in [Threads -> [Fds -> {"none", "IN", "OUT"}]]
    BY <1>1 DEF IOTypeOK
  <2>2. [interest EXCEPT ![t][conn[t]] = "IN"] \in [Threads -> [Fds -> {"none", "IN", "OUT"}]]
    BY <1>2, <2>1, CellType
  <2> QED BY <1>3, <2>1, <2>2
<1>7. pc' \in [Threads -> ClientSteps]
  BY <1>1, <1>3 DEF IOTypeOK, Goto, Terminate, ClientSteps, ClientPc, HandlerPc
<1>8. CurOK'
  BY <1>1, <1>2, <1>3 DEF IOTypeOK, Goto, Terminate, HandlerPc, CurOK
<1>9. InHand'
  <2>1. ASSUME NEW u \in Threads \ {t}
        PROVE  /\ pc'[u] \in {pc[u], "dead"} /\ ret'[u] = ret[u] /\ cur'[u] = cur[u]
               /\ conn'[u] = conn[u]
    BY <1>1, <1>3 DEF IOTypeOK, ClientTypes, Goto, Terminate
  <2>2. pc'[t] # "syn"
    BY <1>1, <1>3 DEF IOTypeOK, Goto, Terminate
  <2>3. conn'[t] = conn[t] \/ (pc'[t] \notin {"first", "established", "arm"} /\ ret'[t] = "events")
    BY <1>1, <1>3 DEF IOTypeOK, ClientTypes
  <2> QED BY <1>2, <2>1, <2>2, <2>3 DEF TypeInv, InHand, Stage
<1>10. ret' \in [Threads -> ClientRets] /\ cur' \in [Threads -> Fds \cup {NoFd}]
  <2>1. ret \in [Threads -> ClientRets] /\ cur \in [Threads -> Fds \cup {NoFd}]
    BY <1>1 DEF IOTypeOK
  <2>2. PICK r \in ClientRets : ret' = [ret EXCEPT ![t] = r]
    BY <1>3
  <2>3. UNCHANGED cur \/ cur' = [cur EXCEPT ![t] = conn[t]]
    BY <1>3
  <2> QED BY ONLY t \in Threads, <1>2, <2>1, <2>2, <2>3
<1>11. IOTypeInv(ClientSteps, ClientRets)'
  BY <1>1, <1>3, <1>5, <1>6, <1>7, <1>8, <1>10 DEF IOTypeInv, IOTypeOK
<1> QED BY <1>4, <1>9, <1>11, TypeInvParts

(* The steps of the base class.                                            *)
LEMMA ServeStepType ==
    ASSUME TypeInv, NEW t \in Threads, ServeStep(t)
    PROVE  TypeInv'
<1>1. IOTypeInv(ClientSteps, ClientRets) /\ ClientTypes /\ InHand
  BY TypeInvParts
<1>2. IOTypeInv(ClientSteps, ClientRets)'
  BY <1>1, IOStepType DEF ServeStep
<1>3. ClientTypes'
  BY <1>1 DEF ServeStep, ClientTypes, clientVars, poolVars, connVars
<1>4. /\ \A u \in Threads \ {t} : pc'[u] \in {pc[u], "dead"} /\ ret'[u] = ret[u]
      /\ ret'[t] \in {ret[t], "lock"}
      /\ \/ pc'[t] \in HandlerPc \cup {"loop", "lock", "events", "dead"}
         \/ pc'[t] = ret[t] /\ ret'[t] = ret[t]
  BY <1>1, IOStepControl DEF ServeStep
<1>5. /\ pc'[t] # "syn" /\ pc'[t] # "first"
      /\ \A u \in Threads \ {t} : pc'[u] = "syn" => cur'[u] = cur[u]
  <2>1. ret[t] \in ClientRets
    BY <1>1 DEF IOTypeInv, IOTypeOK
  <2>2. \A u \in Threads \ {t} : cur'[u] = cur[u]
    <3>1. cur \in [Threads -> Fds \cup {NoFd}]
      BY <1>1 DEF IOTypeInv, IOTypeOK
    <3> QED BY <3>1 DEF ServeStep, IOStep, OnEpollLoop, ProcessEvent, OnReadable, OnMessage,
                 WriteFails, WriteCompletes, WriteBlocks, Rearm, OnPassivelyClosed,
                 DestroyAndClose, Finish
  <2> QED BY <1>4, <2>1, <2>2 DEF HandlerPc, ClientRets
<1>6. InHand'
  BY <1>1, <1>4, <1>5 DEF ServeStep, clientVars, connVars, InHand, Stage, HandlerPc
<1> QED BY <1>2, <1>3, <1>6, TypeInvParts

LEMMA EpollWaitType ==
    ASSUME TypeInv, NEW t \in Threads, EpollWait(t)
    PROVE  TypeInv'
<1>1. IOTypeInv(ClientSteps, ClientRets) /\ ClientTypes /\ InHand
  BY TypeInvParts
<1>2. ReadyEvents(t) \in SUBSET Event
  BY DEF ReadyEvents, Event
<1>3. IOTypeInv(ClientSteps, ClientRets)'
  BY <1>1, <1>2, FetchEventsType DEF EpollWait
<1>4. ClientTypes'
  BY <1>1 DEF EpollWait, ClientTypes, clientVars, poolVars, connVars
<1>5. InHand'
  BY <1>1 DEF EpollWait, FetchEvents, Goto, IOTypeInv, IOTypeOK, clientVars, connVars, InHand, Stage
<1> QED BY <1>3, <1>4, <1>5, TypeInvParts

(* The application's threads.                                              *)
LEMMA AddType ==
    ASSUME TypeInv, NEW c \in Conns, Add(c)
    PROVE  TypeInv'
<1>1. IOTypeInv(ClientSteps, ClientRets) /\ ClientTypes /\ InHand
  BY TypeInvParts
<1>2. ClientTypes'
  BY <1>1, RawAddType DEF Add, ClientTypes, connVars
<1>3. UNCHANGED ioVars /\ UNCHANGED conn
  BY DEF Add, connVars
<1>4. IOTypeInv(ClientSteps, ClientRets)' /\ InHand'
  BY <1>1, <1>3 DEF ioVars, kernelVars, bufferVars, controlVars, IOTypeInv, IOTypeOK, CurOK,
                    InHand, Stage
<1> QED BY <1>2, <1>4, TypeInvParts

LEMMA NotifyAllType ==
    ASSUME TypeInv, NEW c \in Conns, NotifyAll(c)
    PROVE  TypeInv'
<1>1. IOTypeInv(ClientSteps, ClientRets) /\ ClientTypes /\ InHand
  BY TypeInvParts
<1>2. ClientTypes'
  BY <1>1 DEF NotifyAll, ClientTypes, connVars
<1>3. /\ pc' \in [Threads -> ClientSteps]
      /\ \A t \in Threads : pc'[t] = pc[t] \/ pc'[t] = "lock"
  BY <1>1 DEF NotifyAll, Awoken, IOTypeInv, IOTypeOK, ClientSteps, ClientPc
<1>4. CurOK' /\ InHand'
  BY <1>1, <1>3 DEF NotifyAll, connVars, IOTypeInv, CurOK, HandlerPc, InHand, Stage
<1>5. IOTypeInv(ClientSteps, ClientRets)'
  BY <1>1, <1>3, <1>4 DEF NotifyAll, kernelVars, bufferVars, IOTypeInv, IOTypeOK
<1> QED BY <1>2, <1>4, <1>5, TypeInvParts

(* The hosts.                                                              *)
LEMMA HostStepType ==
    ASSUME TypeInv, NEW c \in Conns, HostStep(c)
    PROVE  TypeInv'
<1>1. IOTypeInv(ClientSteps, ClientRets) /\ ClientTypes /\ InHand
  BY TypeInvParts
<1>2. UNCHANGED <<sock, interest, owner, bufferVars, controlVars, clientVars>>
  BY DEF HostStep, HostAccepts, PeerSends, PeerReads, PeerCloses, PeerResets
<1>3. /\ st' \in [Conns -> {"idle", "pending", "open", "closed"}]
      /\ peer' \in [Conns -> {"up", "fin", "rst"}]
      /\ unread' \in SUBSET Conns
      /\ full' \in SUBSET Conns
  BY <1>1 DEF HostStep, HostAccepts, PeerSends, PeerReads, PeerCloses, PeerResets, IOTypeInv,
              IOTypeOK
<1>4. IOTypeInv(ClientSteps, ClientRets)' /\ InHand' /\ ClientTypes'
  BY <1>1, <1>2, <1>3 DEF bufferVars, controlVars, clientVars, poolVars, connVars, IOTypeInv,
                          IOTypeOK, CurOK, InHand, Stage, ClientTypes
<1> QED BY <1>4, TypeInvParts

(* All steps preserve the type invariant.                                  *)
LEMMA NextType ==
    ASSUME TypeInv, [Next]_vars
    PROVE  TypeInv'
<1>1. CASE UNCHANGED vars
  BY <1>1 DEF vars, ioVars, kernelVars, bufferVars, controlVars, clientVars, poolVars, connVars,
              TypeInv, TypeOK, IOTypeOK, CurOK, InHand, Stage
<1>2. ASSUME NEW t \in Threads, ClientStep(t) \/ SpuriousWakeup(t)
      PROVE  TypeInv'
  BY <1>2, ServeStepType, CompeteType, GetFromPoolType, ConnectThrowsType, RegisterSynType,
     EpollWaitType, ConnectFailedType, ConnectSucceedsType, StageStepType DEF ClientStep
<1>3. ASSUME NEW c \in Conns, Add(c) \/ NotifyAll(c) \/ HostStep(c)
      PROVE  TypeInv'
  BY <1>3, AddType, NotifyAllType, HostStepType
<1> QED BY <1>1, <1>2, <1>3 DEF Next, Terminated

LEMMA InitType ==
    ASSUME Init
    PROVE  TypeInv
<1>1. IOTypeOK(ClientSteps, ClientRets)
  BY DEF Init, IOInit, IOTypeOK, ClientSteps, ClientRets, ClientPc, Content
<1>2. ClientTypes
  BY ClientAssumption DEF Init, ClientTypes
<1>3. CurOK /\ InHand
  BY DEF Init, IOInit, CurOK, HandlerPc, InHand, Stage
<1> QED BY <1>1, <1>2, <1>3 DEF TypeInv, TypeOK, ClientTypes, ClientSteps, ClientRets

(* The variables of the client's threads keep their types, whatever the    *)
(* callbacks, the hosts and the kernel do: a handler has a descriptor, and *)
(* a batch is never exceeded (IOHandler.h:234-245).                        *)
THEOREM ClientTypesHold == Spec => []TypeOK
<1>1. TypeInv => TypeOK
  BY DEF TypeInv
<1> QED BY <1>1, InitType, NextType, PTL DEF Spec
-----------------------------------------------------------------------------
(* The lock of the pool. *)

(* Whoever takes targets holds the lock; whoever has got this far without  *)
(* a connection found a target, and it is still there because the pool     *)
(* changes under the lock only; and a thread waits for events only after   *)
(* it has had a connection.                                                *)
LockInv ==
    \A t \in Threads :
        /\ pc[t] \in {"get", "syn"} => pool_lock = t
        /\ pc[t] \in {"trylock", "syn", "wait"} => fd_num[t] = 1
        /\ pc[t] = "get" => fd_num[t] = 1 \/ (got[t] = 0 /\ ~PoolEmpty)

(* A step after which nobody but t is at another step, that leaves the     *)
(* pool, its lock and the counters alone, and that does not lead to a step *)
(* LockInv is about.                                                       *)
LEMMA KeepsLock ==
    ASSUME LockInv, UNCHANGED <<pool, pool_lock, fd_num, got>>,
           \A u \in Threads : \/ pc'[u] = pc[u]
                              \/ pc'[u] \notin {"get", "syn", "trylock", "wait"}
    PROVE  LockInv'
BY DEF LockInv, PoolEmpty

(* The steps that change the lock, the pool or the counters.               *)
LEMMA CompeteLock ==
    ASSUME TypeInv, LockInv, NEW t \in Threads,
           \/ LockPool(t) \/ WaitForTarget(t) \/ PeekPool(t) \/ TryLockPool(t)
           \/ TryLockFails(t) \/ UnlockPool(t) \/ SpuriousWakeup(t)
    PROVE  LockInv'
<1>t. /\ pc \in [Threads -> ClientSteps] /\ fd_num \in [Threads -> {0, 1}]
      /\ got \in [Threads -> 0..Batch] /\ NoThread \notin Threads /\ Batch \in Nat \ {0}
  BY SentinelAssumption, ClientAssumption DEF TypeInv, TypeOK, IOTypeOK, ClientSteps
<1>1. CASE LockPool(t)
  BY <1>1, <1>t DEF LockPool, EnterPool, Goto, LockInv, PoolEmpty
<1>2. CASE WaitForTarget(t) \/ SpuriousWakeup(t)
  BY <1>2, <1>t, KeepsLock DEF WaitForTarget, SpuriousWakeup, Goto, clientVars, poolVars, connVars
<1>3. CASE PeekPool(t)
  BY <1>3, <1>t DEF PeekPool, Goto, clientVars, poolVars, connVars, LockInv, PoolEmpty
<1>4. CASE TryLockPool(t)
  BY <1>4, <1>t DEF TryLockPool, EnterPool, Goto, LockInv, PoolEmpty
<1>5. CASE TryLockFails(t)
  BY <1>5, <1>t DEF TryLockFails, Goto, clientVars, poolVars, connVars, LockInv, PoolEmpty
<1>6. CASE UnlockPool(t)
  <2>1. pool_lock = t /\ fd_num[t] = 1
    BY <1>6, <1>t DEF UnlockPool, MoreToGet, LockInv
  <2> QED BY <1>6, <1>t, <2>1 DEF UnlockPool, Goto, connVars, LockInv, PoolEmpty
<1> QED BY <1>1, <1>2, <1>3, <1>4, <1>5, <1>6

LEMMA TakeLock ==
    ASSUME TypeInv, LockInv, NEW t \in Threads,
           GetFromPool(t) \/ ConnectThrows(t) \/ RegisterSyn(t)
    PROVE  LockInv'
<1>t. pc \in [Threads -> ClientSteps] /\ fd_num \in [Threads -> {0, 1}]
  BY DEF TypeInv, TypeOK, IOTypeOK, ClientSteps
<1>1. \A u \in Threads \ {t} : pc[u] \notin {"get", "syn"}
  BY DEF GetFromPool, ConnectThrows, RegisterSyn, LockInv
<1>2. CASE GetFromPool(t)
  BY <1>1, <1>2, <1>t DEF GetFromPool, CountUp, Goto, LockInv
<1>3. CASE ConnectThrows(t)
  BY <1>3 DEF ConnectThrows, Terminate, LockInv
<1>4. CASE RegisterSyn(t)
  <2>1. pool_lock = t /\ fd_num[t] = 1 /\ UNCHANGED <<pool_lock, fd_num>>
    BY <1>4 DEF RegisterSyn, LockInv, poolVars
  <2>2. pc' = [pc EXCEPT ![t] = "get"] \/ pc' = [u \in Threads |-> "dead"]
    BY <1>4 DEF RegisterSyn, Goto, Terminate
  <2> QED BY <1>1, <1>t, <2>1, <2>2 DEF LockInv
<1> QED BY <1>2, <1>3, <1>4

LEMMA NextLock ==
    ASSUME TypeInv, LockInv, [Next]_vars
    PROVE  LockInv'
<1>t. pc \in [Threads -> ClientSteps] /\ ret \in [Threads -> ClientRets]
  BY DEF TypeInv, TypeOK, IOTypeOK, ClientSteps, ClientRets
<1>1. CASE UNCHANGED vars
  BY <1>1, KeepsLock DEF vars, ioVars, controlVars, clientVars, poolVars, connVars
<1>2. ASSUME NEW t \in Threads, ServeStep(t)
      PROVE  LockInv'
  <2>1. /\ \A u \in Threads \ {t} : pc'[u] \in {pc[u], "dead"}
        /\ fd_num' = fd_num
        /\ pc'[t] \in HandlerPc \cup {"loop", "lock", "events", "dead", ret[t]}
    BY <1>2, TypeInvParts, IOStepControl DEF ServeStep
  <2>2. pc'[t] \notin {"get", "syn", "trylock", "wait"}
    BY <1>t, <2>1 DEF HandlerPc, ClientRets
  <2> QED BY <1>2, <2>1, <2>2, KeepsLock DEF ServeStep, clientVars, poolVars, connVars
<1>3. ASSUME NEW t \in Threads, EpollWait(t) \/ FirstWrite(t) \/ OnConnect(t)
      PROVE  LockInv'
  <2>1. /\ Terminate \/ \E l \in {"loop", "events", "write", "arm"} : Goto(t, l)
        /\ UNCHANGED <<pool, pool_lock, fd_num, got>>
    BY <1>3 DEF EpollWait, FetchEvents, FirstWrite, OnConnect, AppendAndWrite, clientVars,
                poolVars, connVars
  <2> QED BY <1>t, <2>1, KeepsLock DEF Goto, Terminate
<1>4. ASSUME NEW t \in Threads, ConnectFailed(t) \/ ConnectSucceeds(t) \/ Arm(t)
      PROVE  LockInv'
  <2>1. /\ Terminate \/ \E l \in {"loop", "events", "first"} : Goto(t, l)
        /\ UNCHANGED <<pool, pool_lock, fd_num, got>>
    BY <1>4 DEF ConnectFailed, ConnectSucceeds, Arm, poolVars
  <2> QED BY <1>t, <2>1, KeepsLock DEF Goto, Terminate
<1>5. ASSUME NEW c \in Conns, Add(c)
      PROVE  LockInv'
  BY <1>5, SentinelAssumption DEF Add, LockInv, ioVars, controlVars, connVars
<1>6. ASSUME NEW c \in Conns, NotifyAll(c)
      PROVE  LockInv'
  BY <1>6, KeepsLock DEF NotifyAll, Awoken, connVars
<1>7. ASSUME NEW c \in Conns, HostStep(c)
      PROVE  LockInv'
  <2>1. UNCHANGED <<pc, fd_num, pool, pool_lock, got>>
    BY <1>7 DEF HostStep, HostAccepts, PeerSends, PeerReads, PeerCloses, PeerResets, controlVars,
                clientVars, poolVars, connVars
  <2> QED BY <2>1, KeepsLock
<1>8. ASSUME NEW t \in Threads, ClientStep(t) \/ SpuriousWakeup(t)
      PROVE  LockInv'
  BY <1>2, <1>3, <1>4, <1>8, CompeteLock, TakeLock DEF ClientStep
<1> QED BY <1>1, <1>5, <1>6, <1>7, <1>8 DEF Next, Terminated

(* The assertions in _run and raw_get hold in every execution, although    *)
(* the size of the pool is read without the lock (IOHandler.h:260-266,     *)
(* TPSharedData.h:75).                                                     *)
THEOREM ClientAsserts == Spec => []AssertsHold
<1>1. Init => LockInv
  BY DEF Init, IOInit, LockInv
<1>2. LockInv => AssertsHold
  <2>1. \A n : n = 1 => n > 0
    OBVIOUS
  <2> QED BY <2>1, Zenon DEF LockInv, AssertsHold, MoreToGet
<1> QED BY <1>1, <1>2, InitType, NextType, NextLock, PTL DEF Spec
-----------------------------------------------------------------------------
(* Targets. *)

Waiting(c) == \E i \in 1..Len(pool[HostKey(HostOf[c])]) : pool[HostKey(HostOf[c])][i] = c

(* The pool holds targets that were added and not tried, each once, under  *)
(* the key of its host; a target that was added and not tried is there     *)
(* unless the process has ended; and only those that were added are tried. *)
PoolInv ==
    /\ \A k \in Keys : \A i \in 1..Len(pool[k]) :
          pool[k][i] \in added /\ st[pool[k][i]] = "idle" /\ HostKey(HostOf[pool[k][i]]) = k
    /\ \A k \in Keys : \A i, j \in 1..Len(pool[k]) : pool[k][i] = pool[k][j] => i = j
    /\ \A c \in added : st[c] = "idle" => Waiting(c) \/ Dead
    /\ \A c \in Conns \ added : st[c] = "idle"
    /\ \A f \in Fds : Connected(f) => st[sock[f]] # "idle"

(* What raw_get leaves: everything but the last message of the first key.  *)
LEMMA RawGetKeeps ==
    ASSUME ClientTypes, ~PoolEmpty, RawGet
    PROVE  /\ \A k \in Keys : \A i \in 1..Len(pool'[k]) :
                 /\ i \in 1..Len(pool[k]) /\ pool'[k][i] = pool[k][i]
                 /\ ~(k = FirstKey /\ i = Len(pool[k]))
           /\ \A k \in Keys : \A i \in 1..Len(pool[k]) :
                 \/ k = FirstKey /\ i = Len(pool[k])
                 \/ i \in 1..Len(pool'[k]) /\ pool'[k][i] = pool[k][i]
<1> DEFINE K == FirstKey
           n == Len(pool[K])
           front == SubSeq(pool[K], 1, n - 1)
<1>1. K \in Keys /\ pool[K] \in Seq(Conns) /\ n \in Nat \ {0}
  BY FirstInUse
<1>2. pool' = [pool EXCEPT ![K] = front] /\ pool \in [Keys -> Seq(Conns)]
  BY DEF RawGet, ClientTypes
<1>3. Len(front) = n - 1 /\ \A i \in 1..n - 1 : front[i] = pool[K][i]
  BY <1>1, AllButLast
<1> HIDE DEF K, front
<1>4. pool'[K] = front /\ \A k \in Keys \ {K} : pool'[k] = pool[k]
  BY <1>1, <1>2
<1>5. \A i \in 1..n - 1 : i \in 1..n /\ i # n
  BY <1>1
<1>6. \A i \in 1..n : i = n \/ i \in 1..n - 1
  BY <1>1
<1> HIDE DEF n
<1>7. ASSUME NEW k \in Keys, NEW i \in 1..Len(pool'[k])
      PROVE  i \in 1..Len(pool[k]) /\ pool'[k][i] = pool[k][i] /\ ~(k = K /\ i = Len(pool[k]))
  BY <1>3, <1>4, <1>5, <1>7 DEF n
<1>8. ASSUME NEW k \in Keys, NEW i \in 1..Len(pool[k])
      PROVE  \/ k = K /\ i = Len(pool[k])
             \/ i \in 1..Len(pool'[k]) /\ pool'[k][i] = pool[k][i]
  BY <1>3, <1>4, <1>6, <1>8 DEF n
<1> QED BY <1>7, <1>8 DEF K

(* What raw_add leaves: everything, and the new target under its key.      *)
LEMMA RawAddKeeps ==
    ASSUME ClientTypes, NEW c \in Conns, RawAdd(c)
    PROVE  /\ \A k \in Keys : \A i \in 1..Len(pool[k]) :
                 i \in 1..Len(pool'[k]) /\ pool'[k][i] = pool[k][i]
           /\ \A k \in Keys : \A i \in 1..Len(pool'[k]) :
                 \/ i \in 1..Len(pool[k]) /\ pool'[k][i] = pool[k][i]
                 \/ k = HostKey(HostOf[c]) /\ i = Len(pool[k]) + 1 /\ pool'[k][i] = c
           /\ Waiting(c)'
<1> DEFINE K == HostKey(HostOf[c])
           n == Len(pool[K])
           more == Append(pool[K], c)
<1>1. K \in Keys /\ pool[K] \in Seq(Conns) /\ n \in Nat
  BY LenProperties DEF Keys, Hosts, ClientTypes
<1>2. pool' = [pool EXCEPT ![K] = more] /\ pool \in [Keys -> Seq(Conns)]
  BY DEF RawAdd, ClientTypes
<1>3. Len(more) = n + 1 /\ more[n + 1] = c /\ \A i \in 1..n : more[i] = pool[K][i]
  BY <1>1, AppendProperties
<1> HIDE DEF K, more
<1>4. pool'[K] = more /\ \A k \in Keys \ {K} : pool'[k] = pool[k]
  BY <1>1, <1>2
<1>5. \A i \in 1..n : i \in 1..n + 1
  BY <1>1
<1>6. \A i \in 1..n + 1 : i = n + 1 \/ i \in 1..n
  BY <1>1
<1>7. n + 1 \in 1..n + 1
  BY <1>1
<1> HIDE DEF n
<1>8. ASSUME NEW k \in Keys, NEW i \in 1..Len(pool[k])
      PROVE  i \in 1..Len(pool'[k]) /\ pool'[k][i] = pool[k][i]
  BY <1>3, <1>4, <1>5, <1>8 DEF n
<1>9. ASSUME NEW k \in Keys, NEW i \in 1..Len(pool'[k])
      PROVE  \/ i \in 1..Len(pool[k]) /\ pool'[k][i] = pool[k][i]
             \/ k = K /\ i = Len(pool[k]) + 1 /\ pool'[k][i] = c
  BY <1>3, <1>4, <1>6, <1>9 DEF n
<1>10. Waiting(c)'
  BY <1>3, <1>4, <1>7 DEF Waiting, K
<1> QED BY <1>8, <1>9, <1>10 DEF K

(* A step that leaves the pool alone, opens no socket and neither starts   *)
(* nor forgets a target.                                                   *)
LEMMA KeepsPool ==
    ASSUME PoolInv, UNCHANGED <<pool, added>>, TypeInv, Dead => Dead',
           \A c \in Conns : st'[c] = "idle" <=> st[c] = "idle",
           \A f \in Fds : Connected(f)' => sock'[f] = sock[f]
    PROVE  PoolInv'
<1>t. ClientTypes /\ sock \in [Fds -> Conns \cup {NoConn}]
  BY TypeInvParts DEF IOTypeInv, IOTypeOK
<1>1. \A k \in Keys : \A i \in 1..Len(pool[k]) : pool[k][i] \in Conns
  BY <1>t, ElementOfSeq DEF ClientTypes
<1>2. \A k \in Keys : \A i \in 1..Len(pool'[k]) :
         pool'[k][i] \in added' /\ st'[pool'[k][i]] = "idle" /\ HostKey(HostOf[pool'[k][i]]) = k
  BY <1>1 DEF PoolInv
<1>3. \A k \in Keys : \A i, j \in 1..Len(pool'[k]) : pool'[k][i] = pool'[k][j] => i = j
  BY DEF PoolInv
<1>4. \A c \in added' : st'[c] = "idle" => Waiting(c)' \/ Dead'
  BY <1>t DEF PoolInv, Waiting, ClientTypes
<1>5. \A c \in Conns \ added' : st'[c] = "idle"
  BY DEF PoolInv
<1>6. \A f \in Fds : Connected(f)' => st'[sock'[f]] # "idle"
  BY <1>t DEF PoolInv, Connected
<1> QED BY <1>2, <1>3, <1>4, <1>5, <1>6 DEF PoolInv

(* What a close means for that.                                            *)
LEMMA CloseKeeps ==
    ASSUME PoolInv, TypeInv, NEW fd \in Fds, CloseFd(fd)
    PROVE  /\ \A c \in Conns : st'[c] = "idle" <=> st[c] = "idle"
           /\ \A f \in Fds : Connected(f)' => sock'[f] = sock[f]
<1>t. sock \in [Fds -> Conns \cup {NoConn}] /\ st \in [Conns -> {"idle", "pending", "open", "closed"}]
  BY TypeInvParts DEF IOTypeInv, IOTypeOK
<1>1. ASSUME NEW c \in Conns PROVE st'[c] = "idle" <=> st[c] = "idle"
  <2>1. CASE c = sock[fd]
    BY <2>1, SentinelAssumption DEF CloseFd, PoolInv, Connected
  <2>2. CASE c # sock[fd]
    BY <2>2 DEF CloseFd
  <2> QED BY <2>1, <2>2
<1>2. \A f \in Fds : Connected(f)' => sock'[f] = sock[f]
  BY <1>t DEF CloseFd, Connected
<1> QED BY <1>1, <1>2

(* A step of the base class touches the sockets only to close the one in   *)
(* hand.                                                                   *)
LEMMA IOStepSockets ==
    ASSUME TypeInv, NEW t \in Threads, IOStep(t)
    PROVE  \/ UNCHANGED <<sock, st>>
           \/ cur[t] \in Fds /\ pc[t] \in HandlerPc /\ CloseFd(cur[t])
<1>1. CASE OnEpollLoop(t) \/ ProcessEvent(t) \/ OnReadable(t) \/ OnMessage(t) \/ WriteFails(t)
           \/ WriteBlocks(t) \/ Rearm(t)
  BY <1>1 DEF OnEpollLoop, ProcessEvent, OnReadable, OnMessage, WriteFails, WriteBlocks, Rearm,
              kernelVars
<1>2. CASE WriteCompletes(t) \/ OnPassivelyClosed(t) \/ DestroyAndClose(t)
  <2>1. pc[t] \in HandlerPc /\ (UNCHANGED <<sock, st>> \/ CloseFd(cur[t]))
    BY <1>2 DEF WriteCompletes, OnPassivelyClosed, DestroyAndClose, AppMayClose, kernelVars,
                HandlerPc
  <2> QED BY <2>1 DEF TypeInv, CurOK
<1> QED BY <1>1, <1>2 DEF IOStep

(* Who takes a step is alive.                                              *)
LEMMA Alive ==
    ASSUME TypeInv, NEW t \in Threads, ClientStep(t) \/ SpuriousWakeup(t)
    PROVE  ~Dead
<1>1. CASE ServeStep(t)
  <2>1. pc[t] \in HandlerPc \cup {"loop", "events"}
    BY <1>1, TypeInvParts, IOStepControl DEF ServeStep
  <2> QED BY <2>1 DEF Dead, HandlerPc
<1>2. CASE ~ServeStep(t)
  <2>1. pc[t] # "dead"
    BY <1>2 DEF ClientStep, SpuriousWakeup, LockPool, WaitForTarget, PeekPool, TryLockPool,
                TryLockFails, GetFromPool, ConnectThrows, RegisterSyn, UnlockPool, EpollWait,
                FetchEvents, ConnectFailed, ConnectSucceeds, SynDone, FirstWrite, OnConnect, Arm
  <2> QED BY <2>1 DEF Dead
<1> QED BY <1>1, <1>2

(* The steps of a thread that take no target.                              *)
LEMMA OwnStepPool ==
    ASSUME TypeInv, PoolInv, NEW t \in Threads, ClientStep(t) \/ SpuriousWakeup(t),
           ~GetFromPool(t), ~ConnectThrows(t)
    PROVE  PoolInv'
<1>1. CASE ServeStep(t) \/ ConnectFailed(t)
  <2>1. UNCHANGED <<pool, added>>
    BY <1>1 DEF ServeStep, ConnectFailed, clientVars, poolVars
  <2>2. UNCHANGED <<sock, st>> \/ \E fd \in Fds : CloseFd(fd)
    <3>1. CASE ServeStep(t)
      BY <3>1, IOStepSockets DEF ServeStep
    <3>2. CASE ConnectFailed(t)
      <4>1. PICK e \in evs[t] : /\ e[1] \in syn_sent[t]
                                /\ UNCHANGED kernelVars \/ CloseFd(e[1])
        BY <3>2 DEF ConnectFailed, SynDone, OnConnectFailed
      <4>2. e[1] \in Fds
        BY <4>1, TypeInvParts DEF ClientTypes
      <4> QED BY <4>1, <4>2 DEF kernelVars
    <3> QED BY <1>1, <3>1, <3>2
  <2>3. CASE UNCHANGED <<sock, st>>
    BY <2>1, <2>3, Alive, KeepsPool DEF Connected
  <2>4. ASSUME NEW fd \in Fds, CloseFd(fd) PROVE PoolInv'
    BY <2>1, <2>4, Alive, KeepsPool, CloseKeeps
  <2> QED BY <2>2, <2>3, <2>4
<1>2. CASE ~ServeStep(t) /\ ~ConnectFailed(t)
  <2>1. UNCHANGED <<pool, added, sock, st>>
    BY <1>2 DEF ClientStep, SpuriousWakeup, LockPool, WaitForTarget, PeekPool, TryLockPool,
                TryLockFails, RegisterSyn, UnlockPool, EpollWait, FetchEvents, ConnectSucceeds,
                FirstWrite, OnConnect, Arm, EnterPool, kernelVars, clientVars, poolVars
  <2> QED BY <2>1, Alive, KeepsPool DEF Connected
<1> QED BY <1>1, <1>2

(* What raw_get takes was waiting, and is nowhere else in the pool.        *)
LEMMA TakenOnce ==
    ASSUME TypeInv, PoolInv, ~PoolEmpty, RawGet
    PROVE  /\ Taken \in added /\ st[Taken] = "idle"
           /\ \A k \in Keys : \A i \in 1..Len(pool'[k]) : pool'[k][i] # Taken
           /\ \A c \in Conns \ {Taken} : Waiting(c) => Waiting(c)'
<1>t. ClientTypes
  BY TypeInvParts
<1>1. /\ FirstKey \in Keys /\ Len(pool[FirstKey]) \in 1..Len(pool[FirstKey])
      /\ Taken = pool[FirstKey][Len(pool[FirstKey])]
  BY <1>t, FirstInUse DEF Taken
<1>2. Taken \in added /\ st[Taken] = "idle" /\ HostKey(HostOf[Taken]) = FirstKey
  BY <1>1 DEF PoolInv
<1> HIDE DEF Taken
<1>3. ASSUME NEW k \in Keys, NEW i \in 1..Len(pool'[k]) PROVE pool'[k][i] # Taken
  <2>1. i \in 1..Len(pool[k]) /\ pool'[k][i] = pool[k][i] /\ ~(k = FirstKey /\ i = Len(pool[k]))
    BY <1>t, RawGetKeeps
  <2>2. HostKey(HostOf[pool[k][i]]) = k
    BY <2>1 DEF PoolInv
  <2>3. CASE k = FirstKey
    BY <1>1, <2>1, <2>3 DEF PoolInv
  <2>4. CASE k # FirstKey
    BY <1>2, <2>1, <2>2, <2>4
  <2> QED BY <2>3, <2>4
<1>4. ASSUME NEW c \in Conns \ {Taken}, Waiting(c) PROVE Waiting(c)'
  <2>1. PICK i \in 1..Len(pool[HostKey(HostOf[c])]) : pool[HostKey(HostOf[c])][i] = c
    BY <1>4 DEF Waiting
  <2>2. HostKey(HostOf[c]) \in Keys
    BY DEF Keys, Hosts
  <2>3. ~(HostKey(HostOf[c]) = FirstKey /\ i = Len(pool[HostKey(HostOf[c])]))
    BY <1>1, <2>1
  <2>4. i \in 1..Len(pool'[HostKey(HostOf[c])]) /\ pool'[HostKey(HostOf[c])][i] = c
    BY <1>t, <2>1, <2>2, <2>3, RawGetKeeps
  <2> QED BY <2>4 DEF Waiting
<1> QED BY <1>2, <1>3, <1>4

LEMMA TakePool ==
    ASSUME TypeInv, PoolInv, NEW t \in Threads, GetFromPool(t) \/ ConnectThrows(t)
    PROVE  PoolInv'
<1>t. ClientTypes /\ sock \in [Fds -> Conns \cup {NoConn}]
      /\ st \in [Conns -> {"idle", "pending", "open", "closed"}]
  BY TypeInvParts DEF IOTypeInv, IOTypeOK
<1>1. ~PoolEmpty /\ RawGet /\ added' = added
  BY DEF GetFromPool, ConnectThrows, MoreToGet
<1>2. /\ Taken \in added /\ st[Taken] = "idle"
      /\ \A k \in Keys : \A i \in 1..Len(pool'[k]) : pool'[k][i] # Taken
      /\ \A c \in Conns \ {Taken} : Waiting(c) => Waiting(c)'
  BY <1>1, TakenOnce
<1>3. Taken \in Conns
  BY <1>t, <1>1, FirstInUse
<1>4. /\ \A k \in Keys : \A i \in 1..Len(pool'[k]) :
            i \in 1..Len(pool[k]) /\ pool'[k][i] = pool[k][i]
      /\ \A k \in Keys : \A i \in 1..Len(pool'[k]) : pool'[k][i] \in Conns
  <2>1. \A k \in Keys : \A i \in 1..Len(pool'[k]) :
            i \in 1..Len(pool[k]) /\ pool'[k][i] = pool[k][i]
    BY <1>t, <1>1, RawGetKeeps
  <2>2. \A k \in Keys : \A i \in 1..Len(pool[k]) : pool[k][i] \in Conns
    BY <1>t, ElementOfSeq DEF ClientTypes
  <2> QED BY <2>1, <2>2
<1> HIDE DEF Taken
<1>5. \A k \in Keys : \A i, j \in 1..Len(pool'[k]) : pool'[k][i] = pool'[k][j] => i = j
  BY <1>4 DEF PoolInv
<1>6. CASE ConnectThrows(t)
  <2>1. Dead' /\ UNCHANGED <<sock, st>>
    BY <1>6 DEF ConnectThrows, Terminate, Dead, kernelVars
  <2>2. \A k \in Keys : \A i \in 1..Len(pool'[k]) :
            pool'[k][i] \in added' /\ st'[pool'[k][i]] = "idle" /\ HostKey(HostOf[pool'[k][i]]) = k
    BY <1>1, <1>4, <2>1 DEF PoolInv
  <2>3. /\ \A c \in Conns \ added' : st'[c] = "idle"
        /\ \A f \in Fds : Connected(f)' => st'[sock'[f]] # "idle"
    BY <1>1, <2>1 DEF PoolInv, Connected
  <2> QED BY <1>5, <2>1, <2>2, <2>3 DEF PoolInv
<1>7. CASE GetFromPool(t)
  <2>1. PICK fd \in Fds : sock' = [sock EXCEPT ![fd] = Taken]
    BY <1>7 DEF GetFromPool, FreeFds
  <2>2. st' = [st EXCEPT ![Taken] = "pending"]
    BY <1>7 DEF GetFromPool
  <2>3. st'[Taken] = "pending" /\ \A c \in Conns \ {Taken} : st'[c] = st[c]
    BY <1>t, <1>3, <2>2
  <2>4. \A k \in Keys : \A i \in 1..Len(pool'[k]) :
            pool'[k][i] \in added' /\ st'[pool'[k][i]] = "idle" /\ HostKey(HostOf[pool'[k][i]]) = k
    BY <1>1, <1>2, <1>4, <2>3 DEF PoolInv
  <2>5. \A c \in added' : st'[c] = "idle" => Waiting(c)' \/ Dead'
    <3>1. ~Dead
      BY <1>7, Alive DEF ClientStep
    <3> QED BY <1>t, <1>1, <1>2, <2>3, <3>1 DEF PoolInv, ClientTypes
  <2>6. \A c \in Conns \ added' : st'[c] = "idle"
    BY <1>1, <1>2, <2>3 DEF PoolInv
  <2>7. \A f \in Fds : Connected(f)' => st'[sock'[f]] # "idle"
    <3>1. ASSUME NEW f \in Fds, sock'[f] # NoConn PROVE st'[sock'[f]] # "idle"
      <4>1. sock'[f] = Taken \/ sock'[f] = sock[f]
        BY <1>t, <2>1
      <4> QED BY <1>t, <2>3, <3>1, <4>1 DEF PoolInv, Connected
    <3> QED BY <3>1 DEF Connected
  <2> QED BY <1>5, <2>4, <2>5, <2>6, <2>7 DEF PoolInv
<1> QED BY <1>6, <1>7

LEMMA AddPool ==
    ASSUME TypeInv, PoolInv, NEW c \in Conns, Add(c)
    PROVE  PoolInv'
<1>t. ClientTypes /\ ClientTypes'
  BY AddType, TypeInvParts
<1>1. /\ c \notin added /\ RawAdd(c) /\ added' = added \cup {c}
      /\ UNCHANGED <<sock, st, pc>>
  BY DEF Add, ioVars, kernelVars, controlVars
<1>2. /\ \A k \in Keys : \A i \in 1..Len(pool[k]) :
            i \in 1..Len(pool'[k]) /\ pool'[k][i] = pool[k][i]
      /\ \A k \in Keys : \A i \in 1..Len(pool'[k]) :
            \/ i \in 1..Len(pool[k]) /\ pool'[k][i] = pool[k][i]
            \/ k = HostKey(HostOf[c]) /\ i = Len(pool[k]) + 1 /\ pool'[k][i] = c
      /\ Waiting(c)'
  BY <1>t, <1>1, RawAddKeeps
<1>3. st[c] = "idle" /\ \A k \in Keys : \A i \in 1..Len(pool[k]) : pool[k][i] # c
  BY <1>1 DEF PoolInv
<1>4. \A k \in Keys : \A i \in 1..Len(pool'[k]) :
          pool'[k][i] \in added' /\ st'[pool'[k][i]] = "idle" /\ HostKey(HostOf[pool'[k][i]]) = k
  BY <1>1, <1>2, <1>3 DEF PoolInv
<1>5. \A k \in Keys : \A i, j \in 1..Len(pool'[k]) : pool'[k][i] = pool'[k][j] => i = j
  <2> SUFFICES ASSUME NEW k \in Keys, NEW i \in 1..Len(pool'[k]), NEW j \in 1..Len(pool'[k]),
                      pool'[k][i] = pool'[k][j]
               PROVE  i = j
    OBVIOUS
  <2>1. /\ \/ i \in 1..Len(pool[k]) /\ pool'[k][i] = pool[k][i]
           \/ i = Len(pool[k]) + 1 /\ pool'[k][i] = c
        /\ \/ j \in 1..Len(pool[k]) /\ pool'[k][j] = pool[k][j]
           \/ j = Len(pool[k]) + 1 /\ pool'[k][j] = c
    BY <1>2
  <2> QED BY <1>3, <2>1 DEF PoolInv
<1>6. ASSUME NEW d \in added', st'[d] = "idle" PROVE Waiting(d)' \/ Dead'
  <2>1. CASE d = c
    BY <1>2, <2>1
  <2>2. CASE d \in added /\ Dead
    BY <1>1, <2>2 DEF Dead
  <2>3. CASE d \in added /\ Waiting(d)
    <3>1. HostKey(HostOf[d]) \in Keys
      BY <1>t, <2>3 DEF ClientTypes, Keys, Hosts
    <3>2. PICK i \in 1..Len(pool[HostKey(HostOf[d])]) : pool[HostKey(HostOf[d])][i] = d
      BY <2>3 DEF Waiting
    <3>3. i \in 1..Len(pool'[HostKey(HostOf[d])]) /\ pool'[HostKey(HostOf[d])][i] = d
      BY <1>2, <3>1, <3>2
    <3> QED BY <3>3 DEF Waiting
  <2> QED BY <1>1, <1>6, <2>1, <2>2, <2>3 DEF PoolInv
<1>7. /\ \A d \in Conns \ added' : st'[d] = "idle"
      /\ \A f \in Fds : Connected(f)' => st'[sock'[f]] # "idle"
  BY <1>1 DEF PoolInv, Connected
<1> QED BY <1>4, <1>5, <1>6, <1>7 DEF PoolInv

LEMMA NextPool ==
    ASSUME TypeInv, PoolInv, [Next]_vars
    PROVE  PoolInv'
<1>1. CASE UNCHANGED vars
  BY <1>1, KeepsPool DEF vars, ioVars, kernelVars, controlVars, clientVars, poolVars, Connected,
                         Dead
<1>2. ASSUME NEW t \in Threads, ClientStep(t) \/ SpuriousWakeup(t)
      PROVE  PoolInv'
  BY <1>2, OwnStepPool, TakePool
<1>3. ASSUME NEW c \in Conns, NotifyAll(c)
      PROVE  PoolInv'
  <2>1. UNCHANGED <<pool, added, sock, st>> /\ (Dead => Dead')
    BY <1>3 DEF NotifyAll, kernelVars, Dead, Awoken
  <2> QED BY <2>1, KeepsPool DEF Connected
<1>4. ASSUME NEW c \in Conns, HostStep(c)
      PROVE  PoolInv'
  <2>1. /\ UNCHANGED <<pool, added, sock, pc>>
        /\ UNCHANGED st \/ (st[c] = "pending" /\ st' = [st EXCEPT ![c] = "open"])
    BY <1>4 DEF HostStep, HostAccepts, PeerSends, PeerReads, PeerCloses, PeerResets, clientVars,
                poolVars, controlVars
  <2>2. \A d \in Conns : st'[d] = "idle" <=> st[d] = "idle"
    BY <2>1 DEF TypeInv, TypeOK, IOTypeOK
  <2> QED BY <2>1, <2>2, KeepsPool DEF Connected, Dead
<1> QED BY <1>1, <1>2, <1>3, <1>4, AddPool DEF Next, Terminated

LEMMA InitPool ==
    ASSUME Init
    PROVE  PoolInv
BY SentinelAssumption DEF Init, IOInit, PoolInv, Connected

(* PoolInv says where a target is.                                         *)
LEMMA PoolInvTargetOnce ==
    ASSUME TypeInv, PoolInv
    PROVE  TargetOnce
<1> SUFFICES ASSUME NEW c \in Conns
             PROVE  LET places == {p \in Keys \X (1..Len(pool[HostKey(HostOf[c])])) :
                                     p[2] <= Len(pool[p[1]]) /\ pool[p[1]][p[2]] = c}
                    IN  \/ places = {} /\ (c \in added => st[c] # "idle" \/ Dead)
                        \/ (\E p \in places : places = {p}) /\ c \in added /\ st[c] = "idle"
  BY DEF TargetOnce
<1> DEFINE K == HostKey(HostOf[c])
           places == {p \in Keys \X (1..Len(pool[K])) :
                        p[2] <= Len(pool[p[1]]) /\ pool[p[1]][p[2]] = c}
<1>1. K \in Keys /\ pool \in [Keys -> Seq(Conns)]
  BY TypeInvParts DEF Keys, Hosts, ClientTypes
<1>2. \A k \in Keys : Len(pool[k]) \in Nat
  BY <1>1, LenProperties
<1> HIDE DEF K
<1>3. ASSUME NEW p \in places
      PROVE  p = <<K, p[2]>> /\ p[2] \in 1..Len(pool[K]) /\ pool[K][p[2]] = c
  <2>1. /\ p = <<p[1], p[2]>> /\ p[1] \in Keys /\ p[2] \in 1..Len(pool[K])
        /\ p[2] <= Len(pool[p[1]]) /\ pool[p[1]][p[2]] = c
    BY <1>3
  <2>2. p[2] \in 1..Len(pool[p[1]])
    BY <1>1, <1>2, <2>1
  <2>3. p[1] = K
    BY <2>1, <2>2 DEF PoolInv, K
  <2> QED BY <2>1, <2>3
<1>4. \A i \in 1..Len(pool[K]) : pool[K][i] = c => <<K, i>> \in places
  BY <1>1, <1>2
<1>5. \A i, j \in 1..Len(pool[K]) : pool[K][i] = pool[K][j] => i = j
  BY <1>1 DEF PoolInv
<1> HIDE DEF places
<1>6. CASE Waiting(c)
  <2>1. PICK i \in 1..Len(pool[K]) : pool[K][i] = c
    BY <1>6 DEF Waiting, K
  <2>2. <<K, i>> \in places /\ places = {<<K, i>>}
    BY <1>3, <1>4, <1>5, <2>1
  <2>3. c \in added /\ st[c] = "idle"
    BY <1>1, <2>1 DEF PoolInv
  <2> QED BY <2>2, <2>3 DEF places, K
<1>7. CASE ~Waiting(c)
  <2>1. places = {}
    BY <1>3, <1>7 DEF Waiting, K
  <2>2. c \in added => st[c] # "idle" \/ Dead
    BY <1>7 DEF PoolInv
  <2> QED BY <2>1, <2>2 DEF places, K
<1> QED BY <1>6, <1>7

(* Competing threads neither lose nor repeat a target: at any time one     *)
(* that was added is in the pool exactly once, or one thread has taken it  *)
(* (TPSharedData.h:61-83, IOHandler.h:235-238, 254-265).                   *)
THEOREM TargetsTakenOnce == Spec => []TargetOnce
<1> QED BY InitType, NextType, InitPool, NextPool, PoolInvTargetOnce, PTL DEF Spec
-----------------------------------------------------------------------------
(* One thread per socket, and no stale events: for applications that do    *)
(* not close connections in their callbacks, and peers that are not lost   *)
(* between the first message and the registration for reading.             *)

Quiet == AppCloses = {} /\ EarlyLoss = FALSE

Has(t, f) == f \in keys[t] \/ Connecting(t, f)

(* A socket has one descriptor, and one thread: the one that took its      *)
(* target, which is either connecting it or has buffers for it.            *)
OwnInv ==
    /\ \A f, g \in Fds : Connected(f) /\ sock[f] = sock[g] => f = g
    /\ \A f \in Fds : Connected(f) => st[sock[f]] \in {"pending", "open"}
    /\ \A f \in Fds, t \in Threads :
          /\ Connected(f) /\ owner[sock[f]] = t <=> Has(t, f)
          /\ ~(f \in keys[t] /\ Connecting(t, f))
          /\ interest[t][f] # "none" => f \in keys[t] \cup syn_sent[t]

(* From the end of the connect to the registration for reading the thread  *)
(* is not disturbed: the connection is its own, open, in no epoll instance *)
(* and in none of the events left.                                         *)
StageOK(t) ==
    Stage(t) =>
        /\ pc[t] \in {"first", "established", "arm"} \/ (pc[t] = "write" /\ cur[t] = conn[t])
        /\ pc[t] # "first" => ret[t] \in {"established", "arm"}
        /\ conn[t] \in keys[t] /\ interest[t][conn[t]] = "none"
        /\ st[sock[conn[t]]] = "open"
        /\ \A e \in evs[t] : e[1] # conn[t]

(* Until it is registered, an established connection has a peer and room   *)
(* in its send buffer.                                                     *)
Fresh(t, f) == Connecting(t, f) \/ (Stage(t) /\ f = conn[t])

FreshInv ==
    \A t \in Threads, f \in Fds :
        Fresh(t, f) /\ st[sock[f]] = "open" => peer[sock[f]] = "up" /\ sock[f] \notin full

(* The steps at which all fetched events have been processed.              *)
Between == {"loop", "lock", "asleep", "trylock", "get", "syn", "wait"}

(* The events left are about descriptors of the thread, with the event     *)
(* they are still registered for, and not about the one in hand.           *)
EventOK(t) ==
    /\ \A e \in evs[t] : e[1] \in keys[t] \cup syn_sent[t] /\ interest[t][e[1]] = e[2]
    /\ pc[t] \in HandlerPc => cur[t] \in keys[t] /\ \A e \in evs[t] : e[1] # cur[t]
    /\ pc[t] \in Between \/ (pc[t] \in HandlerPc /\ ret[t] = "lock") => evs[t] = {}
    /\ pc[t] \in {"events", "first"} => ret[t] = "events"

ThreadsOK == \A t \in Threads : StageOK(t) /\ EventOK(t)

LiveInv == OwnInv /\ FreshInv /\ ThreadsOK

(* What is said of a descriptor follows from who has it.                   *)
LEMMA HasOne ==
    ASSUME OwnInv, NEW t \in Threads, NEW u \in Threads, NEW f \in Fds, Has(t, f), Has(u, f)
    PROVE  t = u
BY DEF OwnInv

LEMMA FreshHas ==
    ASSUME TypeInv, ThreadsOK, NEW t \in Threads, NEW f \in Fds, Fresh(t, f)
    PROVE  Has(t, f)
BY DEF ThreadsOK, StageOK, Fresh, Has

(* A step that leaves the tables and the sockets alone.                    *)
LEMMA KeepsOwn ==
    ASSUME OwnInv, UNCHANGED <<sock, owner, keys, syn_sent>>,
           \A t \in Threads : /\ pc'[t] = "syn" <=> pc[t] = "syn"
                              /\ pc[t] = "syn" => cur'[t] = cur[t],
           \A f \in Fds : Connected(f) => st'[sock[f]] \in {"pending", "open"},
           \A t \in Threads, f \in Fds : \/ interest'[t][f] = interest[t][f]
                                         \/ f \in keys[t] \cup syn_sent[t]
    PROVE  OwnInv'
<1>1. \A t \in Threads, f \in Fds :
          (Connecting(t, f)' <=> Connecting(t, f)) /\ (Has(t, f)' <=> Has(t, f))
  BY DEF Connecting, Has
<1> QED BY <1>1 DEF OwnInv, Connected

(* A thread that takes no step, when nothing happens to its descriptors.   *)
LEMMA OtherKeeps ==
    ASSUME TypeInv, NEW u \in Threads, StageOK(u), EventOK(u),
           pc'[u] = pc[u], ret'[u] = ret[u], cur'[u] = cur[u], conn'[u] = conn[u],
           evs'[u] = evs[u], keys'[u] = keys[u], syn_sent'[u] = syn_sent[u],
           \A f \in keys[u] \cup syn_sent[u] :
               /\ interest'[u][f] = interest[u][f]
               /\ sock'[f] = sock[f] /\ st'[sock[f]] = st[sock[f]]
    PROVE  StageOK(u)' /\ EventOK(u)'
<1>1. Stage(u)' <=> Stage(u)
  BY DEF Stage
<1>2. StageOK(u)'
  BY <1>1 DEF StageOK
<1>3. EventOK(u)'
  BY DEF EventOK
<1> QED BY <1>2, <1>3

(* The connections that are not registered yet, when nothing happens to    *)
(* them.                                                                   *)
LEMMA KeepsFresh ==
    ASSUME FreshInv,
           \A t \in Threads, f \in Fds :
               Fresh(t, f)' /\ st'[sock'[f]] = "open" =>
                  /\ Fresh(t, f) /\ st[sock[f]] = "open"
                  /\ sock'[f] = sock[f] /\ (sock[f] \in full' => sock[f] \in full)
                  /\ peer'[sock[f]] = peer[sock[f]]
    PROVE  FreshInv'
BY DEF FreshInv

(* A thread closes a descriptor it has, and forgets it.                    *)
LEMMA CloseLive ==
    ASSUME TypeInv, LiveInv, NEW t \in Threads, NEW d \in Fds, Has(t, d), CloseFd(d),
           keys'[t] = keys[t] \ {d}, syn_sent'[t] = syn_sent[t] \ {d}, conn' = conn,
           pc[t] # "syn", pc'[t] # "syn", ~Stage(t)',
           \A u \in Threads \ {t} :
               /\ keys'[u] = keys[u] /\ syn_sent'[u] = syn_sent[u] /\ evs'[u] = evs[u]
               /\ pc'[u] = pc[u] /\ ret'[u] = ret[u] /\ cur'[u] = cur[u]
    PROVE  /\ OwnInv' /\ FreshInv'
           /\ \A u \in Threads \ {t} : StageOK(u)' /\ EventOK(u)'
<1> USE DEF LiveInv
<1>t. /\ sock \in [Fds -> Conns \cup {NoConn}] /\ NoConn \notin Conns
      /\ interest \in [Threads -> [Fds -> {"none", "IN", "OUT"}]]
      /\ keys \in [Threads -> SUBSET Fds] /\ syn_sent \in [Threads -> SUBSET Fds]
  BY SentinelAssumption DEF TypeInv, TypeOK, IOTypeOK
<1>1. /\ Connected(d) /\ owner[sock[d]] = t
      /\ \A u \in Threads \ {t} : ~Has(u, d)
  BY HasOne DEF OwnInv
<1>2. /\ sock'[d] = NoConn
      /\ \A u \in Threads : interest'[u][d] = "none"
      /\ \A f \in Fds \ {d} : sock'[f] = sock[f]
      /\ \A u \in Threads : \A f \in Fds \ {d} : interest'[u][f] = interest[u][f]
      /\ full' \subseteq full
  BY <1>t DEF CloseFd
<1>3. \A f \in Fds \ {d} : sock[f] # sock[d]
  BY <1>1 DEF OwnInv
<1>4. \A f \in Fds \ {d} : Connected(f) => /\ st'[sock[f]] = st[sock[f]]
                                           /\ owner'[sock[f]] = owner[sock[f]]
                                           /\ peer'[sock[f]] = peer[sock[f]]
  BY <1>t, <1>3 DEF CloseFd, Connected
<1>5. \A u \in Threads, f \in Fds \ {d} :
          (Connecting(u, f)' <=> Connecting(u, f)) /\ (Has(u, f)' <=> Has(u, f))
  BY DEF Connecting, Has
<1>6. \A u \in Threads : ~Has(u, d)'
  BY <1>1 DEF Connecting, Has
<1>7. OwnInv'
  <2>1. \A f, g \in Fds : Connected(f)' /\ sock'[f] = sock'[g] => f = g
    BY <1>2 DEF OwnInv, Connected
  <2>2. \A f \in Fds : Connected(f)' => st'[sock'[f]] \in {"pending", "open"}
    BY <1>2, <1>4 DEF OwnInv, Connected
  <2>3. ASSUME NEW f \in Fds, NEW u \in Threads
        PROVE  /\ Connected(f)' /\ owner'[sock'[f]] = u <=> Has(u, f)'
               /\ ~(f \in keys'[u] /\ Connecting(u, f)')
               /\ interest'[u][f] # "none" => f \in keys'[u] \cup syn_sent'[u]
    <3>1. CASE f = d
      BY <1>2, <1>6, <3>1 DEF Connected, Has
    <3>2. CASE f # d
      <4>1. Connected(f)' /\ owner'[sock'[f]] = u <=> Has(u, f)'
        BY <1>2, <1>4, <1>5, <3>2 DEF OwnInv, Connected
      <4>2. f \in keys'[u] <=> f \in keys[u]
        BY <3>2
      <4>3. f \in syn_sent'[u] <=> f \in syn_sent[u]
        BY <3>2
      <4> QED BY <1>2, <1>5, <3>2, <4>1, <4>2, <4>3 DEF OwnInv
    <3> QED BY <3>1, <3>2
  <2> QED BY <2>1, <2>2, <2>3 DEF OwnInv
<1>8. FreshInv'
  <2>1. ASSUME NEW u \in Threads, NEW f \in Fds, Fresh(u, f)', st'[sock'[f]] = "open"
        PROVE  /\ Fresh(u, f) /\ st[sock[f]] = "open"
               /\ sock'[f] = sock[f] /\ (sock[f] \in full' => sock[f] \in full)
               /\ peer'[sock[f]] = peer[sock[f]]
    <3>1. f # d
      <4>1. CASE u = t
        BY <1>6, <2>1, <4>1 DEF Fresh, Has
      <4>2. CASE u # t
        <5>1. Fresh(u, d)' => Fresh(u, d)
          BY <4>2 DEF Fresh, Stage, Connecting
        <5> QED BY <1>1, <2>1, <4>2, <5>1, FreshHas
      <4> QED BY <4>1, <4>2
    <3>2. Fresh(u, f)
      <4>1. CASE u = t
        BY <1>5, <2>1, <3>1, <4>1 DEF Fresh
      <4>2. CASE u # t
        BY <2>1, <4>2 DEF Fresh, Stage, Connecting
      <4> QED BY <4>1, <4>2
    <3>3. Connected(f)
      BY <3>2, FreshHas DEF OwnInv
    <3> QED BY <1>2, <1>4, <2>1, <3>1, <3>2, <3>3
  <2> QED BY <1>2, <2>1, KeepsFresh
<1>9. ASSUME NEW u \in Threads \ {t}
      PROVE  StageOK(u)' /\ EventOK(u)'
  <2>1. ASSUME NEW f \in keys[u] \cup syn_sent[u]
        PROVE  /\ interest'[u][f] = interest[u][f]
               /\ sock'[f] = sock[f] /\ st'[sock[f]] = st[sock[f]]
    <3>1. f \in Fds /\ Has(u, f)
      BY <1>t, <2>1 DEF Has, Connecting
    <3>2. f # d /\ Connected(f)
      BY <1>1, <3>1 DEF OwnInv
    <3> QED BY <1>2, <1>4, <3>1, <3>2
  <2>2. StageOK(u) /\ EventOK(u)
    BY DEF ThreadsOK
  <2> QED BY <2>1, <2>2, OtherKeeps
<1> QED BY <1>7, <1>8, <1>9

(* A step of a thread that opens and closes nothing: it changes the        *)
(* registration of descriptors it has buffers for, and it may fill the     *)
(* send buffer of one that is registered.                                  *)
LEMMA LocalLive ==
    ASSUME TypeInv, LiveInv, NEW t \in Threads,
           UNCHANGED <<sock, st, owner, peer, keys, syn_sent>>,
           pc[t] # "syn", pc'[t] # "syn",
           \A u \in Threads \ {t} :
               /\ pc'[u] = pc[u] /\ ret'[u] = ret[u] /\ cur'[u] = cur[u]
               /\ evs'[u] = evs[u] /\ conn'[u] = conn[u] /\ interest'[u] = interest[u],
           \A f \in Fds : interest'[t][f] = interest[t][f] \/ f \in keys[t],
           Stage(t)' => Stage(t) /\ conn'[t] = conn[t],
           \/ full' = full
           \/ \E d \in keys[t] : full' = full \cup {sock[d]} /\ ~Stage(t)',
           StageOK(t)', EventOK(t)'
    PROVE  LiveInv'
<1> USE DEF LiveInv
<1>t. keys \in [Threads -> SUBSET Fds] /\ syn_sent \in [Threads -> SUBSET Fds]
  BY DEF TypeInv, TypeOK, IOTypeOK
<1>1. OwnInv'
  <2>1. \A u \in Threads : /\ pc'[u] = "syn" <=> pc[u] = "syn"
                           /\ pc[u] = "syn" => cur'[u] = cur[u]
    OBVIOUS
  <2>2. \A u \in Threads, f \in Fds : \/ interest'[u][f] = interest[u][f]
                                      \/ f \in keys[u] \cup syn_sent[u]
    OBVIOUS
  <2>3. \A f \in Fds : Connected(f) => st'[sock[f]] \in {"pending", "open"}
    BY DEF OwnInv
  <2> QED BY <2>1, <2>2, <2>3, KeepsOwn
<1>2. ASSUME NEW u \in Threads, NEW f \in Fds, Fresh(u, f)'
      PROVE  Fresh(u, f) /\ (sock[f] \in full' => sock[f] \in full)
  <2>1. Fresh(u, f)
    BY <1>2 DEF Fresh, Stage, Connecting
  <2>2. CASE full' = full
    BY <2>1, <2>2
  <2>3. ASSUME NEW d \in keys[t], full' = full \cup {sock[d]}, ~Stage(t)'
        PROVE  sock[f] \in full' => sock[f] \in full
    <3>1. d \in Fds /\ Has(t, d) /\ ~Connecting(t, d) /\ Connected(d)
      BY <1>t, <2>3 DEF Has, OwnInv
    <3>2. f # d
      <4>1. CASE u = t
        BY <1>2, <2>3, <3>1, <4>1 DEF Fresh, Connecting
      <4>2. CASE u # t
        BY <2>1, <3>1, <4>2, FreshHas, HasOne
      <4> QED BY <4>1, <4>2
    <3>3. sock[f] # sock[d]
      BY <3>1, <3>2 DEF OwnInv
    <3> QED BY <2>3, <3>3
  <2> QED BY <2>1, <2>2, <2>3
<1>3. FreshInv'
  BY <1>2, KeepsFresh
<1>4. ASSUME NEW u \in Threads \ {t}
      PROVE  StageOK(u)' /\ EventOK(u)'
  <2>1. StageOK(u) /\ EventOK(u)
    BY DEF ThreadsOK
  <2> QED BY <2>1, OtherKeeps
<1> QED BY <1>1, <1>3, <1>4 DEF ThreadsOK

(* What a handler finds: its descriptor is the thread's, and the events    *)
(* left are about others.  A connection that is not registered yet takes   *)
(* what is written to it.                                                  *)
LEMMA InHandler ==
    ASSUME TypeInv, LiveInv, NEW t \in Threads, pc[t] \in HandlerPc
    PROVE  /\ cur[t] \in Fds /\ cur[t] \in keys[t] /\ Connected(cur[t])
           /\ \A e \in evs[t] : e[1] # cur[t]
           /\ ret[t] = "lock" => evs[t] = {}
           /\ Stage(t) => /\ pc[t] = "write" /\ cur[t] = conn[t]
                          /\ ret[t] \in {"established", "arm"}
                          /\ peer[sock[cur[t]]] = "up" /\ sock[cur[t]] \notin full
<1>1. StageOK(t) /\ EventOK(t) /\ OwnInv /\ FreshInv
  BY DEF LiveInv, ThreadsOK
<1>2. cur[t] \in Fds
  BY DEF TypeInv, CurOK
<1>3. Connected(cur[t])
  BY <1>1, <1>2 DEF EventOK, OwnInv, Has
<1>4. Stage(t) => pc[t] = "write" /\ cur[t] = conn[t] /\ ret[t] \in {"established", "arm"}
                  /\ st[sock[cur[t]]] = "open"
  BY <1>1 DEF StageOK, HandlerPc
<1>5. Stage(t) => peer[sock[cur[t]]] = "up" /\ sock[cur[t]] \notin full
  BY <1>1, <1>2, <1>4 DEF FreshInv, Fresh
<1> QED BY <1>1, <1>2, <1>3, <1>4, <1>5 DEF EventOK

(* A handler goes on with its connection.                                  *)
LEMMA HandlerGoesOn ==
    ASSUME TypeInv, LiveInv, NEW t \in Threads, pc[t] \in HandlerPc, ~Stage(t),
           NEW l \in HandlerPc, Goto(t, l),
           UNCHANGED <<sock, st, owner, peer, keys, syn_sent, ret, cur, evs, conn>>,
           \A u \in Threads \ {t} : interest'[u] = interest[u],
           \A f \in Fds : interest'[t][f] = interest[t][f] \/ f = cur[t],
           \/ full' = full
           \/ full' = full \cup {sock[cur[t]]}
    PROVE  LiveInv'
<1>t. pc \in [Threads -> ClientSteps] /\ keys \in [Threads -> SUBSET Fds]
      /\ syn_sent \in [Threads -> SUBSET Fds] /\ evs \in [Threads -> SUBSET Event]
  BY DEF TypeInv, TypeOK, IOTypeOK, ClientSteps
<1>1. /\ cur[t] \in keys[t] /\ \A e \in evs[t] : e[1] # cur[t]
      /\ ret[t] = "lock" => evs[t] = {}
  BY InHandler
<1>2. pc'[t] = l /\ l \notin Between \cup {"events", "first", "established", "arm", "syn"}
      /\ \A u \in Threads \ {t} : pc'[u] = pc[u]
  BY <1>t DEF Goto, HandlerPc, Between
<1>3. ~Stage(t)'
  BY <1>2 DEF Stage
<1>4. \A e \in evs[t] : e[1] \in keys[t] \cup syn_sent[t] /\ interest'[t][e[1]] = e[2]
  BY <1>t, <1>1 DEF LiveInv, ThreadsOK, EventOK
<1>5. EventOK(t)'
  BY <1>1, <1>2, <1>4 DEF EventOK
<1>6. StageOK(t)'
  BY <1>3 DEF StageOK
<1>7. pc[t] # "syn" /\ pc'[t] # "syn"
  BY <1>2 DEF HandlerPc
<1> QED BY <1>1, <1>2, <1>3, <1>5, <1>6, <1>7, LocalLive

(* A handler returns.                                                      *)
LEMMA HandlerReturns ==
    ASSUME TypeInv, LiveInv, NEW t \in Threads, pc[t] \in HandlerPc, Finish(t),
           UNCHANGED <<sock, st, owner, peer, keys, syn_sent, ret, evs, conn>>,
           \A u \in Threads \ {t} : interest'[u] = interest[u],
           \A f \in Fds : \/ interest'[t][f] = interest[t][f]
                          \/ f = cur[t] /\ ~Stage(t),
           \/ full' = full
           \/ full' = full \cup {sock[cur[t]]} /\ ~Stage(t)
    PROVE  LiveInv'
<1>t. /\ pc \in [Threads -> ClientSteps] /\ keys \in [Threads -> SUBSET Fds]
      /\ syn_sent \in [Threads -> SUBSET Fds] /\ evs \in [Threads -> SUBSET Event]
      /\ ret \in [Threads -> ClientRets] /\ cur \in [Threads -> Fds \cup {NoFd}]
  BY DEF TypeInv, TypeOK, IOTypeOK, ClientSteps, ClientRets
<1>0. StageOK(t) /\ EventOK(t)
  BY DEF LiveInv, ThreadsOK
<1>1. /\ cur[t] \in keys[t] /\ \A e \in evs[t] : e[1] # cur[t]
      /\ ret[t] = "lock" => evs[t] = {}
      /\ Stage(t) => ret[t] \in {"established", "arm"}
  BY InHandler
<1>2. /\ pc'[t] = NextAfter(t)
      /\ \A u \in Threads \ {t} : pc'[u] = pc[u] /\ cur'[u] = cur[u]
  BY <1>t DEF Finish, Goto
<1>3. NextAfter(t) \in {"loop", "lock", "events", "established", "arm"}
  BY <1>t DEF NextAfter, ClientRets
<1>4. \/ pc'[t] = "loop" /\ ret[t] = "events" /\ evs[t] = {}
      \/ pc'[t] = ret[t]
  BY <1>2 DEF NextAfter
<1>5. \A e \in evs[t] : e[1] \in keys[t] \cup syn_sent[t] /\ interest'[t][e[1]] = e[2]
  BY <1>t, <1>0, <1>1 DEF EventOK
<1>6. EventOK(t)'
  <2>1. pc'[t] \notin HandlerPc
    BY <1>2, <1>3 DEF HandlerPc
  <2>2. pc'[t] \in Between => evs[t] = {}
    BY <1>t, <1>1, <1>4 DEF Between, ClientRets
  <2>3. pc'[t] \in {"events", "first"} => ret[t] = "events"
    BY <1>t, <1>4 DEF ClientRets
  <2> QED BY <1>5, <2>1, <2>2, <2>3 DEF EventOK
<1>7. Stage(t)' <=> Stage(t)
  BY <1>t, <1>4 DEF Stage, HandlerPc, ClientRets
<1>8. StageOK(t)'
  <2>1. CASE ~Stage(t)
    BY <1>7, <2>1 DEF StageOK
  <2>2. CASE Stage(t)
    <3>1. pc'[t] \in {"established", "arm"} /\ ret[t] \in {"established", "arm"}
      BY <1>1, <1>4, <2>2
    <3>2. /\ conn[t] \in keys[t] /\ interest[t][conn[t]] = "none" /\ st[sock[conn[t]]] = "open"
          /\ \A e \in evs[t] : e[1] # conn[t]
      BY <1>0, <2>2 DEF StageOK
    <3>3. interest'[t][conn[t]] = "none"
      BY <1>t, <2>2, <3>2
    <3> QED BY <3>1, <3>2, <3>3 DEF StageOK
  <2> QED BY <2>1, <2>2
<1>9. pc[t] # "syn" /\ pc'[t] # "syn"
  BY <1>2, <1>3 DEF HandlerPc
<1>10. \A f \in Fds : interest'[t][f] = interest[t][f] \/ f \in keys[t]
  BY <1>1
<1>11. full' = full \/ \E d \in keys[t] : full' = full \cup {sock[d]} /\ ~Stage(t)'
  BY <1>1, <1>7
<1> QED BY <1>2, <1>6, <1>7, <1>8, <1>9, <1>10, <1>11, LocalLive

(* The steps of the base class.                                            *)
LEMMA ServeLive ==
    ASSUME TypeInv, LiveInv, Quiet, NEW t \in Threads, ServeStep(t)
    PROVE  LiveInv'
<1>t. /\ pc \in [Threads -> ClientSteps] /\ keys \in [Threads -> SUBSET Fds]
      /\ syn_sent \in [Threads -> SUBSET Fds] /\ evs \in [Threads -> SUBSET Event]
      /\ ret \in [Threads -> ClientRets] /\ cur \in [Threads -> Fds \cup {NoFd}]
      /\ interest \in [Threads -> [Fds -> {"none", "IN", "OUT"}]]
  BY DEF TypeInv, TypeOK, IOTypeOK, ClientSteps, ClientRets
<1>0. StageOK(t) /\ EventOK(t)
  BY DEF LiveInv, ThreadsOK
<1>c. UNCHANGED <<syn_sent, conn>>
  BY DEF ServeStep, clientVars, connVars
<1>h. ASSUME pc[t] \in HandlerPc
      PROVE  /\ cur[t] \in Fds /\ cur[t] \in keys[t] /\ Connected(cur[t])
             /\ Stage(t) => pc[t] = "write" /\ ret[t] \in {"established", "arm"}
                            /\ peer[sock[cur[t]]] = "up" /\ sock[cur[t]] \notin full
  BY <1>h, InHandler
<1>1. CASE OnEpollLoop(t)
  <2>1. /\ pc[t] = "loop" /\ ret' = [ret EXCEPT ![t] = "lock"]
        /\ UNCHANGED <<kernelVars, keys, evs>>
        /\ \/ Goto(t, "lock") /\ UNCHANGED cur
           \/ \E fd \in keys[t] : cur' = [cur EXCEPT ![t] = fd] /\ Goto(t, "write")
    BY <1>1 DEF OnEpollLoop, AppendAndWrite
  <2>2. /\ ret'[t] = "lock" /\ evs[t] = {}
        /\ pc'[t] = "lock" \/ (pc'[t] = "write" /\ cur'[t] \in keys[t])
        /\ \A u \in Threads \ {t} : pc'[u] = pc[u] /\ ret'[u] = ret[u] /\ cur'[u] = cur[u]
    BY <1>t, <1>0, <2>1 DEF Goto, EventOK, Between
  <2>3. EventOK(t)'
    <3>1. evs'[t] = {} /\ keys'[t] = keys[t] /\ pc'[t] \notin {"events", "first"}
      BY <2>1, <2>2
    <3>2. pc'[t] \in HandlerPc => cur'[t] \in keys[t]
      BY <2>2 DEF HandlerPc
    <3> QED BY <3>1, <3>2 DEF EventOK
  <2>4. ~Stage(t)'
    BY <2>2 DEF Stage
  <2>5. StageOK(t)'
    BY <2>4 DEF StageOK
  <2> QED BY <1>c, <2>1, <2>2, <2>3, <2>4, <2>5, LocalLive DEF kernelVars
<1>2. CASE ProcessEvent(t)
  <2>1. PICK e \in evs[t] :
            /\ e[1] \in Fds /\ evs' = [evs EXCEPT ![t] = @ \ {e}]
            /\ cur' = [cur EXCEPT ![t] = e[1]]
            /\ e[1] \in keys[t] => Goto(t, IF e[2] = "IN" THEN "read" ELSE "flush")
    BY <1>2 DEF ProcessEvent, DropEvent
  <2>2. pc[t] = "events" /\ UNCHANGED <<kernelVars, bufferVars, ret>> /\ ret[t] = "events"
    BY <1>0, <1>2 DEF ProcessEvent, EventOK
  <2>3. cur'[t] = e[1]
    BY <1>t, <2>1
  <2>4. e[1] \in keys[t] /\ interest[t][e[1]] = e[2]
    BY <1>0, <2>2, <2>3 DEF ServeStep, EventOK
  <2>e. /\ pc'[t] \in {"read", "flush"} /\ evs'[t] = evs[t] \ {e}
        /\ \A u \in Threads \ {t} : pc'[u] = pc[u] /\ cur'[u] = cur[u] /\ evs'[u] = evs[u]
    BY <1>t, <2>1, <2>4 DEF Goto
  <2>5. \A d \in evs[t] \ {e} : d[1] # e[1]
    <3>1. \A d \in evs[t] : d = <<d[1], d[2]>> /\ interest[t][d[1]] = d[2]
      BY <1>t, <1>0 DEF Event, EventOK
    <3> QED BY <3>1
  <2>6. EventOK(t)'
    BY <1>0, <1>c, <2>2, <2>3, <2>e, <2>4, <2>5 DEF EventOK, kernelVars, bufferVars, Between
  <2>7. ~Stage(t)'
    BY <2>2, <2>e DEF Stage
  <2>8. StageOK(t)'
    BY <2>7 DEF StageOK
  <2>9. pc'[t] # "syn"
    BY <2>e
  <2> QED BY <1>c, <2>2, <2>3, <2>e, <2>6, <2>7, <2>8, <2>9, LocalLive DEF kernelVars, bufferVars
<1>3. CASE OnReadable(t)
  <2>1. /\ pc[t] \in HandlerPc /\ pc[t] # "write"
        /\ Goto(t, "clean") \/ Goto(t, "message")
        /\ UNCHANGED <<sock, interest, st, peer, full, owner, keys, ret, cur, evs>>
    BY <1>3 DEF OnReadable, HandlerPc
  <2>2. ~Stage(t) /\ "clean" \in HandlerPc /\ "message" \in HandlerPc
    BY <1>h, <2>1 DEF HandlerPc
  <2> QED BY <1>c, <2>1, <2>2, HandlerGoesOn
<1>4. CASE OnMessage(t)
  <2>1. /\ pc[t] \in HandlerPc /\ pc[t] # "write"
        /\ Finish(t) \/ ((Goto(t, "write") \/ Goto(t, "clean")) /\ UNCHANGED cur)
        /\ UNCHANGED <<kernelVars, keys, ret, evs>>
    BY <1>4 DEF OnMessage, AppendAndWrite, HandlerPc
  <2>2. ~Stage(t) /\ "clean" \in HandlerPc /\ "write" \in HandlerPc
    BY <1>h, <2>1 DEF HandlerPc
  <2> QED BY <1>c, <2>1, <2>2, HandlerGoesOn, HandlerReturns DEF kernelVars
<1>5. CASE WriteFails(t)
  <2>1. /\ pc[t] \in HandlerPc /\ WriteThrows(cur[t]) /\ Goto(t, "clean")
        /\ UNCHANGED <<kernelVars, bufferVars, ret, cur, evs>>
    BY <1>5 DEF WriteFails, HandlerPc
  <2>2. ~Stage(t) /\ "clean" \in HandlerPc
    BY <1>h, <2>1 DEF WriteThrows, HandlerPc
  <2> QED BY <1>c, <2>1, <2>2, HandlerGoesOn DEF kernelVars, bufferVars
<1>6. CASE WriteCompletes(t)
  <2>1. /\ pc[t] \in HandlerPc
        /\ UNCHANGED <<kernelVars, keys, ret, evs>>
        /\ \/ pc[t] = "flush" /\ Goto(t, "rearm") /\ UNCHANGED cur
           \/ Finish(t)
    BY <1>6 DEF WriteCompletes, AppMayClose, Quiet, HandlerPc
  <2>2. pc[t] = "flush" => ~Stage(t)
    BY <1>h, <2>1
  <2>3. "rearm" \in HandlerPc
    BY DEF HandlerPc
  <2> QED BY <1>c, <2>1, <2>2, <2>3, HandlerGoesOn, HandlerReturns DEF kernelVars
<1>7. CASE WriteBlocks(t)
  <2>1. /\ pc[t] \in HandlerPc /\ full' = full \cup {sock[cur[t]]}
        /\ UNCHANGED <<sock, st, peer, owner, keys, ret, evs>>
        /\ UNCHANGED interest \/ \E v : interest' = [interest EXCEPT ![t][cur[t]] = v]
        /\ Finish(t) \/ (Goto(t, "clean") /\ UNCHANGED cur)
    BY <1>7 DEF WriteBlocks, HandlerPc
  <2>2. ~Stage(t)
    <3>1. Stage(t) => full' = full
      BY <1>h, <2>1 DEF ServeStep, Quiet
    <3> QED BY <1>h, <2>1, <3>1
  <2>3. /\ \A u \in Threads \ {t} : interest'[u] = interest[u]
        /\ \A f \in Fds : interest'[t][f] = interest[t][f] \/ f = cur[t]
    BY <1>t, <2>1
  <2>4. "clean" \in HandlerPc
    BY DEF HandlerPc
  <2> QED BY <1>c, <2>1, <2>2, <2>3, <2>4, HandlerGoesOn, HandlerReturns
<1>8. CASE Rearm(t)
  <2>1. /\ pc[t] \in HandlerPc /\ pc[t] # "write"
        /\ UNCHANGED <<sock, st, peer, full, owner, bufferVars, ret, evs>>
        /\ UNCHANGED interest \/ interest' = [interest EXCEPT ![t][cur[t]] = "IN"]
        /\ Finish(t) \/ (Goto(t, "clean") /\ UNCHANGED cur)
    BY <1>8 DEF Rearm, HandlerPc
  <2>2. ~Stage(t) /\ "clean" \in HandlerPc
    BY <1>h, <2>1 DEF HandlerPc
  <2>3. /\ \A u \in Threads \ {t} : interest'[u] = interest[u]
        /\ \A f \in Fds : interest'[t][f] = interest[t][f] \/ f = cur[t]
    BY <1>t, <2>1
  <2> QED BY <1>c, <2>1, <2>2, <2>3, HandlerGoesOn, HandlerReturns DEF bufferVars
<1>9. CASE OnPassivelyClosed(t)
  <2>1. /\ pc[t] \in HandlerPc /\ pc[t] # "write" /\ Goto(t, "destroy")
        /\ UNCHANGED <<kernelVars, keys, ret, cur, evs>>
    BY <1>9 DEF OnPassivelyClosed, AppMayClose, Quiet, HandlerPc
  <2>2. ~Stage(t) /\ "destroy" \in HandlerPc
    BY <1>h, <2>1 DEF HandlerPc
  <2> QED BY <1>c, <2>1, <2>2, HandlerGoesOn DEF kernelVars
<1>10. CASE DestroyAndClose(t)
  <2>1. /\ pc[t] = "destroy" /\ CloseFd(cur[t]) /\ Finish(t)
        /\ keys' = [keys EXCEPT ![t] = @ \ {cur[t]}] /\ UNCHANGED <<ret, evs>>
    BY <1>10 DEF DestroyAndClose, destoryBuffer
  <2>2. /\ cur[t] \in Fds /\ cur[t] \in keys[t] /\ Has(t, cur[t]) /\ ~Stage(t)
        /\ \A e \in evs[t] : e[1] # cur[t]
        /\ ret[t] = "lock" => evs[t] = {}
    BY <2>1, InHandler DEF HandlerPc, Has
  <2>3. cur[t] \notin syn_sent[t]
    BY <2>2 DEF LiveInv, OwnInv, Connecting
  <2>4. /\ pc'[t] = NextAfter(t)
        /\ keys'[t] = keys[t] \ {cur[t]} /\ syn_sent'[t] = syn_sent[t] \ {cur[t]}
        /\ \A u \in Threads \ {t} :
              /\ keys'[u] = keys[u] /\ syn_sent'[u] = syn_sent[u] /\ evs'[u] = evs[u]
              /\ pc'[u] = pc[u] /\ ret'[u] = ret[u] /\ cur'[u] = cur[u]
    BY <1>t, <1>c, <2>1, <2>3 DEF Finish, Goto
  <2>5. /\ ret[t] \in {"lock", "events"} /\ pc'[t] \in {"loop", "lock", "events"}
        /\ pc'[t] \in Between => evs[t] = {}
        /\ pc'[t] = "events" => ret[t] = "events"
    BY <1>t, <2>2, <2>4 DEF NextAfter, ClientRets, Stage, Between
  <2>6. ~Stage(t)'
    BY <2>1, <2>5 DEF Stage
  <2>7. StageOK(t)'
    BY <2>6 DEF StageOK
  <2>8. EventOK(t)'
    <3>1. \A e \in evs[t] : interest'[t][e[1]] = interest[t][e[1]]
      <4>1. \A e \in evs[t] : e[1] \in Fds
        BY <1>t, <1>0 DEF EventOK
      <4>2. \A f \in Fds \ {cur[t]} : interest'[t][f] = interest[t][f]
        BY <1>t, <2>1 DEF CloseFd
      <4> QED BY <2>2, <4>1, <4>2
    <3>2. \A e \in evs[t] : e[1] \in keys'[t] \cup syn_sent'[t] /\ interest'[t][e[1]] = e[2]
      BY <1>0, <2>2, <2>4, <3>1 DEF EventOK
    <3>3. pc'[t] \notin HandlerPc
      BY <2>5 DEF HandlerPc
    <3> QED BY <2>1, <2>5, <3>2, <3>3 DEF EventOK
  <2>9. pc[t] # "syn" /\ pc'[t] # "syn"
    BY <2>1, <2>5
  <2>10. OwnInv' /\ FreshInv' /\ \A u \in Threads \ {t} : StageOK(u)' /\ EventOK(u)'
    BY <1>c, <2>1, <2>2, <2>4, <2>6, <2>9, CloseLive
  <2> QED BY <2>7, <2>8, <2>10 DEF LiveInv, ThreadsOK
<1> QED BY <1>1, <1>2, <1>3, <1>4, <1>5, <1>6, <1>7, <1>8, <1>9, <1>10 DEF ServeStep, IOStep

(* Waiting and competing for the pool.                                     *)
LEMMA CompeteLive ==
    ASSUME TypeInv, LiveInv, NEW t \in Threads,
           \/ LockPool(t) \/ WaitForTarget(t) \/ PeekPool(t) \/ TryLockPool(t)
           \/ TryLockFails(t) \/ UnlockPool(t) \/ SpuriousWakeup(t)
    PROVE  LiveInv'
<1>t. pc \in [Threads -> ClientSteps]
  BY DEF TypeInv, TypeOK, IOTypeOK, ClientSteps
<1>0. StageOK(t) /\ EventOK(t)
  BY DEF LiveInv, ThreadsOK
<1>1. PICK l \in {"lock", "asleep", "trylock", "get", "wait"} : Goto(t, l)
  BY DEF LockPool, WaitForTarget, PeekPool, TryLockPool, TryLockFails, UnlockPool,
         SpuriousWakeup, EnterPool
<1>2. /\ pc[t] \in {"lock", "asleep", "trylock", "get"}
      /\ UNCHANGED <<kernelVars, bufferVars, ret, cur, evs, syn_sent, conn>>
  BY DEF LockPool, WaitForTarget, PeekPool, TryLockPool, TryLockFails, UnlockPool,
         SpuriousWakeup, EnterPool, clientVars, connVars
<1>3. /\ pc'[t] = l /\ \A u \in Threads \ {t} : pc'[u] = pc[u]
      /\ evs[t] = {} /\ ret[t] \notin {"established", "arm"}
  BY <1>t, <1>0, <1>1, <1>2 DEF Goto, EventOK, StageOK, Stage, Between
<1>4. ~Stage(t)'
  BY <1>2, <1>3 DEF Stage
<1>5. StageOK(t)'
  BY <1>4 DEF StageOK
<1>6. EventOK(t)'
  <2>1. evs'[t] = {} /\ pc'[t] \notin HandlerPc \cup {"events", "first"}
    BY <1>2, <1>3 DEF HandlerPc
  <2> QED BY <2>1 DEF EventOK
<1>7. pc[t] # "syn" /\ pc'[t] # "syn"
  BY <1>2, <1>3
<1> QED BY <1>2, <1>3, <1>4, <1>5, <1>6, <1>7, LocalLive DEF kernelVars, bufferVars

(* The events that epoll_wait returns are about registered descriptors.    *)
LEMMA EpollWaitLive ==
    ASSUME TypeInv, LiveInv, NEW t \in Threads, EpollWait(t)
    PROVE  LiveInv'
<1>t. /\ pc \in [Threads -> ClientSteps] /\ ret \in [Threads -> ClientRets]
      /\ evs \in [Threads -> SUBSET Event]
  BY DEF TypeInv, TypeOK, IOTypeOK, ClientSteps, ClientRets
<1>1. /\ pc[t] = "wait" /\ UNCHANGED <<kernelVars, bufferVars, cur, syn_sent, conn>>
      /\ pc'[t] \in {"loop", "events"} /\ ret'[t] = "events" /\ evs'[t] = ReadyEvents(t)
      /\ pc'[t] = "loop" => evs'[t] = {}
      /\ \A u \in Threads \ {t} : pc'[u] = pc[u] /\ ret'[u] = ret[u] /\ evs'[u] = evs[u]
  BY <1>t DEF EpollWait, FetchEvents, Goto, clientVars, connVars
<1>2. \A e \in ReadyEvents(t) : e[1] \in Fds /\ interest[t][e[1]] = e[2] /\ e[2] # "none"
  BY DEF ReadyEvents
<1>3. \A e \in ReadyEvents(t) : e[1] \in keys[t] \cup syn_sent[t]
  BY <1>2 DEF LiveInv, OwnInv
<1>4. EventOK(t)'
  <2>1. pc'[t] \notin HandlerPc /\ (pc'[t] \in Between => evs'[t] = {})
    BY <1>1 DEF HandlerPc, Between
  <2> QED BY <1>1, <1>2, <1>3, <2>1 DEF EventOK, kernelVars, bufferVars
<1>5. ~Stage(t)'
  BY <1>1 DEF Stage
<1>6. StageOK(t)'
  BY <1>5 DEF StageOK
<1>7. pc[t] # "syn" /\ pc'[t] # "syn"
  BY <1>1
<1> QED BY <1>1, <1>4, <1>5, <1>6, <1>7, LocalLive DEF kernelVars, bufferVars

(* The first message, the onConnect callback and the registration.         *)
LEMMA StageStepLive ==
    ASSUME TypeInv, LiveInv, NEW t \in Threads, FirstWrite(t) \/ OnConnect(t) \/ Arm(t)
    PROVE  LiveInv' \/ Dead'
<1>t. /\ pc \in [Threads -> ClientSteps] /\ ret \in [Threads -> ClientRets]
      /\ cur \in [Threads -> Fds \cup {NoFd}] /\ conn \in [Threads -> Fds \cup {NoFd}]
      /\ interest \in [Threads -> [Fds -> {"none", "IN", "OUT"}]]
      /\ keys \in [Threads -> SUBSET Fds] /\ syn_sent \in [Threads -> SUBSET Fds]
  BY DEF TypeInv, TypeOK, IOTypeOK, ClientSteps, ClientRets
<1>0. StageOK(t) /\ EventOK(t)
  BY DEF LiveInv, ThreadsOK
<1>1. /\ pc[t] \in {"first", "established", "arm"} /\ Stage(t)
      /\ conn[t] \in keys[t] /\ conn[t] \in Fds
      /\ interest[t][conn[t]] = "none" /\ st[sock[conn[t]]] = "open"
      /\ \A e \in evs[t] : e[1] # conn[t]
  BY <1>t, <1>0 DEF FirstWrite, OnConnect, Arm, StageOK, Stage
<1>2. CASE Terminate
  BY <1>2 DEF Terminate, Dead
<1>3. CASE (FirstWrite(t) \/ OnConnect(t)) /\ ~Terminate
  <2>1. /\ UNCHANGED <<kernelVars, keys, evs, syn_sent, conn>>
        /\ \E r \in {"established", "arm"} : ret' = [ret EXCEPT ![t] = r]
        /\ \/ Goto(t, "write") /\ cur' = [cur EXCEPT ![t] = conn[t]]
           \/ Goto(t, "arm") /\ UNCHANGED cur
    <3>1. CASE FirstWrite(t)
      BY <3>1 DEF FirstWrite, clientVars, connVars
    <3>2. CASE OnConnect(t)
      BY <1>3, <3>2 DEF OnConnect, AppendAndWrite, clientVars, connVars
    <3> QED BY <1>3, <3>1, <3>2
  <2>2. /\ ret'[t] \in {"established", "arm"}
        /\ pc'[t] = "arm" \/ (pc'[t] = "write" /\ cur'[t] = conn[t])
        /\ \A u \in Threads \ {t} : pc'[u] = pc[u] /\ ret'[u] = ret[u] /\ cur'[u] = cur[u]
    BY <1>t, <2>1 DEF Goto
  <2>3. EventOK(t)'
    <3>1. pc'[t] \in HandlerPc => cur'[t] = conn[t]
      BY <2>2 DEF HandlerPc
    <3>2. pc'[t] \notin Between \cup {"events", "first"} /\ ret'[t] # "lock"
      BY <2>2 DEF Between
    <3>3. /\ keys'[t] = keys[t] /\ syn_sent'[t] = syn_sent[t] /\ evs'[t] = evs[t]
          /\ interest' = interest
      BY <2>1 DEF kernelVars
    <3>4. \A e \in evs[t] : e[1] \in keys[t] \cup syn_sent[t] /\ interest[t][e[1]] = e[2]
      BY <1>0 DEF EventOK
    <3> QED BY <1>1, <3>1, <3>2, <3>3, <3>4 DEF EventOK
  <2>4. StageOK(t)'
    BY <1>1, <2>1, <2>2 DEF StageOK, kernelVars
  <2>5. pc[t] # "syn" /\ pc'[t] # "syn"
    BY <1>1, <2>2
  <2> QED BY <1>1, <2>1, <2>2, <2>3, <2>4, <2>5, LocalLive DEF kernelVars
<1>4. CASE Arm(t) /\ ~Terminate
  <2>1. /\ interest' = [interest EXCEPT ![t][conn[t]] = "IN"]
        /\ Goto(t, IF evs[t] = {} THEN "loop" ELSE "events")
        /\ conn' = [conn EXCEPT ![t] = NoFd] /\ ret' = [ret EXCEPT ![t] = "events"]
        /\ UNCHANGED <<sock, st, peer, full, owner, keys, cur, evs, syn_sent>>
    BY <1>4 DEF Arm, bufferVars
  <2>2. /\ ret'[t] = "events" /\ pc'[t] \in {"loop", "events"}
        /\ pc'[t] = "loop" => evs[t] = {}
        /\ \A u \in Threads \ {t} : pc'[u] = pc[u] /\ ret'[u] = ret[u] /\ conn'[u] = conn[u]
    BY <1>t, <2>1 DEF Goto
  <2>3. /\ \A u \in Threads \ {t} : interest'[u] = interest[u]
        /\ \A f \in Fds : interest'[t][f] = interest[t][f] \/ f = conn[t]
    BY <1>t, <2>1
  <2>4. ~Stage(t)'
    BY <2>2 DEF Stage
  <2>5. StageOK(t)'
    BY <2>4 DEF StageOK
  <2>6. EventOK(t)'
    <3>1. pc'[t] \notin HandlerPc /\ (pc'[t] \in Between => evs[t] = {})
      BY <2>2 DEF HandlerPc, Between
    <3>2. \A e \in evs[t] : e[1] \in keys[t] \cup syn_sent[t] /\ interest[t][e[1]] = e[2]
      BY <1>0 DEF EventOK
    <3>3. \A e \in evs[t] : interest'[t][e[1]] = e[2]
      BY <1>t, <1>1, <2>3, <3>2
    <3>4. UNCHANGED <<keys, evs, syn_sent>>
      BY <2>1
    <3> QED BY <2>2, <3>1, <3>2, <3>3, <3>4 DEF EventOK
  <2>7. pc[t] # "syn" /\ pc'[t] # "syn"
    BY <1>1, <2>2
  <2> QED BY <1>1, <2>1, <2>2, <2>3, <2>4, <2>5, <2>6, <2>7, LocalLive
<1> QED BY <1>2, <1>3, <1>4

(* Taking a target: the new socket is nobody's, and its target has none.   *)
LEMMA GetFromPoolLive ==
    ASSUME TypeInv, LiveInv, PoolInv, NEW t \in Threads, GetFromPool(t)
    PROVE  LiveInv'
<1> USE DEF LiveInv
<1>t. /\ pc \in [Threads -> ClientSteps] /\ cur \in [Threads -> Fds \cup {NoFd}]
      /\ sock \in [Fds -> Conns \cup {NoConn}] /\ NoConn \notin Conns
      /\ st \in [Conns -> {"idle", "pending", "open", "closed"}]
      /\ owner \in [Conns -> Threads \cup {NoThread}]
      /\ keys \in [Threads -> SUBSET Fds] /\ syn_sent \in [Threads -> SUBSET Fds]
      /\ ClientTypes
  BY TypeInvParts, SentinelAssumption DEF TypeInv, TypeOK, IOTypeOK, ClientSteps
<1>1. /\ Taken \in Conns /\ st[Taken] = "idle"
  BY <1>t, FirstInUse, TakenOnce DEF GetFromPool, MoreToGet
<1> HIDE DEF Taken
<1>2. PICK d \in Fds : /\ ~Connected(d) /\ sock' = [sock EXCEPT ![d] = Taken]
                       /\ cur' = [cur EXCEPT ![t] = d]
  BY DEF GetFromPool, FreeFds
<1>3. /\ pc[t] = "get" /\ pc' = [pc EXCEPT ![t] = "syn"]
      /\ st' = [st EXCEPT ![Taken] = "pending"] /\ full' = full \cup {Taken}
      /\ owner' = [owner EXCEPT ![Taken] = t]
      /\ UNCHANGED <<interest, peer, keys, ret, evs, syn_sent, conn>>
  BY DEF GetFromPool, Goto, bufferVars
<1>4. /\ pc'[t] = "syn" /\ cur'[t] = d /\ sock'[d] = Taken /\ st'[Taken] = "pending"
      /\ owner'[Taken] = t
      /\ \A u \in Threads \ {t} : pc'[u] = pc[u] /\ cur'[u] = cur[u]
      /\ \A f \in Fds \ {d} : sock'[f] = sock[f]
      /\ \A c \in Conns \ {Taken} : st'[c] = st[c] /\ owner'[c] = owner[c]
  BY <1>t, <1>1, <1>2, <1>3
<1>5. \A f \in Fds : sock[f] # Taken
  BY <1>t, <1>1 DEF PoolInv, Connected
<1>6. \A u \in Threads : ~Has(u, d)
  BY <1>2 DEF OwnInv
<1>7. \A f \in Fds \ {d} : Connected(f) => /\ st'[sock[f]] = st[sock[f]]
                                           /\ owner'[sock[f]] = owner[sock[f]]
  BY <1>t, <1>4, <1>5 DEF Connected
<1>8. /\ \A u \in Threads, f \in Fds \ {d} : Connecting(u, f)' <=> Connecting(u, f)
      /\ \A u \in Threads \ {t}, f \in Fds : Connecting(u, f)' <=> Connecting(u, f)
      /\ Connecting(t, d)'
  BY <1>3, <1>4 DEF Connecting
<1>9. OwnInv'
  <2>1. \A f, g \in Fds : Connected(f)' /\ sock'[f] = sock'[g] => f = g
    BY <1>4, <1>5 DEF OwnInv, Connected
  <2>2. \A f \in Fds : Connected(f)' => st'[sock'[f]] \in {"pending", "open"}
    BY <1>4, <1>7 DEF OwnInv, Connected
  <2>3. ASSUME NEW f \in Fds, NEW u \in Threads
        PROVE  /\ Connected(f)' /\ owner'[sock'[f]] = u <=> Has(u, f)'
               /\ ~(f \in keys'[u] /\ Connecting(u, f)')
               /\ interest'[u][f] # "none" => f \in keys'[u] \cup syn_sent'[u]
    <3>1. CASE f = d
      <4>1. Connected(f)' /\ owner'[sock'[f]] = t
        BY <1>t, <1>1, <1>4, <3>1 DEF Connected
      <4>2. f \notin keys'[u] /\ (Has(u, f)' <=> u = t)
        BY <1>3, <1>6, <1>8, <3>1 DEF Has
      <4>3. interest'[u][f] = "none"
        BY <1>3, <1>6, <3>1 DEF OwnInv, Has, Connecting
      <4> QED BY <4>1, <4>2, <4>3
    <3>2. CASE f # d
      <4>1. Connected(f)' /\ owner'[sock'[f]] = u <=> Connected(f) /\ owner[sock[f]] = u
        BY <1>4, <1>7, <3>2 DEF Connected
      <4>2. Has(u, f)' <=> Has(u, f)
        BY <1>3, <1>8, <3>2 DEF Has
      <4>3. ~(f \in keys'[u] /\ Connecting(u, f)')
        BY <1>3, <1>8, <3>2 DEF OwnInv
      <4> QED BY <1>3, <4>1, <4>2, <4>3 DEF OwnInv
    <3> QED BY <3>1, <3>2
  <2> QED BY <2>1, <2>2, <2>3 DEF OwnInv
<1>10. StageOK(t) /\ EventOK(t)
  BY DEF ThreadsOK
<1>11. ~Stage(t) /\ ~Stage(t)' /\ evs'[t] = {}
  BY <1>3, <1>4, <1>10 DEF StageOK, EventOK, Stage, Between
<1>12. StageOK(t)' /\ EventOK(t)'
  <2>1. pc'[t] \notin HandlerPc \cup {"events", "first"}
    BY <1>4 DEF HandlerPc
  <2> QED BY <1>11, <2>1 DEF StageOK, EventOK
<1>13. ASSUME NEW u \in Threads \ {t}
       PROVE  StageOK(u)' /\ EventOK(u)'
  <2>1. ASSUME NEW f \in keys[u] \cup syn_sent[u]
        PROVE  sock'[f] = sock[f] /\ st'[sock[f]] = st[sock[f]]
    <3>1. f \in Fds /\ Has(u, f)
      BY <1>t, <2>1 DEF Has, Connecting
    <3>2. f # d /\ Connected(f)
      BY <1>6, <3>1 DEF OwnInv
    <3> QED BY <1>4, <1>7, <3>1, <3>2
  <2>2. StageOK(u) /\ EventOK(u)
    BY DEF ThreadsOK
  <2> QED BY <1>3, <1>4, <2>1, <2>2, OtherKeeps
<1>14. FreshInv'
  <2>1. ASSUME NEW u \in Threads, NEW f \in Fds, Fresh(u, f)', st'[sock'[f]] = "open"
        PROVE  /\ Fresh(u, f) /\ st[sock[f]] = "open"
               /\ sock'[f] = sock[f] /\ (sock[f] \in full' => sock[f] \in full)
    <3>1. f # d
      BY <1>4, <2>1
    <3>2. Fresh(u, f)
      <4>1. Stage(u)' => Stage(u)
        BY <1>3, <1>4, <1>11 DEF Stage
      <4> QED BY <1>3, <1>8, <2>1, <3>1, <4>1 DEF Fresh
    <3>3. Connected(f)
      BY <3>2, FreshHas DEF OwnInv
    <3> QED BY <1>3, <1>4, <1>5, <1>7, <2>1, <3>1, <3>2, <3>3
  <2> QED BY <1>3, <2>1, KeepsFresh
<1> QED BY <1>9, <1>12, <1>13, <1>14 DEF ThreadsOK

(* The registration of the new socket.                                     *)
LEMMA RegisterSynLive ==
    ASSUME TypeInv, LiveInv, NEW t \in Threads, RegisterSyn(t)
    PROVE  LiveInv' \/ Dead'
<1> USE DEF LiveInv
<1>t. /\ pc \in [Threads -> ClientSteps] /\ cur \in [Threads -> Fds \cup {NoFd}]
      /\ interest \in [Threads -> [Fds -> {"none", "IN", "OUT"}]]
      /\ syn_sent \in [Threads -> SUBSET Fds]
  BY DEF TypeInv, TypeOK, IOTypeOK, ClientSteps
<1>1. CASE Terminate
  BY <1>1 DEF Terminate, Dead
<1>2. CASE ~Terminate
  <2>0. cur[t] \in Fds /\ pc[t] = "syn"
    BY DEF RegisterSyn, TypeInv, InHand
  <2>1. /\ interest' = [interest EXCEPT ![t][cur[t]] = "OUT"]
        /\ syn_sent' = [syn_sent EXCEPT ![t] = @ \cup {cur[t]}]
        /\ pc' = [pc EXCEPT ![t] = "get"] /\ cur' = [cur EXCEPT ![t] = NoFd]
        /\ UNCHANGED <<sock, st, peer, full, owner, keys, ret, evs, conn>>
    BY <1>2 DEF RegisterSyn, Goto, bufferVars
  <2>2. /\ pc'[t] = "get" /\ syn_sent'[t] = syn_sent[t] \cup {cur[t]}
        /\ \A f \in Fds \ {cur[t]} : interest'[t][f] = interest[t][f]
        /\ \A u \in Threads \ {t} :
              /\ pc'[u] = pc[u] /\ cur'[u] = cur[u] /\ syn_sent'[u] = syn_sent[u]
              /\ interest'[u] = interest[u]
    BY <1>t, <2>1
  <2>3. \A u \in Threads, f \in Fds :
            (Connecting(u, f)' <=> Connecting(u, f)) /\ (Has(u, f)' <=> Has(u, f))
    <3>1. ASSUME NEW u \in Threads, NEW f \in Fds PROVE Connecting(u, f)' <=> Connecting(u, f)
      BY <2>0, <2>2 DEF Connecting
    <3> QED BY <2>1, <3>1 DEF Has
  <2>4. OwnInv'
    <3>1. \A f \in Fds, u \in Threads :
              interest'[u][f] # "none" => f \in keys'[u] \cup syn_sent'[u]
      BY <2>1, <2>2 DEF OwnInv
    <3> QED BY <2>1, <2>3, <3>1 DEF OwnInv, Connected
  <2>5. StageOK(t) /\ EventOK(t)
    BY DEF ThreadsOK
  <2>6. ~Stage(t)' /\ evs'[t] = {}
    BY <2>0, <2>1, <2>2, <2>5 DEF StageOK, EventOK, Stage, Between
  <2>7. StageOK(t)' /\ EventOK(t)'
    <3>1. pc'[t] \notin HandlerPc \cup {"events", "first"}
      BY <2>2 DEF HandlerPc
    <3> QED BY <2>6, <3>1 DEF StageOK, EventOK
  <2>8. ASSUME NEW u \in Threads \ {t}
        PROVE  StageOK(u)' /\ EventOK(u)'
    <3>1. StageOK(u) /\ EventOK(u)
      BY DEF ThreadsOK
    <3> QED BY <2>1, <2>2, <3>1, OtherKeeps
  <2>9. FreshInv'
    <3>1. \A u \in Threads, f \in Fds : Fresh(u, f)' => Fresh(u, f)
      <4>1. \A u \in Threads : Stage(u)' => Stage(u)
        BY <2>1, <2>2, <2>6 DEF Stage
      <4> QED BY <2>1, <2>3, <4>1 DEF Fresh
    <3> QED BY <2>1, <3>1, KeepsFresh
  <2> QED BY <2>4, <2>7, <2>8, <2>9 DEF ThreadsOK
<1> QED BY <1>1, <1>2

(* Both ends of a connect: the events left are about other descriptors.    *)
LEMMA SynDoneFacts ==
    ASSUME TypeInv, LiveInv, NEW t \in Threads, NEW e \in evs[t], SynDone(t, e)
    PROVE  /\ pc[t] = "events" /\ ret[t] = "events" /\ ~Stage(t)
           /\ e[1] \in Fds /\ e[1] \in syn_sent[t] /\ e[1] \notin keys[t]
           /\ Has(t, e[1]) /\ Connected(e[1])
           /\ evs'[t] = evs[t] \ {e} /\ syn_sent'[t] = syn_sent[t] \ {e[1]}
           /\ \A u \in Threads \ {t} : evs'[u] = evs[u] /\ syn_sent'[u] = syn_sent[u]
           /\ \A d \in evs'[t] : /\ d[1] # e[1] /\ d[1] \in Fds
                                 /\ d[1] \in keys[t] \cup syn_sent'[t]
                                 /\ interest[t][d[1]] = d[2]
<1>t. /\ evs \in [Threads -> SUBSET Event] /\ keys \in [Threads -> SUBSET Fds]
      /\ syn_sent \in [Threads -> SUBSET Fds]
  BY DEF TypeInv, TypeOK, IOTypeOK
<1>0. StageOK(t) /\ EventOK(t) /\ OwnInv
  BY DEF LiveInv, ThreadsOK
<1>1. pc[t] = "events" /\ ret[t] = "events" /\ ~Stage(t)
  BY <1>0 DEF SynDone, EventOK, Stage
<1>2. e[1] \in syn_sent[t] /\ e[1] \in Fds
  BY <1>t DEF SynDone
<1>3. Has(t, e[1]) /\ e[1] \notin keys[t] /\ Connected(e[1])
  BY <1>0, <1>2 DEF Has, Connecting, OwnInv
<1>4. /\ evs'[t] = evs[t] \ {e} /\ syn_sent'[t] = syn_sent[t] \ {e[1]}
      /\ \A u \in Threads \ {t} : evs'[u] = evs[u] /\ syn_sent'[u] = syn_sent[u]
  BY <1>t DEF SynDone, DropEvent
<1>5. \A d \in evs[t] : /\ d = <<d[1], d[2]>> /\ d[1] \in keys[t] \cup syn_sent[t]
                        /\ interest[t][d[1]] = d[2]
  BY <1>t, <1>0 DEF Event, EventOK
<1>6. \A d \in evs[t] \ {e} : d[1] # e[1]
  BY <1>5
<1>7. \A d \in evs'[t] : /\ d[1] # e[1] /\ d[1] \in Fds /\ d[1] \in keys[t] \cup syn_sent'[t]
                         /\ interest[t][d[1]] = d[2]
  BY <1>t, <1>4, <1>5, <1>6
<1> QED BY <1>1, <1>2, <1>3, <1>4, <1>7

LEMMA ConnectFailedLive ==
    ASSUME TypeInv, LiveInv, NEW t \in Threads, ConnectFailed(t)
    PROVE  LiveInv' \/ Dead'
<1>t. /\ pc \in [Threads -> ClientSteps]
      /\ interest \in [Threads -> [Fds -> {"none", "IN", "OUT"}]]
  BY DEF TypeInv, TypeOK, IOTypeOK, ClientSteps
<1>1. CASE Terminate
  BY <1>1 DEF Terminate, Dead
<1>2. CASE ~Terminate
  <2>1. PICK e \in evs[t] :
            /\ SynDone(t, e) /\ CloseFd(e[1])
            /\ Goto(t, IF evs[t] = {e} THEN "loop" ELSE "events")
            /\ UNCHANGED <<bufferVars, ret, cur, conn>>
    BY <1>2 DEF ConnectFailed, OnConnectFailed
  <2>2. /\ pc[t] = "events" /\ ret[t] = "events"
        /\ e[1] \in Fds /\ e[1] \notin keys[t] /\ Has(t, e[1])
        /\ evs'[t] = evs[t] \ {e} /\ syn_sent'[t] = syn_sent[t] \ {e[1]}
        /\ \A u \in Threads \ {t} : evs'[u] = evs[u] /\ syn_sent'[u] = syn_sent[u]
        /\ \A d \in evs'[t] : /\ d[1] # e[1] /\ d[1] \in Fds
                              /\ d[1] \in keys[t] \cup syn_sent'[t]
                              /\ interest[t][d[1]] = d[2]
    BY <2>1, SynDoneFacts
  <2>3. /\ pc'[t] \in {"loop", "events"} /\ (pc'[t] = "loop" => evs'[t] = {})
        /\ \A u \in Threads \ {t} : pc'[u] = pc[u]
    BY <1>t, <2>1, <2>2 DEF Goto
  <2>4. ~Stage(t)'
    BY <2>1, <2>2, <2>3 DEF Stage
  <2>5. OwnInv' /\ FreshInv' /\ \A u \in Threads \ {t} : StageOK(u)' /\ EventOK(u)'
    <3>1. pc[t] # "syn" /\ pc'[t] # "syn"
      BY <2>2, <2>3
    <3>2. keys'[t] = keys[t] \ {e[1]} /\ keys' = keys
      BY <2>1, <2>2 DEF bufferVars
    <3> QED BY <2>1, <2>2, <2>3, <2>4, <3>1, <3>2, CloseLive
  <2>6. EventOK(t)'
    <3>1. pc'[t] \notin HandlerPc /\ (pc'[t] \in Between => evs'[t] = {})
      BY <2>3 DEF HandlerPc, Between
    <3>2. \A d \in evs'[t] : d[1] \in keys'[t] \cup syn_sent'[t]
      BY <2>1, <2>2 DEF bufferVars
    <3>3. \A d \in evs'[t] : interest'[t][d[1]] = d[2]
      <4>1. \A f \in Fds \ {e[1]} : interest'[t][f] = interest[t][f]
        BY <1>t, <2>1 DEF CloseFd
      <4> QED BY <2>2, <4>1
    <3> QED BY <2>1, <2>2, <2>3, <3>1, <3>2, <3>3 DEF EventOK
  <2>7. StageOK(t)'
    BY <2>4 DEF StageOK
  <2> QED BY <2>5, <2>6, <2>7 DEF LiveInv, ThreadsOK
<1> QED BY <1>1, <1>2

LEMMA ConnectSucceedsLive ==
    ASSUME TypeInv, LiveInv, NEW t \in Threads, ConnectSucceeds(t)
    PROVE  LiveInv'
<1> USE DEF LiveInv
<1>t. /\ pc \in [Threads -> ClientSteps] /\ keys \in [Threads -> SUBSET Fds]
      /\ conn \in [Threads -> Fds \cup {NoFd}]
      /\ interest \in [Threads -> [Fds -> {"none", "IN", "OUT"}]]
  BY DEF TypeInv, TypeOK, IOTypeOK, ClientSteps
<1>1. PICK e \in evs[t] :
          /\ SynDone(t, e) /\ Established(e[1])
          /\ interest' = [interest EXCEPT ![t][e[1]] = "none"]
          /\ keys' = [keys EXCEPT ![t] = @ \cup {e[1]}]
          /\ conn' = [conn EXCEPT ![t] = e[1]] /\ pc' = [pc EXCEPT ![t] = "first"]
          /\ UNCHANGED <<sock, st, peer, full, owner, ret, cur>>
  BY DEF ConnectSucceeds, createBuffer, Goto
<1> DEFINE d == e[1]
<1>2. /\ pc[t] = "events" /\ ret[t] = "events"
      /\ d \in Fds /\ d \in syn_sent[t] /\ d \notin keys[t] /\ Has(t, d)
      /\ evs'[t] = evs[t] \ {e} /\ syn_sent'[t] = syn_sent[t] \ {d}
      /\ \A u \in Threads \ {t} : evs'[u] = evs[u] /\ syn_sent'[u] = syn_sent[u]
      /\ \A x \in evs'[t] : /\ x[1] # d /\ x[1] \in Fds
                            /\ x[1] \in keys[t] \cup syn_sent'[t]
                            /\ interest[t][x[1]] = x[2]
  BY <1>1, SynDoneFacts
<1>3. st[sock[d]] = "open"
  BY <1>1 DEF Established
<1>d. /\ interest' = [interest EXCEPT ![t][d] = "none"]
      /\ keys' = [keys EXCEPT ![t] = @ \cup {d}] /\ conn' = [conn EXCEPT ![t] = d]
  BY <1>1
<1> HIDE DEF d
<1>4. /\ pc'[t] = "first" /\ conn'[t] = d /\ keys'[t] = keys[t] \cup {d}
      /\ interest'[t][d] = "none"
      /\ \A f \in Fds \ {d} : interest'[t][f] = interest[t][f]
      /\ \A u \in Threads \ {t} :
            /\ pc'[u] = pc[u] /\ conn'[u] = conn[u] /\ keys'[u] = keys[u]
            /\ interest'[u] = interest[u]
  BY <1>t, <1>1, <1>2, <1>d
<1>5. \A u \in Threads, f \in Fds :
          /\ Connecting(u, f)' <=> Connecting(u, f) /\ ~(u = t /\ f = d)
          /\ f \in keys'[u] <=> f \in keys[u] \/ (u = t /\ f = d)
  BY <1>1, <1>2, <1>4 DEF Connecting
<1>6. \A u \in Threads, f \in Fds : Has(u, f)' <=> Has(u, f)
  BY <1>2, <1>5 DEF Has
<1>7. OwnInv'
  <2>1. \A f \in Fds, u \in Threads : ~(f \in keys'[u] /\ Connecting(u, f)')
    BY <1>5 DEF OwnInv
  <2>2. \A f \in Fds, u \in Threads :
            interest'[u][f] # "none" => f \in keys'[u] \cup syn_sent'[u]
    BY <1>2, <1>4 DEF OwnInv
  <2> QED BY <1>1, <1>6, <2>1, <2>2 DEF OwnInv, Connected
<1>8. StageOK(t)'
  BY <1>1, <1>2, <1>3, <1>4 DEF StageOK
<1>9. EventOK(t)'
  <2>1. pc'[t] \notin HandlerPc \cup Between /\ ret'[t] = "events"
    BY <1>1, <1>2, <1>4 DEF HandlerPc, Between
  <2>2. \A x \in evs'[t] : x[1] \in keys'[t] \cup syn_sent'[t] /\ interest'[t][x[1]] = x[2]
    BY <1>2, <1>4
  <2> QED BY <2>1, <2>2 DEF EventOK
<1>10. ASSUME NEW u \in Threads \ {t}
       PROVE  StageOK(u)' /\ EventOK(u)'
  <2>1. StageOK(u) /\ EventOK(u)
    BY DEF ThreadsOK
  <2> QED BY <1>1, <1>2, <1>4, <2>1, OtherKeeps
<1>11. FreshInv'
  <2>1. ASSUME NEW u \in Threads, NEW f \in Fds, Fresh(u, f)' PROVE Fresh(u, f)
    <3>1. CASE u = t
      <4>1. Connecting(t, d)
        BY <1>2 DEF Connecting
      <4> QED BY <1>4, <1>5, <2>1, <3>1, <4>1 DEF Fresh
    <3>2. CASE u # t
      BY <1>1, <1>4, <1>5, <2>1, <3>2 DEF Fresh, Stage
    <3> QED BY <3>1, <3>2
  <2> QED BY <1>1, <2>1, KeepsFresh
<1> QED BY <1>7, <1>8, <1>9, <1>10, <1>11 DEF ThreadsOK

(* The application's threads and the hosts.                                *)
LEMMA NotifyAllLive ==
    ASSUME TypeInv, LiveInv, NEW c \in Conns, NotifyAll(c)
    PROVE  LiveInv'
<1> USE DEF LiveInv
<1>1. /\ UNCHANGED <<kernelVars, bufferVars, ret, cur, evs, syn_sent, conn>>
      /\ \A t \in Threads : pc'[t] = pc[t] \/ (pc[t] = "asleep" /\ pc'[t] = "lock")
  BY DEF NotifyAll, Awoken, connVars
<1>2. OwnInv'
  BY <1>1, KeepsOwn DEF OwnInv, kernelVars, bufferVars
<1>3. \A t \in Threads : Stage(t)' <=> Stage(t)
  BY <1>1 DEF Stage
<1>4. FreshInv'
  <2>1. \A t \in Threads, f \in Fds : Fresh(t, f)' => Fresh(t, f)
    BY <1>1, <1>3 DEF Fresh, Connecting
  <2> QED BY <1>1, <2>1, KeepsFresh DEF kernelVars
<1>5. ASSUME NEW t \in Threads PROVE StageOK(t)' /\ EventOK(t)'
  <2>1. StageOK(t) /\ EventOK(t)
    BY DEF ThreadsOK
  <2>2. CASE pc'[t] = pc[t]
    BY <1>1, <2>1, <2>2, OtherKeeps DEF kernelVars, bufferVars
  <2>3. CASE pc[t] = "asleep" /\ pc'[t] = "lock"
    <3>1. ~Stage(t) /\ evs[t] = {}
      BY <2>1, <2>3 DEF StageOK, EventOK, Stage, Between
    <3>2. pc'[t] \notin HandlerPc \cup {"events", "first"} /\ evs'[t] = {}
      BY <1>1, <2>3, <3>1 DEF HandlerPc
    <3> QED BY <1>3, <3>1, <3>2 DEF StageOK, EventOK
  <2> QED BY <1>1, <2>2, <2>3
<1> QED BY <1>2, <1>4, <1>5 DEF ThreadsOK

LEMMA HostStepLive ==
    ASSUME TypeInv, LiveInv, Quiet, NEW c \in Conns, HostStep(c)
    PROVE  LiveInv'
<1> USE DEF LiveInv
<1>t. /\ sock \in [Fds -> Conns \cup {NoConn}]
      /\ st \in [Conns -> {"idle", "pending", "open", "closed"}]
      /\ peer \in [Conns -> {"up", "fin", "rst"}]
  BY DEF TypeInv, TypeOK, IOTypeOK
<1>1. UNCHANGED <<sock, interest, owner, keys, pc, ret, cur, evs, syn_sent, conn>>
  BY DEF HostStep, HostAccepts, PeerSends, PeerReads, PeerCloses, PeerResets, bufferVars,
         controlVars, clientVars, connVars
<1>2. UNCHANGED st \/ (st[c] = "pending" /\ st' = [st EXCEPT ![c] = "open"])
  BY DEF HostStep, HostAccepts, PeerSends, PeerReads, PeerCloses, PeerResets
<1>3. \A d \in Conns : /\ st[d] \in {"pending", "open"} => st'[d] \in {"pending", "open"}
                       /\ st[d] = "open" => st'[d] = "open"
                       /\ d # c => st'[d] = st[d] /\ peer'[d] = peer[d] /\ (d \in full' <=> d \in full)
  BY <1>t, <1>2 DEF HostStep, HostAccepts, PeerSends, PeerReads, PeerCloses, PeerResets
<1>4. OwnInv'
  <2>1. \A f \in Fds : Connected(f) => st'[sock[f]] \in {"pending", "open"}
    BY <1>t, <1>3 DEF OwnInv, Connected
  <2> QED BY <1>1, <2>1, KeepsOwn
<1>5. \A t \in Threads, f \in Fds : /\ Stage(t)' <=> Stage(t)
                                    /\ Fresh(t, f)' <=> Fresh(t, f)
  BY <1>1 DEF Stage, Fresh, Connecting
<1>6. ASSUME NEW t \in Threads PROVE StageOK(t)' /\ EventOK(t)'
  <2>1. StageOK(t) /\ EventOK(t)
    BY DEF ThreadsOK
  <2>2. EventOK(t)'
    BY <1>1, <2>1 DEF EventOK
  <2>3. Stage(t) => sock[conn[t]] \in Conns
    BY <1>t, <2>1 DEF StageOK, OwnInv, Has, Connected, TypeInv, InHand
  <2>4. StageOK(t)'
    <3>1. Stage(t) => st'[sock[conn[t]]] = "open"
      BY <1>3, <2>1, <2>3 DEF StageOK
    <3>2. Stage(t)' => Stage(t)
      BY <1>1 DEF Stage
    <3> QED BY <1>1, <2>1, <3>1, <3>2 DEF StageOK
  <2> QED BY <2>2, <2>4
<1>7. ASSUME NEW t \in Threads, NEW f \in Fds, Fresh(t, f), sock[f] = c, Registered(c)
      PROVE  FALSE
  <2>1. PICK u \in Threads, g \in Fds :
            sock[g] = c /\ interest[u][g] # "none" /\ g \notin syn_sent[u]
    BY <1>7 DEF Registered
  <2>2. g = f
    BY <1>7, <2>1, SentinelAssumption DEF OwnInv, Connected
  <2>3. f \in keys[u] /\ Has(u, f)
    BY <2>1, <2>2 DEF OwnInv, Has
  <2>4. u = t
    BY <1>7, <2>3, FreshHas, HasOne
  <2>5. ~Connecting(t, f)
    BY <2>3, <2>4 DEF OwnInv
  <2>6. interest[t][f] = "none"
    BY <1>7, <2>5 DEF Fresh, ThreadsOK, StageOK
  <2> QED BY <2>1, <2>2, <2>4, <2>6
<1>8. ASSUME NEW t \in Threads, NEW f \in Fds, Fresh(t, f), st'[sock[f]] = "open"
      PROVE  peer'[sock[f]] = "up" /\ sock[f] \notin full'
  <2>1. sock[f] \in Conns
    BY <1>t, <1>8, FreshHas DEF OwnInv, Connected
  <2>2. CASE sock[f] # c
    BY <1>3, <1>8, <2>1, <2>2 DEF FreshInv
  <2>3. CASE sock[f] = c
    <3>1. ~Registered(c)
      BY <1>7, <1>8, <2>3
    <3>2. HostAccepts(c) \/ (PeerResets(c) /\ st[c] = "pending")
      BY <3>1 DEF HostStep, Quiet
    <3>3. CASE HostAccepts(c)
      BY <1>t, <2>3, <3>3 DEF HostAccepts
    <3>4. CASE PeerResets(c) /\ st[c] = "pending"
      BY <1>8, <2>3, <3>4 DEF PeerResets
    <3> QED BY <3>2, <3>3, <3>4
  <2> QED BY <2>2, <2>3
<1>9. FreshInv'
  BY <1>1, <1>5, <1>8 DEF FreshInv
<1> QED BY <1>4, <1>6, <1>9 DEF ThreadsOK

(* All steps.  A process that has ended stays so.                          *)
LEMMA NextDead ==
    ASSUME TypeInv, Dead, [Next]_vars
    PROVE  Dead'
<1>1. \A t \in Threads : ~ClientStep(t) /\ ~SpuriousWakeup(t)
  BY Alive
<1>2. ASSUME NEW c \in Conns, Add(c) PROVE Dead'
  BY <1>2 DEF Add, Dead, ioVars, controlVars
<1>3. ASSUME NEW c \in Conns, NotifyAll(c) PROVE Dead'
  BY <1>3 DEF NotifyAll, Awoken, Dead
<1>4. ASSUME NEW c \in Conns, HostStep(c) PROVE Dead'
  BY <1>4 DEF HostStep, HostAccepts, PeerSends, PeerReads, PeerCloses, PeerResets, controlVars, Dead
<1>5. CASE UNCHANGED vars
  BY <1>5 DEF vars, ioVars, controlVars, Dead
<1> QED BY <1>1, <1>2, <1>3, <1>4, <1>5 DEF Next, Terminated

(* A step that changes none of the variables LiveInv is about.             *)
LEMMA KeepsLive ==
    ASSUME LiveInv, UNCHANGED <<ioVars, syn_sent, conn>>
    PROVE  LiveInv'
BY DEF LiveInv, OwnInv, FreshInv, ThreadsOK, StageOK, EventOK, Stage, Fresh, Has, Connecting,
       Connected, ioVars, kernelVars, bufferVars, controlVars

LEMMA NextLive ==
    ASSUME TypeInv, PoolInv, Dead \/ LiveInv, Quiet, [Next]_vars
    PROVE  (Dead \/ LiveInv)'
<1>1. CASE Dead
  BY <1>1, NextDead
<1>2. CASE LiveInv
  <2>1. CASE UNCHANGED vars
    BY <1>2, <2>1, KeepsLive DEF vars, clientVars, connVars
  <2>2. ASSUME NEW t \in Threads, ClientStep(t) \/ SpuriousWakeup(t)
        PROVE  (Dead \/ LiveInv)'
    <3>1. CASE ConnectThrows(t)
      BY <3>1 DEF ConnectThrows, Terminate, Dead
    <3> QED BY <1>2, <2>2, <3>1, ServeLive, CompeteLive, EpollWaitLive, StageStepLive,
               GetFromPoolLive, RegisterSynLive, ConnectFailedLive, ConnectSucceedsLive
            DEF ClientStep
  <2>3. ASSUME NEW c \in Conns, Add(c)
        PROVE  LiveInv'
    BY <1>2, <2>3, KeepsLive DEF Add, connVars
  <2> QED BY <1>2, <2>1, <2>2, <2>3, NotifyAllLive, HostStepLive DEF Next, Terminated
<1> QED BY <1>1, <1>2

LEMMA InitLive ==
    ASSUME Init
    PROVE  LiveInv
<1>1. OwnInv
  BY SentinelAssumption DEF Init, IOInit, OwnInv, Has, Connecting, Connected
<1>2. FreshInv
  BY DEF Init, IOInit, FreshInv, Fresh, Stage, Connecting
<1>3. ThreadsOK
  BY DEF Init, IOInit, ThreadsOK, StageOK, EventOK, Stage, HandlerPc
<1> QED BY <1>1, <1>2, <1>3 DEF LiveInv

LEMMA LiveAlways ==
    ASSUME Quiet
    PROVE  Spec => [](TypeInv /\ (Dead \/ LiveInv))
<1>1. Init => TypeInv /\ PoolInv /\ (Dead \/ LiveInv)
  BY InitType, InitPool, InitLive
<1>2. TypeInv /\ PoolInv /\ (Dead \/ LiveInv) /\ [Next]_vars
        => (TypeInv /\ PoolInv /\ (Dead \/ LiveInv))'
  BY NextType, NextPool, NextLive
<1> QED BY <1>1, <1>2, PTL DEF Spec

(* README.md: "One connected socket handled only by one thread."  While    *)
(* the process lives every socket belongs to the thread that took its      *)
(* target, is either being connected or has buffers there, and no other    *)
(* thread has it in its tables or its epoll instance (IOHandler.h:234-245, *)
(* 271-291).                                                               *)
THEOREM ClientSocketsOwned ==
    ASSUME Quiet
    PROVE  Spec => []OneThreadPerSocket
<1>1. TypeInv /\ (Dead \/ LiveInv) => OneThreadPerSocket
  BY DEF LiveInv, OwnInv, OneThreadPerSocket, Has
<1> QED BY <1>1, LiveAlways, PTL

(* No event is processed for a descriptor that was closed, re-used or      *)
(* registered anew since epoll_wait returned it, and the buffers a handler *)
(* dereferences exist (IOHandler.h:269-275).                               *)
THEOREM ClientEventsFresh ==
    ASSUME Quiet
    PROVE  Spec => []NoStaleEvent
<1>1. TypeInv /\ (Dead \/ LiveInv) => NoStaleEvent
  BY DEF LiveInv, ThreadsOK, EventOK, NoStaleEvent
<1> QED BY <1>1, LiveAlways, PTL

-----------------------------------------------------------------------------
(* Messages.                                                               *)

(* The buffers of a connection hold its own bytes and what closed          *)
(* connections have left, the pooled ones only the latter; and the first   *)
(* message that is kept for a descriptor is the one of the target behind   *)
(* it.                                                                     *)
BytesOK(t) ==
    /\ \A f \in keys[t] : /\ rbh[t][f] \subseteq {sock[f]} \cup Closed
                         /\ wbh[t][f] \subseteq {sock[f]} \cup Closed
    /\ \A i \in DOMAIN buffer_pool[t] : buffer_pool[t][i] \subseteq Closed
    /\ \A f \in Fds : Connecting(t, f) \/ (pc[t] = "first" /\ f = conn[t]) =>
                         init_message[t][f] = sock[f]

BytesInv == \A t \in Threads : BytesOK(t)

DestInv == \A c \in Conns : dest[c] # NoHost => HostKey(dest[c]) = HostKey(HostOf[c])

(* A target leaves the pool together with a host of its own key.           *)
LEMMA NextDest ==
    ASSUME TypeInv, PoolInv, DestInv, [Next]_vars
    PROVE  DestInv'
<1>1. CASE UNCHANGED dest
  BY <1>1 DEF DestInv
<1>2. ASSUME NEW t \in Threads, GetFromPool(t)
      PROVE  DestInv'
  <2>1. ClientTypes /\ ~PoolEmpty /\ RawGet /\ dest' = [dest EXCEPT ![Taken] = FirstHost]
    BY <1>2, TypeInvParts DEF GetFromPool, MoreToGet
  <2>2. /\ FirstKey \in Keys /\ Taken \in Conns /\ FirstHost \in Hosts
        /\ 1 \in 1..Len(pool[FirstKey]) /\ Len(pool[FirstKey]) \in 1..Len(pool[FirstKey])
    BY <2>1, FirstInUse
  <2>3. HostKey(FirstHost) = FirstKey /\ HostKey(HostOf[Taken]) = FirstKey
    BY <2>2 DEF PoolInv, FirstHost, Taken
  <2> HIDE DEF Taken, FirstHost
  <2>4. dest \in [Conns -> Hosts \cup {NoHost}]
    BY <2>1 DEF ClientTypes
  <2>5. \A c \in Conns : dest'[c] = IF c = Taken THEN FirstHost ELSE dest[c]
    BY <2>1, <2>2, <2>4
  <2> QED BY <2>2, <2>3, <2>5 DEF DestInv
<1>3. ASSUME NEW t \in Threads, ClientStep(t) \/ SpuriousWakeup(t), ~GetFromPool(t)
      PROVE  UNCHANGED dest
  BY <1>3 DEF ClientStep, SpuriousWakeup, ServeStep, LockPool, WaitForTarget, PeekPool,
              TryLockPool, TryLockFails, ConnectThrows, RegisterSyn, UnlockPool, EpollWait,
              ConnectFailed, ConnectSucceeds, FirstWrite, OnConnect, Arm, EnterPool, clientVars,
              connVars
<1>4. ASSUME NEW c \in Conns, Add(c) \/ NotifyAll(c) \/ HostStep(c)
      PROVE  UNCHANGED dest
  BY <1>4 DEF Add, NotifyAll, HostStep, HostAccepts, clientVars, connVars
<1>5. UNCHANGED vars => UNCHANGED dest
  BY DEF vars, clientVars, connVars
<1> QED BY <1>1, <1>2, <1>3, <1>4, <1>5 DEF Next, Terminated

(* A connection that is closed stays closed: its target is not in the pool *)
(* any more.                                                               *)
LEMMA ClosedStays ==
    ASSUME TypeInv, PoolInv, [Next]_vars
    PROVE  Closed \subseteq Closed'
<1>t. st \in [Conns -> {"idle", "pending", "open", "closed"}]
  BY DEF TypeInv, TypeOK, IOTypeOK
<1>1. CASE UNCHANGED st
  BY <1>1 DEF Closed
<1>2. ASSUME NEW fd, CloseFd(fd)
      PROVE  Closed \subseteq Closed'
  BY <1>2 DEF CloseFd, Closed
<1>3. ASSUME NEW t \in Threads, GetFromPool(t)
      PROVE  Closed \subseteq Closed'
  <2>1. ClientTypes /\ ~PoolEmpty /\ st' = [st EXCEPT ![Taken] = "pending"]
    BY <1>3, TypeInvParts DEF GetFromPool, MoreToGet
  <2>2. /\ FirstKey \in Keys /\ Taken \in Conns
        /\ Len(pool[FirstKey]) \in 1..Len(pool[FirstKey])
    BY <2>1, FirstInUse
  <2>3. st[Taken] = "idle"
    BY <2>2 DEF PoolInv, Taken
  <2> HIDE DEF Taken
  <2> QED BY <1>t, <2>1, <2>2, <2>3 DEF Closed
<1>4. ASSUME NEW t \in Threads, IOStep(t)
      PROVE  Closed \subseteq Closed'
  BY <1>1, <1>2, <1>4 DEF IOStep, OnEpollLoop, ProcessEvent, OnReadable, OnMessage, WriteFails,
         WriteCompletes, WriteBlocks, Rearm, OnPassivelyClosed, DestroyAndClose, AppMayClose,
         kernelVars
<1>5. ASSUME NEW t \in Threads, ClientStep(t) \/ SpuriousWakeup(t), ~GetFromPool(t), ~IOStep(t)
      PROVE  UNCHANGED st \/ \E fd : CloseFd(fd)
  BY <1>5 DEF ClientStep, SpuriousWakeup, ServeStep, LockPool, WaitForTarget, PeekPool,
              TryLockPool, TryLockFails, ConnectThrows, RegisterSyn, UnlockPool, EpollWait,
              FetchEvents, ConnectFailed, OnConnectFailed, ConnectSucceeds, FirstWrite, OnConnect,
              Arm, EnterPool, kernelVars
<1>6. ASSUME NEW c \in Conns, Add(c) \/ NotifyAll(c) \/ HostStep(c)
      PROVE  Closed \subseteq Closed'
  <2>1. UNCHANGED st \/ (st[c] = "pending" /\ st' = [st EXCEPT ![c] = "open"])
    BY <1>6 DEF Add, NotifyAll, HostStep, HostAccepts, PeerSends, PeerReads, PeerCloses,
                PeerResets, ioVars, kernelVars
  <2> QED BY <1>t, <1>1, <2>1 DEF Closed
<1>7. UNCHANGED vars => UNCHANGED st
  BY DEF vars, ioVars, kernelVars
<1> QED BY <1>1, <1>2, <1>3, <1>4, <1>5, <1>6, <1>7 DEF Next, Terminated

(* A thread that takes no step.                                            *)
LEMMA OtherBytes ==
    ASSUME TypeInv, LiveInv, NEW u \in Threads, BytesOK(u), Closed \subseteq Closed',
           pc'[u] = pc[u], cur'[u] = cur[u], conn'[u] = conn[u], keys'[u] = keys[u],
           syn_sent'[u] = syn_sent[u], rbh'[u] = rbh[u], wbh'[u] = wbh[u],
           buffer_pool'[u] = buffer_pool[u], init_message'[u] = init_message[u],
           \A f \in Fds : Has(u, f) => sock'[f] = sock[f]
    PROVE  BytesOK(u)'
<1>t. keys \in [Threads -> SUBSET Fds]
  BY DEF TypeInv, TypeOK, IOTypeOK
<1>1. \A f \in keys[u] : sock'[f] = sock[f]
  BY <1>t DEF Has
<1>2. \A f \in Fds : Connecting(u, f)' <=> Connecting(u, f)
  BY DEF Connecting
<1>3. \A f \in Fds : Connecting(u, f) \/ (pc[u] = "first" /\ f = conn[u]) => sock'[f] = sock[f]
  BY DEF Has, LiveInv, ThreadsOK, StageOK, Stage
<1> QED BY <1>1, <1>2, <1>3 DEF BytesOK

(* What a step of the base class does to the buffers: it changes those of  *)
(* the descriptor in hand only.                                            *)
LEMMA IOStepTables ==
    ASSUME TypeInv, NEW t \in Threads, IOStep(t), ~Terminate
    PROVE  \A u \in Threads \ {t} :
               /\ pc'[u] = pc[u] /\ cur'[u] = cur[u] /\ keys'[u] = keys[u]
               /\ rbh'[u] = rbh[u] /\ wbh'[u] = wbh[u] /\ buffer_pool'[u] = buffer_pool[u]
<1>t. /\ pc \in [Threads -> ClientSteps] /\ cur \in [Threads -> Fds \cup {NoFd}]
      /\ keys \in [Threads -> SUBSET Fds]
      /\ rbh \in [Threads -> [Fds -> Content]] /\ wbh \in [Threads -> [Fds -> Content]]
      /\ buffer_pool \in [Threads -> Seq(Content)]
  BY DEF TypeInv, TypeOK, IOTypeOK, ClientSteps
<1>1. CASE OnEpollLoop(t)
  BY <1>t, <1>1 DEF OnEpollLoop, AppendAndWrite, Goto
<1>2. CASE ProcessEvent(t) \/ OnReadable(t) \/ WriteFails(t) \/ Rearm(t)
  BY <1>t, <1>2 DEF ProcessEvent, OnReadable, WriteFails, Rearm, Finish, Goto, bufferVars
<1>3. CASE OnMessage(t)
  BY <1>t, <1>3 DEF OnMessage, AppendAndWrite, Finish, Goto
<1>4. CASE WriteCompletes(t) \/ OnPassivelyClosed(t) \/ DestroyAndClose(t)
  BY <1>t, <1>4 DEF WriteCompletes, OnPassivelyClosed, DestroyAndClose, destoryBuffer, Finish, Goto
<1>5. CASE WriteBlocks(t)
  BY <1>t, <1>5 DEF WriteBlocks, Finish, Goto
<1> QED BY <1>1, <1>2, <1>3, <1>4, <1>5 DEF IOStep

(* A step of a thread leaves the tables of the others alone, and the       *)
(* sockets behind their descriptors.                                       *)
LEMMA OthersTables ==
    ASSUME TypeInv, NEW t \in Threads, ClientStep(t) \/ SpuriousWakeup(t)
    PROVE  Dead' \/ \A u \in Threads \ {t} :
               /\ pc'[u] = pc[u] /\ cur'[u] = cur[u] /\ conn'[u] = conn[u] /\ keys'[u] = keys[u]
               /\ syn_sent'[u] = syn_sent[u] /\ rbh'[u] = rbh[u] /\ wbh'[u] = wbh[u]
               /\ buffer_pool'[u] = buffer_pool[u] /\ init_message'[u] = init_message[u]
<1>t. /\ pc \in [Threads -> ClientSteps] /\ cur \in [Threads -> Fds \cup {NoFd}]
      /\ keys \in [Threads -> SUBSET Fds] /\ syn_sent \in [Threads -> SUBSET Fds]
      /\ rbh \in [Threads -> [Fds -> Content]] /\ wbh \in [Threads -> [Fds -> Content]]
      /\ buffer_pool \in [Threads -> Seq(Content)]
      /\ init_message \in [Threads -> [Fds -> Conns \cup {NoConn}]]
      /\ conn \in [Threads -> Fds \cup {NoFd}]
  BY DEF TypeInv, TypeOK, IOTypeOK, ClientSteps
<1> USE DEF clientVars, poolVars, connVars, bufferVars
<1>1. CASE Terminate
  BY <1>1 DEF Terminate, Dead
<1>2. CASE ServeStep(t) /\ ~Terminate
  BY <1>2, IOStepTables DEF ServeStep
<1>3. CASE ~ServeStep(t) /\ ~Terminate
  <2>1. CASE LockPool(t) \/ WaitForTarget(t) \/ PeekPool(t) \/ TryLockPool(t) \/ TryLockFails(t)
             \/ UnlockPool(t) \/ SpuriousWakeup(t)
    BY <1>t, <2>1 DEF LockPool, WaitForTarget, PeekPool, TryLockPool, TryLockFails, UnlockPool,
                      SpuriousWakeup, EnterPool, Goto
  <2>2. CASE EpollWait(t)
    BY <1>t, <2>2 DEF EpollWait, FetchEvents, Goto
  <2>3. CASE GetFromPool(t)
    BY <1>t, <2>3 DEF GetFromPool, Goto
  <2>4. CASE RegisterSyn(t)
    BY <1>t, <1>3, <2>4 DEF RegisterSyn, Goto
  <2>5. CASE ConnectFailed(t)
    BY <1>t, <1>3, <2>5 DEF ConnectFailed, SynDone, Goto
  <2>6. CASE ConnectSucceeds(t)
    BY <1>t, <2>6 DEF ConnectSucceeds, SynDone, createBuffer, Goto
  <2>7. CASE FirstWrite(t)
    BY <1>t, <2>7 DEF FirstWrite, Goto
  <2>8. CASE OnConnect(t)
    BY <1>t, <1>3, <2>8 DEF OnConnect, AppendAndWrite, Goto
  <2>9. CASE Arm(t)
    BY <1>t, <1>3, <2>9 DEF Arm, Goto
  <2>10. CASE ConnectThrows(t)
    BY <1>3, <2>10 DEF ConnectThrows
  <2> QED BY <1>3, <2>1, <2>2, <2>3, <2>4, <2>5, <2>6, <2>7, <2>8, <2>9, <2>10 DEF ClientStep
<1> QED BY <1>1, <1>2, <1>3

LEMMA OthersSockets ==
    ASSUME TypeInv, LiveInv, NEW t \in Threads, ClientStep(t) \/ SpuriousWakeup(t),
           NEW u \in Threads \ {t}, NEW f \in Fds, Has(u, f)
    PROVE  sock'[f] = sock[f]
<1>t. sock \in [Fds -> Conns \cup {NoConn}] /\ OwnInv
  BY DEF TypeInv, TypeOK, IOTypeOK, LiveInv
<1>1. ~Has(t, f) /\ Connected(f)
  BY <1>t, HasOne DEF OwnInv
<1>2. ASSUME NEW d \in Fds, Has(t, d), CloseFd(d)
      PROVE  sock'[f] = sock[f]
  BY <1>t, <1>1, <1>2 DEF CloseFd
<1>3. CASE ServeStep(t)
  <2>1. \/ UNCHANGED sock
        \/ cur[t] \in Fds /\ pc[t] \in HandlerPc /\ CloseFd(cur[t])
    BY <1>3, IOStepSockets DEF ServeStep
  <2>2. pc[t] \in HandlerPc => Has(t, cur[t])
    BY InHandler DEF Has
  <2> QED BY <1>2, <2>1, <2>2
<1>4. CASE ConnectFailed(t)
  <2>1. PICK e \in evs[t] : SynDone(t, e) /\ (UNCHANGED sock \/ CloseFd(e[1]))
    BY <1>4 DEF ConnectFailed, OnConnectFailed, kernelVars
  <2>2. e[1] \in Fds /\ Has(t, e[1])
    BY <2>1, SynDoneFacts
  <2> QED BY <1>2, <2>1, <2>2
<1>5. CASE GetFromPool(t)
  <2>1. PICK d \in Fds : ~Connected(d) /\ sock' = [sock EXCEPT ![d] = Taken]
    BY <1>5 DEF GetFromPool, FreeFds
  <2> QED BY <1>t, <1>1, <2>1
<1>6. CASE ~ServeStep(t) /\ ~ConnectFailed(t) /\ ~GetFromPool(t)
  BY <1>6 DEF ClientStep, SpuriousWakeup, LockPool, WaitForTarget, PeekPool, TryLockPool,
              TryLockFails, RegisterSyn, UnlockPool, EpollWait, FetchEvents, ConnectThrows,
              ConnectSucceeds, FirstWrite, OnConnect, Arm, EnterPool, kernelVars
<1> QED BY <1>3, <1>4, <1>5, <1>6

(* A step of the thread itself, that leaves its buffers alone, or changes  *)
(* those of one descriptor.                                                *)
LEMMA SameBytes ==
    ASSUME NEW t \in Threads, BytesOK(t), Closed \subseteq Closed',
           UNCHANGED <<sock, keys, rbh, wbh, buffer_pool, init_message>>,
           syn_sent'[t] = syn_sent[t], pc'[t] \notin {"syn", "first"}
    PROVE  BytesOK(t)'
BY DEF BytesOK, Connecting

LEMMA CellBytes ==
    ASSUME TypeInv, NEW t \in Threads, BytesOK(t), Closed \subseteq Closed', NEW fd \in keys[t],
           UNCHANGED <<sock, keys, buffer_pool, init_message, syn_sent>>,
           pc'[t] \notin {"syn", "first"},
           \A f \in Fds \ {fd} : rbh'[t][f] = rbh[t][f] /\ wbh'[t][f] = wbh[t][f],
           rbh'[t][fd] \subseteq rbh[t][fd] \cup {sock[fd]},
           wbh'[t][fd] \subseteq wbh[t][fd] \cup {sock[fd]}
    PROVE  BytesOK(t)'
<1>1. keys[t] \subseteq Fds
  BY DEF TypeInv, TypeOK, IOTypeOK
<1>2. \A f \in keys'[t] : /\ rbh'[t][f] \subseteq {sock'[f]} \cup Closed'
                          /\ wbh'[t][f] \subseteq {sock'[f]} \cup Closed'
  BY <1>1 DEF BytesOK
<1>3. \A f \in Fds : Connecting(t, f)' => init_message'[t][f] = sock'[f]
  BY DEF BytesOK, Connecting
<1> QED BY <1>2, <1>3 DEF BytesOK

(* The steps of the base class.                                            *)
LEMMA ServeBytes ==
    ASSUME TypeInv, LiveInv, Quiet, NEW t \in Threads, BytesOK(t), Closed \subseteq Closed',
           ServeStep(t), ~Terminate
    PROVE  BytesOK(t)'
<1>t. /\ pc \in [Threads -> ClientSteps] /\ ret \in [Threads -> ClientRets]
      /\ cur \in [Threads -> Fds \cup {NoFd}] /\ keys \in [Threads -> SUBSET Fds]
      /\ sock \in [Fds -> Conns \cup {NoConn}]
      /\ rbh \in [Threads -> [Fds -> Content]] /\ wbh \in [Threads -> [Fds -> Content]]
      /\ buffer_pool \in [Threads -> Seq(Content)]
  BY DEF TypeInv, TypeOK, IOTypeOK, ClientSteps, ClientRets
<1>c. UNCHANGED <<syn_sent, init_message>>
  BY DEF ServeStep, clientVars, connVars
<1>k. keys[t] \subseteq Fds
  BY <1>t
<1>h. pc[t] \in HandlerPc => cur[t] \in keys[t] /\ cur[t] \in Fds
  BY InHandler
<1>n. NextAfter(t) \notin {"syn", "first"}
  BY <1>t DEF NextAfter, ClientRets
<1>1. CASE OnEpollLoop(t)
  <2>1. CASE Goto(t, "lock") /\ UNCHANGED <<cur, wbh>>
    BY <1>t, <1>c, <1>1, <2>1, SameBytes DEF OnEpollLoop, Goto, kernelVars
  <2>2. ASSUME NEW fd \in keys[t], AppendAndWrite(t, fd)
        PROVE  BytesOK(t)'
    <3>1. /\ UNCHANGED <<sock, keys, buffer_pool, rbh>> /\ pc' = [pc EXCEPT ![t] = "write"]
          /\ wbh' = [wbh EXCEPT ![t][fd] = @ \cup {sock[fd]}]
      BY <1>1, <2>2 DEF OnEpollLoop, AppendAndWrite, Goto, kernelVars
    <3>2. /\ pc'[t] = "write" /\ wbh'[t][fd] = wbh[t][fd] \cup {sock[fd]}
          /\ \A f \in Fds \ {fd} : wbh'[t][f] = wbh[t][f]
      BY <1>t, <1>k, <3>1
    <3> QED BY <1>c, <1>k, <3>1, <3>2, CellBytes
  <2> QED BY <1>1, <2>1, <2>2 DEF OnEpollLoop
<1>2. CASE ProcessEvent(t)
  <2>1. /\ UNCHANGED <<sock, keys, rbh, wbh, buffer_pool>> /\ pc'[t] \in {"read", "flush"}
    BY <1>t, <1>2 DEF ProcessEvent, Goto, kernelVars, bufferVars
  <2> QED BY <1>c, <2>1, SameBytes
<1>3. CASE OnReadable(t)
  <2> DEFINE fd == cur[t]
  <2>1. /\ pc[t] = "read" /\ UNCHANGED <<sock, keys, buffer_pool, wbh>>
        /\ rbh' = [rbh EXCEPT ![t][fd] = @ \cup ({sock[fd]} \cap unread)]
        /\ Goto(t, "clean") \/ Goto(t, "message")
    BY <1>3 DEF OnReadable
  <2>2. fd \in keys[t] /\ fd \in Fds
    BY <1>h, <2>1 DEF HandlerPc
  <2>3. /\ pc'[t] \in {"clean", "message"} /\ rbh'[t][fd] \subseteq rbh[t][fd] \cup {sock[fd]}
        /\ \A f \in Fds \ {fd} : rbh'[t][f] = rbh[t][f]
    BY <1>t, <1>k, <2>1, <2>2 DEF Goto
  <2> QED BY <1>c, <1>k, <2>1, <2>2, <2>3, CellBytes
<1>4. CASE OnMessage(t)
  <2> DEFINE fd == cur[t]
  <2>1. /\ pc[t] = "message" /\ UNCHANGED <<sock, keys, buffer_pool>>
        /\ \E consumed \in BOOLEAN :
              rbh' = [rbh EXCEPT ![t][fd] = IF consumed THEN {} ELSE @]
        /\ UNCHANGED wbh \/ wbh' = [wbh EXCEPT ![t][fd] = @ \cup {sock[fd]}]
        /\ \E l \in {"clean", "write", NextAfter(t)} : Goto(t, l)
    BY <1>4 DEF OnMessage, Finish, AppendAndWrite, kernelVars
  <2>2. fd \in keys[t] /\ fd \in Fds
    BY <1>h, <2>1 DEF HandlerPc
  <2>3. /\ rbh'[t][fd] \subseteq rbh[t][fd] /\ wbh'[t][fd] \subseteq wbh[t][fd] \cup {sock[fd]}
        /\ \A f \in Fds \ {fd} : rbh'[t][f] = rbh[t][f] /\ wbh'[t][f] = wbh[t][f]
    BY <1>t, <1>k, <2>1, <2>2
  <2>4. pc'[t] \notin {"syn", "first"}
    BY <1>t, <1>n, <2>1 DEF Goto
  <2> QED BY <1>c, <2>1, <2>2, <2>3, <2>4, CellBytes
<1>5. CASE WriteFails(t)
  <2>1. UNCHANGED <<sock, keys, rbh, wbh, buffer_pool>> /\ pc'[t] = "clean"
    BY <1>t, <1>5 DEF WriteFails, Goto, kernelVars, bufferVars
  <2> QED BY <1>c, <2>1, SameBytes
<1>6. CASE WriteCompletes(t) \/ WriteBlocks(t)
  <2> DEFINE fd == cur[t]
  <2>1. /\ pc[t] \in {"write", "flush"} /\ UNCHANGED <<sock, keys, buffer_pool, rbh>>
        /\ \E rest \in SUBSET wbh[t][fd] : wbh' = [wbh EXCEPT ![t][fd] = rest]
        /\ \E l \in {"clean", "rearm", NextAfter(t)} : Goto(t, l)
    BY <1>6 DEF WriteCompletes, WriteBlocks, AppMayClose, Finish, Quiet, kernelVars
  <2>2. fd \in keys[t] /\ fd \in Fds
    BY <1>h, <2>1 DEF HandlerPc
  <2>3. /\ wbh'[t][fd] \subseteq wbh[t][fd]
        /\ \A f \in Fds \ {fd} : wbh'[t][f] = wbh[t][f]
    BY <1>t, <1>k, <2>1, <2>2
  <2>4. pc'[t] \notin {"syn", "first"}
    BY <1>t, <1>n, <2>1 DEF Goto
  <2> QED BY <1>c, <1>k, <2>1, <2>2, <2>3, <2>4, CellBytes
<1>7. CASE Rearm(t)
  <2>1. /\ UNCHANGED <<sock, keys, rbh, wbh, buffer_pool>>
        /\ pc'[t] \notin {"syn", "first"}
    BY <1>t, <1>n, <1>7 DEF Rearm, Finish, Goto, bufferVars
  <2> QED BY <1>c, <2>1, SameBytes
<1>8. CASE OnPassivelyClosed(t)
  <2> DEFINE fd == cur[t]
  <2>1. /\ pc[t] = "clean" /\ UNCHANGED <<sock, keys, buffer_pool>>
        /\ \E r \in {{}, rbh[t][fd]} : rbh' = [rbh EXCEPT ![t][fd] = r]
        /\ \E w \in {{}, wbh[t][fd]} : wbh' = [wbh EXCEPT ![t][fd] = w]
        /\ Goto(t, "destroy")
    BY <1>8 DEF OnPassivelyClosed, AppMayClose, Quiet, kernelVars
  <2>2. fd \in keys[t] /\ fd \in Fds
    BY <1>h, <2>1 DEF HandlerPc
  <2>3. /\ pc'[t] = "destroy" /\ rbh'[t][fd] \subseteq rbh[t][fd] /\ wbh'[t][fd] \subseteq wbh[t][fd]
        /\ \A f \in Fds \ {fd} : rbh'[t][f] = rbh[t][f] /\ wbh'[t][f] = wbh[t][f]
    BY <1>t, <2>1, <2>2 DEF Goto
  <2> QED BY <1>c, <2>1, <2>2, <2>3, CellBytes
<1>9. CASE DestroyAndClose(t)
  <2> DEFINE fd == cur[t]
  <2>1. pc[t] = "destroy" /\ fd \in keys[t] /\ fd \in Fds
    BY <1>h, <1>9 DEF DestroyAndClose, HandlerPc
  <2>2. /\ sock' = [sock EXCEPT ![fd] = NoConn] /\ keys' = [keys EXCEPT ![t] = @ \ {fd}]
        /\ rbh' = [rbh EXCEPT ![t][fd] = {}] /\ wbh' = [wbh EXCEPT ![t][fd] = {}]
        /\ buffer_pool' = [buffer_pool EXCEPT ![t] = @ \o <<rbh[t][fd], wbh[t][fd]>>]
        /\ st' = [c \in Conns |-> IF c = sock[fd] THEN "closed" ELSE st[c]]
        /\ Goto(t, NextAfter(t))
    BY <1>9 DEF DestroyAndClose, CloseFd, destoryBuffer, Finish
  <2>3. /\ keys'[t] = keys[t] \ {fd}
        /\ buffer_pool'[t] = buffer_pool[t] \o <<rbh[t][fd], wbh[t][fd]>>
        /\ \A f \in Fds \ {fd} : /\ rbh'[t][f] = rbh[t][f] /\ wbh'[t][f] = wbh[t][f]
                                 /\ sock'[f] = sock[f]
        /\ pc'[t] = NextAfter(t)
    BY <1>t, <2>1, <2>2 DEF Goto
  <2>4. rbh[t][fd] \subseteq Closed' /\ wbh[t][fd] \subseteq Closed'
    <3>1. sock[fd] \in Conns
      BY <1>t, <2>1 DEF LiveInv, OwnInv, Has, Connected
    <3>2. sock[fd] \in Closed'
      BY <2>2, <3>1 DEF Closed
    <3> QED BY <2>1, <3>2 DEF BytesOK
  <2>5. \A i \in DOMAIN buffer_pool'[t] : buffer_pool'[t][i] \subseteq Closed'
    <3> DEFINE a == rbh[t][fd]  b == wbh[t][fd]  old == buffer_pool[t]
    <3>1. a \in Content /\ b \in Content /\ old \in Seq(Content)
      BY <1>t, <2>1
    <3>2. \A i \in DOMAIN old : old[i] \subseteq Closed'
      BY DEF BytesOK
    <3> HIDE DEF a, b, old
    <3>3. \A i \in DOMAIN (old \o <<a, b>>) :
             (old \o <<a, b>>)[i] \in {old[j] : j \in DOMAIN old} \cup {a, b}
      BY <3>1, PushElements
    <3>4. \A i \in DOMAIN (old \o <<a, b>>) : (old \o <<a, b>>)[i] \subseteq Closed'
      BY <2>4, <3>2, <3>3 DEF a, b
    <3> QED BY <2>3, <3>4 DEF a, b, old
  <2>6. \A f \in keys'[t] : /\ rbh'[t][f] \subseteq {sock'[f]} \cup Closed'
                            /\ wbh'[t][f] \subseteq {sock'[f]} \cup Closed'
    BY <1>k, <2>3 DEF BytesOK
  <2>7. fd \notin syn_sent[t]
    BY <2>1 DEF LiveInv, OwnInv, Connecting
  <2>8. \A f \in Fds : Connecting(t, f)' => init_message'[t][f] = sock'[f]
    BY <1>n, <1>c, <2>3, <2>7 DEF Connecting, BytesOK
  <2> QED BY <1>n, <2>3, <2>5, <2>6, <2>8 DEF BytesOK
<1> QED BY <1>1, <1>2, <1>3, <1>4, <1>5, <1>6, <1>7, <1>8, <1>9 DEF ServeStep, IOStep

(* Connecting: the message is kept under the descriptor of its socket, and *)
(* is still there when it is sent.                                         *)
LEMMA GetFromPoolBytes ==
    ASSUME TypeInv, LiveInv, NEW t \in Threads, BytesOK(t), Closed \subseteq Closed',
           GetFromPool(t)
    PROVE  BytesOK(t)'
<1>t. /\ pc \in [Threads -> ClientSteps] /\ cur \in [Threads -> Fds \cup {NoFd}]
      /\ keys \in [Threads -> SUBSET Fds] /\ sock \in [Fds -> Conns \cup {NoConn}]
      /\ init_message \in [Threads -> [Fds -> Conns \cup {NoConn}]]
  BY DEF TypeInv, TypeOK, IOTypeOK, ClientSteps
<1>1. PICK d \in Fds : /\ ~Connected(d) /\ sock' = [sock EXCEPT ![d] = Taken]
                       /\ init_message' = [init_message EXCEPT ![t][d] = Taken]
                       /\ cur' = [cur EXCEPT ![t] = d]
  BY DEF GetFromPool, FreeFds
<1> HIDE DEF Taken
<1>2. pc[t] = "get" /\ pc'[t] = "syn" /\ UNCHANGED <<keys, rbh, wbh, buffer_pool, syn_sent>>
  BY <1>t DEF GetFromPool, Goto, bufferVars
<1>3. /\ sock'[d] = Taken /\ init_message'[t][d] = Taken /\ cur'[t] = d
      /\ \A f \in Fds \ {d} : sock'[f] = sock[f] /\ init_message'[t][f] = init_message[t][f]
  BY <1>t, <1>1
<1>4. ~Has(t, d)
  BY <1>1 DEF LiveInv, OwnInv
<1>5. \A f \in keys'[t] : /\ rbh'[t][f] \subseteq {sock'[f]} \cup Closed'
                          /\ wbh'[t][f] \subseteq {sock'[f]} \cup Closed'
  BY <1>t, <1>2, <1>3, <1>4 DEF Has, BytesOK
<1>6. \A f \in Fds : Connecting(t, f)' => init_message'[t][f] = sock'[f]
  BY <1>2, <1>3 DEF Connecting, BytesOK
<1> QED BY <1>2, <1>5, <1>6 DEF BytesOK

LEMMA RegisterSynBytes ==
    ASSUME TypeInv, NEW t \in Threads, BytesOK(t), Closed \subseteq Closed', RegisterSyn(t),
           ~Terminate
    PROVE  BytesOK(t)'
<1>t. pc \in [Threads -> ClientSteps] /\ syn_sent \in [Threads -> SUBSET Fds]
  BY DEF TypeInv, TypeOK, IOTypeOK, ClientSteps
<1>1. /\ pc[t] = "syn" /\ pc'[t] = "get" /\ syn_sent'[t] = syn_sent[t] \cup {cur[t]}
      /\ UNCHANGED <<sock, keys, rbh, wbh, buffer_pool, init_message>>
  BY <1>t DEF RegisterSyn, Goto, bufferVars
<1> QED BY <1>1 DEF BytesOK, Connecting

LEMMA ConnectEndBytes ==
    ASSUME TypeInv, LiveInv, NEW t \in Threads, BytesOK(t), Closed \subseteq Closed',
           ConnectFailed(t) \/ ConnectSucceeds(t), ~Terminate
    PROVE  BytesOK(t)'
<1>t. /\ pc \in [Threads -> ClientSteps] /\ keys \in [Threads -> SUBSET Fds]
      /\ sock \in [Fds -> Conns \cup {NoConn}] /\ conn \in [Threads -> Fds \cup {NoFd}]
      /\ rbh \in [Threads -> [Fds -> Content]] /\ wbh \in [Threads -> [Fds -> Content]]
      /\ buffer_pool \in [Threads -> Seq(Content)]
  BY DEF TypeInv, TypeOK, IOTypeOK, ClientSteps
<1>1. CASE ConnectFailed(t)
  <2>1. PICK e \in evs[t] :
            /\ SynDone(t, e) /\ sock' = [sock EXCEPT ![e[1]] = NoConn]
            /\ Goto(t, "loop") \/ Goto(t, "events")
            /\ UNCHANGED <<keys, rbh, wbh, buffer_pool, init_message>>
    BY <1>1 DEF ConnectFailed, OnConnectFailed, CloseFd, bufferVars
  <2>2. e[1] \in Fds /\ e[1] \notin keys[t] /\ syn_sent'[t] = syn_sent[t] \ {e[1]}
    BY <2>1, SynDoneFacts
  <2>3. /\ pc'[t] \in {"loop", "events"}
        /\ \A f \in Fds \ {e[1]} : sock'[f] = sock[f]
    BY <1>t, <2>1, <2>2 DEF Goto
  <2>4. \A f \in keys'[t] : /\ rbh'[t][f] \subseteq {sock'[f]} \cup Closed'
                            /\ wbh'[t][f] \subseteq {sock'[f]} \cup Closed'
    BY <1>t, <2>1, <2>2, <2>3 DEF BytesOK
  <2>5. \A f \in Fds : Connecting(t, f)' => init_message'[t][f] = sock'[f]
    BY <2>1, <2>2, <2>3 DEF Connecting, BytesOK
  <2> QED BY <2>1, <2>3, <2>4, <2>5 DEF BytesOK
<1>2. CASE ConnectSucceeds(t)
  <2>1. PICK e \in evs[t] :
            /\ SynDone(t, e) /\ createBuffer(t, e[1]) /\ conn' = [conn EXCEPT ![t] = e[1]]
            /\ Goto(t, "first") /\ UNCHANGED <<sock, init_message>>
    BY <1>2 DEF ConnectSucceeds
  <2>2. e[1] \in Fds /\ e[1] \in syn_sent[t] /\ syn_sent'[t] = syn_sent[t] \ {e[1]}
    BY <2>1, SynDoneFacts
  <2> DEFINE pooled == {buffer_pool[t][j] : j \in DOMAIN buffer_pool[t]}
  <2>3. /\ keys' = [keys EXCEPT ![t] = @ \cup {e[1]}]
        /\ \E r, w \in pooled \cup {{}} : /\ rbh' = [rbh EXCEPT ![t][e[1]] = r]
                                        /\ wbh' = [wbh EXCEPT ![t][e[1]] = w]
        /\ \A i \in DOMAIN buffer_pool'[t] : buffer_pool'[t][i] \in pooled
    BY <1>t, <2>1, <2>2, CreateElements
  <2>p. \A b \in pooled \cup {{}} : b \subseteq Closed'
    BY DEF BytesOK
  <2> HIDE DEF pooled
  <2>4. /\ pc'[t] = "first" /\ conn'[t] = e[1] /\ keys'[t] = keys[t] \cup {e[1]}
        /\ rbh'[t][e[1]] \subseteq Closed' /\ wbh'[t][e[1]] \subseteq Closed'
        /\ \A f \in Fds \ {e[1]} : rbh'[t][f] = rbh[t][f] /\ wbh'[t][f] = wbh[t][f]
    BY <1>t, <2>1, <2>2, <2>3, <2>p DEF Goto
  <2>5. \A f \in keys'[t] : /\ rbh'[t][f] \subseteq {sock'[f]} \cup Closed'
                            /\ wbh'[t][f] \subseteq {sock'[f]} \cup Closed'
    <3>1. ASSUME NEW f \in keys'[t], f # e[1]
          PROVE  /\ rbh'[t][f] \subseteq {sock'[f]} \cup Closed'
                 /\ wbh'[t][f] \subseteq {sock'[f]} \cup Closed'
      BY <1>t, <2>1, <2>4, <3>1 DEF BytesOK
    <3> QED BY <2>4, <3>1
  <2>6. \A f \in Fds : Connecting(t, f)' \/ f = e[1] => init_message'[t][f] = sock'[f]
    BY <2>1, <2>2, <2>4 DEF Connecting, BytesOK
  <2> QED BY <2>3, <2>4, <2>5, <2>6, <2>p DEF BytesOK
<1> QED BY <1>1, <1>2

LEMMA StageBytes ==
    ASSUME TypeInv, LiveInv, NEW t \in Threads, BytesOK(t), Closed \subseteq Closed',
           FirstWrite(t) \/ OnConnect(t) \/ Arm(t), ~Terminate
    PROVE  BytesOK(t)'
<1>t. /\ pc \in [Threads -> ClientSteps] /\ keys \in [Threads -> SUBSET Fds]
      /\ wbh \in [Threads -> [Fds -> Content]]
  BY DEF TypeInv, TypeOK, IOTypeOK, ClientSteps
<1>1. conn[t] \in keys[t] /\ conn[t] \in Fds
  BY <1>t DEF FirstWrite, OnConnect, Arm, LiveInv, ThreadsOK, StageOK, Stage
<1>2. pc[t] = "first" => init_message[t][conn[t]] = sock[conn[t]]
  BY <1>1 DEF BytesOK
<1>3. /\ UNCHANGED <<sock, keys, rbh, buffer_pool, syn_sent, init_message>>
      /\ \E l \in {"write", "arm", "loop", "events"} : Goto(t, l)
      /\ UNCHANGED wbh \/ wbh' = [wbh EXCEPT ![t][conn[t]] = @ \cup {sock[conn[t]]}]
  <2>1. CASE FirstWrite(t)
    BY <1>2, <2>1 DEF FirstWrite, clientVars, connVars, kernelVars
  <2>2. CASE OnConnect(t)
    BY <2>2 DEF OnConnect, AppendAndWrite, clientVars, connVars, kernelVars
  <2>3. CASE Arm(t)
    BY <2>3 DEF Arm, bufferVars
  <2> QED BY <2>1, <2>2, <2>3
<1>4. pc'[t] \notin {"syn", "first"}
  BY <1>t, <1>3 DEF Goto
<1>5. /\ wbh'[t][conn[t]] \subseteq wbh[t][conn[t]] \cup {sock[conn[t]]}
      /\ \A f \in Fds \ {conn[t]} : wbh'[t][f] = wbh[t][f]
  BY <1>t, <1>1, <1>2, <1>3
<1> QED BY <1>1, <1>2, <1>3, <1>4, <1>5, CellBytes

(* All steps.                                                              *)
LEMMA NextBytes ==
    ASSUME TypeInv, PoolInv, LiveInv, Quiet, BytesInv, [Next]_vars
    PROVE  Dead' \/ BytesInv'
<1>c. Closed \subseteq Closed'
  BY ClosedStays
<1>t. pc \in [Threads -> ClientSteps]
  BY DEF TypeInv, TypeOK, IOTypeOK, ClientSteps
<1>1. ASSUME NEW t \in Threads, ClientStep(t) \/ SpuriousWakeup(t)
      PROVE  Dead' \/ BytesInv'
  <2>1. CASE Terminate
    BY <2>1 DEF Terminate, Dead
  <2>2. CASE ~Terminate
    <3>1. BytesOK(t)
      BY DEF BytesInv
    <3>2. ASSUME \/ LockPool(t) \/ WaitForTarget(t) \/ PeekPool(t) \/ TryLockPool(t)
                 \/ TryLockFails(t) \/ UnlockPool(t) \/ SpuriousWakeup(t)
          PROVE  BytesOK(t)'
      <4>1. /\ UNCHANGED <<sock, keys, rbh, wbh, buffer_pool, init_message, syn_sent>>
            /\ \E l \in {"lock", "asleep", "trylock", "get", "wait"} : Goto(t, l)
        BY <3>2 DEF LockPool, WaitForTarget, PeekPool, TryLockPool, TryLockFails, UnlockPool,
                    SpuriousWakeup, EnterPool, kernelVars, bufferVars, clientVars, connVars
      <4>2. pc'[t] \notin {"syn", "first"}
        BY <1>t, <4>1 DEF Goto
      <4> QED BY <1>c, <3>1, <4>1, <4>2, SameBytes
    <3>3. ASSUME EpollWait(t)
          PROVE  BytesOK(t)'
      <4>1. /\ UNCHANGED <<sock, keys, rbh, wbh, buffer_pool, init_message, syn_sent>>
            /\ pc'[t] \in {"loop", "events"}
        BY <1>t, <3>3 DEF EpollWait, FetchEvents, Goto, kernelVars, bufferVars, clientVars, connVars
      <4> QED BY <1>c, <3>1, <4>1, SameBytes
    <3>4. ~ConnectThrows(t)
      BY <2>2 DEF ConnectThrows
    <3>5. BytesOK(t)'
      BY <1>c, <1>1, <2>2, <3>1, <3>2, <3>3, <3>4, ServeBytes, GetFromPoolBytes, RegisterSynBytes,
         ConnectEndBytes, StageBytes DEF ClientStep
    <3>6. ASSUME NEW u \in Threads \ {t}, ~Dead'
          PROVE  BytesOK(u)'
      <4>1. BytesOK(u)
        BY DEF BytesInv
      <4>2. \A f \in Fds : Has(u, f) => sock'[f] = sock[f]
        BY <1>1, OthersSockets
      <4> QED BY <1>c, <1>1, <3>6, <4>1, <4>2, OthersTables, OtherBytes
    <3> QED BY <3>5, <3>6 DEF BytesInv
  <2> QED BY <2>1, <2>2
<1>2. CASE UNCHANGED <<sock, keys, rbh, wbh, buffer_pool, init_message, syn_sent, cur, conn>>
           /\ \A u \in Threads : pc'[u] = pc[u] \/ (pc[u] = "asleep" /\ pc'[u] = "lock")
  <2>1. ASSUME NEW u \in Threads PROVE BytesOK(u)'
    <3>1. BytesOK(u)
      BY DEF BytesInv
    <3>2. CASE pc'[u] = pc[u]
      BY <1>c, <1>2, <3>1, <3>2, OtherBytes
    <3>3. CASE pc'[u] = "lock"
      BY <1>c, <1>2, <3>1, <3>3, SameBytes
    <3> QED BY <1>2, <3>2, <3>3
  <2> QED BY <2>1 DEF BytesInv
<1>3. ASSUME NEW c \in Conns, Add(c) \/ HostStep(c)
      PROVE  UNCHANGED <<sock, keys, rbh, wbh, buffer_pool, init_message, syn_sent, cur, conn, pc>>
  BY <1>3 DEF Add, HostStep, HostAccepts, PeerSends, PeerReads, PeerCloses, PeerResets, ioVars,
              kernelVars, bufferVars, controlVars, clientVars, connVars
<1>4. ASSUME NEW c \in Conns, NotifyAll(c)
      PROVE  Dead' \/ BytesInv'
  BY <1>2, <1>4 DEF NotifyAll, Awoken, kernelVars, bufferVars, connVars
<1>5. CASE UNCHANGED vars
  BY <1>2, <1>5 DEF vars, ioVars, kernelVars, bufferVars, controlVars, clientVars, connVars
<1> QED BY <1>1, <1>2, <1>3, <1>4, <1>5 DEF Next, Terminated

(* A connection goes to a host with the key its message was added under,  *)
(* and the message queued first on it is its own, whoever used the         *)
(* descriptor before; all else that its buffers can hold are bytes of      *)
(* connections that are closed, whatever onPassivelyClosed clears          *)
(* (TPSharedData.h:47-83, IOHandler.h:93-113, 238-243, 285).               *)
THEOREM OwnMessage ==
    ASSUME Quiet
    PROVE  Spec => []OwnMessageToOwnHost
<1> DEFINE Live == Dead \/ (LiveInv /\ BytesInv)
<1>1. Init => TypeInv /\ PoolInv /\ DestInv /\ Live
  <2>1. Init => DestInv /\ BytesInv
    BY SentinelAssumption DEF Init, IOInit, DestInv, BytesInv, BytesOK, Connecting
  <2> QED BY <2>1, InitType, InitPool, InitLive
<1>2. TypeInv /\ PoolInv /\ DestInv /\ Live /\ [Next]_vars => (TypeInv /\ PoolInv /\ DestInv /\ Live)'
  <2> SUFFICES ASSUME TypeInv, PoolInv, DestInv, Live, [Next]_vars
               PROVE  (TypeInv /\ PoolInv /\ DestInv /\ Live)'
    OBVIOUS
  <2>1. TypeInv' /\ PoolInv' /\ DestInv'
    BY NextType, NextPool, NextDest
  <2>2. CASE Dead
    BY <2>1, <2>2, NextDead
  <2>3. CASE LiveInv /\ BytesInv
    BY <2>1, <2>3, NextLive, NextBytes
  <2> QED BY <2>2, <2>3
<1>3. TypeInv /\ DestInv /\ Live => OwnMessageToOwnHost
  <2> SUFFICES ASSUME TypeInv, DestInv, LiveInv, BytesInv
               PROVE  OwnMessageToOwnHost
    BY DEF OwnMessageToOwnHost
  <2>1. \A t \in Threads : pc[t] = "first" => init_message[t][conn[t]] = sock[conn[t]]
    <3>1. \A t \in Threads : pc[t] = "first" => conn[t] \in Fds
      BY DEF TypeInv, InHand, Stage
    <3> QED BY <3>1 DEF BytesInv, BytesOK
  <2>2. \A t \in Threads : \A f \in keys[t] :
           rbh[t][f] \cup wbh[t][f] \subseteq {sock[f]} \cup Closed
    BY DEF BytesInv, BytesOK
  <2> QED BY <2>1, <2>2 DEF DestInv, OwnMessageToOwnHost
<1> HIDE DEF Live
<1> QED BY <1>1, <1>2, <1>3, PTL DEF Spec
=============================================================================
