----------------------- MODULE IOHandlerServerProofs -------------------------
(* Proofs about the server's thread pool, for any number of threads,       *)
(* connections and descriptors, any batch size and any callbacks.          *)
EXTENDS IOHandlerServer, IOHandlerProofs

TypeInv == TypeOK /\ CurOK

ServerSteps == HandlerPc \cup ServerPc
ServerRets == {"lock", "events", "accept"}

(* What the server adds to the type invariant of the base class.           *)
ServerTypes ==
    /\ listenfd_lock \in Threads \cup {NoThread}
    /\ listening \in SUBSET Threads
    /\ acc \in [Threads -> 0..Batch]

(* The type invariant in the form the base class's lemmas use, before and  *)
(* after a step.                                                           *)
LEMMA TypeInvParts ==
    /\ TypeInv <=> IOTypeInv(ServerSteps, ServerRets) /\ ServerTypes
    /\ TypeInv' <=> IOTypeInv(ServerSteps, ServerRets)' /\ ServerTypes'
<1>1. Loop(ServerSteps, ServerRets)
  BY DEF Loop, ServerSteps, ServerRets, HandlerPc, ServerPc
<1> QED BY <1>1 DEF TypeInv, TypeOK, IOTypeInv, ServerTypes, ServerSteps, ServerRets

(* The steps of the server.                                                *)
LEMMA ServerStepType ==
    ASSUME TypeInv, NEW t \in Threads, ServerStep(t)
    PROVE  TypeInv'
<1> USE DEF kernelVars, bufferVars, serverVars
<1>1. CASE IOStep(t) /\ UNCHANGED serverVars
  <2>1. IOTypeInv(ServerSteps, ServerRets)'
    BY <1>1, TypeInvParts, IOStepType
  <2> QED BY <1>1, <2>1, TypeInvParts DEF ServerTypes
<1>2. CASE LockListen(t)
  BY <1>2 DEF LockListen, CountUp, Goto, TypeInv, TypeOK, IOTypeOK, CurOK, HandlerPc, ServerPc
<1>3. CASE TryLockFails(t)
  BY <1>3 DEF TryLockFails, Goto, TypeInv, TypeOK, IOTypeOK, CurOK, HandlerPc, ServerPc
<1>4. CASE RegisterListen(t)
  BY <1>4 DEF RegisterListen, Goto, Terminate, TypeInv, TypeOK, IOTypeOK, CurOK, HandlerPc, ServerPc
<1>5. CASE EpollWait(t)
  <2>1. ReadyEvents(t) \cup ListenEvents(t) \in SUBSET Event
    BY DEF ReadyEvents, ListenEvents, Event
  <2>2. IOTypeInv(ServerSteps, ServerRets)'
    BY <1>5, <2>1, TypeInvParts, FetchEventsType DEF EpollWait
  <2> QED BY <1>5, <2>2, TypeInvParts DEF EpollWait, ServerTypes
<1>6. CASE ListenEvent(t)
  BY <1>6, BatchAssumption DEF ListenEvent, DropEvent, Goto, TypeInv, TypeOK, IOTypeOK, CurOK,
                               HandlerPc, ServerPc
<1>7. CASE Accept(t)
  <2> PICK c \in Pending, fd \in FreeFds :
          /\ sock' = [sock EXCEPT ![fd] = c]
          /\ st' = [st EXCEPT ![c] = "open"]
          /\ owner' = [owner EXCEPT ![c] = t]
          /\ cur' = [cur EXCEPT ![t] = fd]
          /\ createBuffer(t, fd)
    BY <1>7 DEF Accept
  <2>1. c \in Conns /\ fd \in Fds
    BY DEF Pending, FreeFds
  <2>2. /\ keys' \in [Threads -> SUBSET Fds]
        /\ rbh' \in [Threads -> [Fds -> Content]]
        /\ wbh' \in [Threads -> [Fds -> Content]]
        /\ buffer_pool' \in [Threads -> Seq(Content)]
    BY <2>1, TypeInvParts, CreateBufferType DEF TypeInv, TypeOK
  <2>3. ControlOK(ServerSteps)'
    BY <1>7, <2>1 DEF ServerSteps, Accept, Goto, ControlOK, TypeInv, TypeOK, IOTypeOK, CurOK, HandlerPc, ServerPc
  <2>4. acc' \in [Threads -> 0..Batch]
    BY <1>7, BatchAssumption DEF Accept, MoreToAccept, TypeInv, TypeOK
  <2>5. /\ sock' \in [Fds -> Conns \cup {NoConn}]
        /\ st' \in [Conns -> {"idle", "pending", "open", "closed"}]
        /\ owner' \in [Conns -> Threads \cup {NoThread}]
    BY <2>1 DEF TypeInv, TypeOK, IOTypeOK
  <2> QED BY <1>7, <2>2, <2>3, <2>4, <2>5 DEF ServerSteps, Accept, ControlOK, TypeInv, TypeOK, IOTypeOK
<1>8. CASE AcceptFatal(t)
  BY <1>8 DEF AcceptFatal, Terminate, TypeInv, TypeOK, IOTypeOK, CurOK, HandlerPc, ServerPc
<1>9. CASE RemoveListen(t)
  BY <1>9 DEF RemoveListen, Goto, TypeInv, TypeOK, IOTypeOK, CurOK, HandlerPc, ServerPc
<1>10. CASE UnlockListen(t)
  BY <1>10, BatchAssumption DEF UnlockListen, Goto, TypeInv, TypeOK, IOTypeOK, CurOK,
                                HandlerPc, ServerPc
<1>11. CASE Register(t)
  <2>1. cur[t] \in Fds
    BY <1>11, TypeInvParts, HandlerCur DEF Register, HandlerPc
  <2>2. ControlOK(ServerSteps)'
    BY <1>11, <2>1, TypeInvParts, GotoControl DEF ServerSteps, Register, HandlerPc, ServerPc
  <2>3. interest' \in [Threads -> [Fds -> {"none", "IN", "OUT"}]]
    <3>1. interest \in [Threads -> [Fds -> {"none", "IN", "OUT"}]]
      BY DEF TypeInv, TypeOK, IOTypeOK
    <3>2. UNCHANGED interest \/ interest' = [interest EXCEPT ![t][cur[t]] = "IN"]
      BY <1>11 DEF Register
    <3> QED BY <2>1, <3>1, <3>2, CellType
  <2> QED BY <1>11, <2>2, <2>3 DEF ServerSteps, Register, ControlOK, TypeInv, TypeOK, IOTypeOK
<1>12. CASE OnConnect(t)
  <2>1. cur[t] \in Fds
    BY <1>12, TypeInvParts, HandlerCur DEF OnConnect, HandlerPc
  <2>2. ControlOK(ServerSteps)'
    BY <1>12, <2>1, TypeInvParts, GotoControl, FinishControl DEF ServerSteps, OnConnect, AppendAndWrite, HandlerPc, ServerPc
  <2>3. wbh' \in [Threads -> [Fds -> Content]]
    BY <1>12, <2>1, TypeInvParts, AppendType DEF OnConnect, TypeInv, TypeOK, IOTypeOK
  <2> QED BY <1>12, <2>2, <2>3 DEF ServerSteps, OnConnect, ControlOK, TypeInv, TypeOK, IOTypeOK
<1> QED BY <1>1, <1>2, <1>3, <1>4, <1>5, <1>6, <1>7, <1>8, <1>9, <1>10, <1>11, <1>12
        DEF ServerStep

(* The steps of the clients, and of nobody.                                *)
LEMMA NextType ==
    ASSUME TypeInv, [Next]_vars
    PROVE  TypeInv'
<1> USE DEF kernelVars, bufferVars, controlVars, serverVars
<1>1. ASSUME NEW t \in Threads, ServerStep(t)
      PROVE  TypeInv'
  BY <1>1, ServerStepType
<1>2. ASSUME NEW c \in Conns, ClientStep(c)
      PROVE  TypeInv'
  BY <1>2 DEF ClientStep, PeerConnects, PeerStep, PeerSends, PeerReads, PeerCloses, PeerResets,
              TypeInv, TypeOK, IOTypeOK, CurOK
<1>3. CASE UNCHANGED vars
  BY <1>3 DEF vars, ioVars, TypeInv, TypeOK, IOTypeOK, CurOK
<1> QED BY <1>1, <1>2, <1>3 DEF Next, Terminated

(* The initial state is well typed.                                        *)
LEMMA InitType ==
    ASSUME Init
    PROVE  TypeInv
<1>1. {} \in Content /\ <<>> \in Seq(Content)
  BY EmptySeq DEF Content
<1> QED BY <1>1, BatchAssumption DEF Init, IOInit, TypeInv, TypeOK, IOTypeOK, CurOK,
                                     HandlerPc, ServerPc

(* Type correctness, with the well-definedness of every handler's          *)
(* descriptor.                                                             *)
LEMMA SpecTypeInv == Spec => []TypeInv
BY InitType, NextType, PTL DEF Spec

(* Every reachable state of the server is well typed: in particular no     *)
(* thread accepts more than a batch of connections.                        *)
THEOREM TypeCorrect == Spec => []TypeOK
<1>1. TypeInv => TypeOK
  BY DEF TypeInv
<1> QED BY <1>1, SpecTypeInv, PTL
-----------------------------------------------------------------------------
(* The inductive invariant behind the exclusion of accepting threads.      *)
(* Besides ListenExclusive itself it says who is about to register the     *)
(* listening socket, that the event of the listening socket is gone once   *)
(* the accept loop runs, and that the socket has left the epoll instance   *)
(* before the lock is given back.                                          *)
ListenInv ==
    \A t \in Threads :
        /\ t \in listening => listenfd_lock = t
        /\ <<ListenFd, "IN">> \in evs[t] => t \in listening /\ ret[t] # "accept"
        /\ ret[t] = "accept" => listenfd_lock = t
        /\ pc[t] = "listen" => listenfd_lock = t
        /\ pc[t] \in {"accept", "unlock"} => ret[t] = "accept"
        /\ pc[t] = "unlock" => t \notin listening

(* Steps that leave the server's variables alone preserve it, when they    *)
(* move one thread within or out of its handlers.                          *)
LEMMA ListenInvIOStep ==
    ASSUME TypeInv, ListenInv, NEW t \in Threads, IOStep(t), UNCHANGED serverVars
    PROVE  ListenInv'
<1>1. /\ \A u \in Threads \ {t} :
            pc'[u] \in {pc[u], "dead"} /\ ret'[u] = ret[u] /\ evs'[u] = evs[u]
      /\ ret'[t] \in {ret[t], "lock"}
      /\ evs'[t] \subseteq evs[t]
      /\ \/ pc'[t] \in HandlerPc \cup {"loop", "lock", "events", "dead"}
         \/ pc'[t] = ret[t] /\ ret'[t] = ret[t]
      /\ ret[t] \in {"lock", "events", "accept"}
  BY TypeInvParts, IOStepControl DEF TypeInv, TypeOK, IOTypeOK
<1> QED BY <1>1 DEF ListenInv, serverVars, HandlerPc

(* The steps of the server preserve it.                                    *)
LEMMA ListenInvServerStep ==
    ASSUME TypeInv, ListenInv, NEW t \in Threads, ServerStep(t)
    PROVE  ListenInv'
<1> USE SentinelAssumption DEF kernelVars, bufferVars, serverVars
<1>t. /\ pc \in [Threads -> HandlerPc \cup ServerPc]
      /\ ret \in [Threads -> {"lock", "events", "accept"}]
      /\ evs \in [Threads -> SUBSET Event]
      /\ listenfd_lock \in Threads \cup {NoThread}
      /\ listening \in SUBSET Threads
  BY DEF TypeInv, TypeOK, IOTypeOK
<1>1. CASE IOStep(t) /\ UNCHANGED serverVars
  BY <1>1, ListenInvIOStep
<1>2. CASE LockListen(t)
  BY <1>2, <1>t DEF LockListen, CountUp, Goto, ListenInv
<1>3. CASE TryLockFails(t)
  BY <1>3, <1>t DEF TryLockFails, Goto, ListenInv
<1>4. CASE RegisterListen(t)
  BY <1>4, <1>t DEF RegisterListen, Goto, Terminate, ListenInv
<1>5. CASE EpollWait(t)
  <2>1. <<ListenFd, "IN">> \in ReadyEvents(t) \cup ListenEvents(t) => t \in listening
    BY DEF ReadyEvents, ListenEvents
  <2>2. /\ evs' = [evs EXCEPT ![t] = ReadyEvents(t) \cup ListenEvents(t)]
        /\ ret' = [ret EXCEPT ![t] = "events"]
        /\ pc' = [pc EXCEPT ![t] = "loop"] \/ pc' = [pc EXCEPT ![t] = "events"]
        /\ UNCHANGED <<listenfd_lock, listening>>
    BY <1>5 DEF EpollWait, FetchEvents, Goto
  <2> QED BY <1>t, <2>1, <2>2 DEF ListenInv
<1>6. CASE ListenEvent(t)
  BY <1>6, <1>t DEF ListenEvent, DropEvent, Goto, ListenInv
<1>7. CASE Accept(t)
  BY <1>7, <1>t DEF Accept, Goto, ListenInv
<1>8. CASE AcceptFatal(t)
  BY <1>8, <1>t DEF AcceptFatal, Terminate, ListenInv
<1>9. CASE RemoveListen(t)
  BY <1>9, <1>t DEF RemoveListen, Goto, ListenInv
<1>10. CASE UnlockListen(t)
  BY <1>10, <1>t DEF UnlockListen, Goto, ListenInv
<1>11. CASE Register(t)
  BY <1>11, <1>t DEF Register, Goto, ListenInv
<1>12. CASE OnConnect(t)
  <2>1. /\ pc[t] = "connect"
        /\ UNCHANGED <<ret, evs, serverVars>>
        /\ \/ pc' = [pc EXCEPT ![t] = "write"]
           \/ pc' = [pc EXCEPT ![t] = "destroy"]
           \/ pc' = [pc EXCEPT ![t] = NextAfter(t)]
    BY <1>12 DEF OnConnect, AppendAndWrite, Finish, Goto
  <2>2. NextAfter(t) \in {"loop", "lock", "events"} \/ (NextAfter(t) = "accept" /\ ret[t] = "accept")
    BY <1>t DEF NextAfter
  <2> QED BY <1>t, <2>1, <2>2 DEF ListenInv
<1> QED BY <1>1, <1>2, <1>3, <1>4, <1>5, <1>6, <1>7, <1>8, <1>9, <1>10, <1>11, <1>12
        DEF ServerStep

(* All steps preserve it: the clients touch neither lock nor events.       *)
LEMMA ListenInvNext ==
    ASSUME TypeInv, ListenInv, [Next]_vars
    PROVE  ListenInv'
<1>1. ASSUME NEW c \in Conns, ClientStep(c)
      PROVE  UNCHANGED <<pc, ret, evs, serverVars>>
  BY <1>1 DEF ClientStep, PeerConnects, PeerStep, PeerSends, PeerReads, PeerCloses, PeerResets,
              controlVars, serverVars
<1>2. CASE UNCHANGED vars
  BY <1>2 DEF vars, ioVars, controlVars, serverVars, ListenInv
<1>3. ASSUME NEW c \in Conns, ClientStep(c)
      PROVE  ListenInv'
  BY <1>1, <1>3 DEF serverVars, ListenInv
<1> QED BY <1>2, <1>3, ListenInvServerStep DEF Next, Terminated

(* Accepting threads exclude each other, for any number of threads: the    *)
(* listening socket is registered by, and accept4 is called by, the owner  *)
(* of _listenfd_lock only.                                                 *)
THEOREM ListenExclusion == Spec => []ListenExclusive
<1>1. Init => ListenInv
  BY DEF Init, IOInit, ListenInv
<1>2. TypeInv /\ ListenInv /\ [Next]_vars => ListenInv'
  BY ListenInvNext
<1>3. ListenInv => ListenExclusive
  BY DEF ListenInv, ListenExclusive, Holding
<1> QED BY <1>1, <1>2, <1>3, SpecTypeInv, PTL DEF Spec
-----------------------------------------------------------------------------
(* ServingThreadNeverBlocks is inductive as it stands.                     *)
LEMMA NeverBlocksStep ==
    ASSUME TypeInv, ServingThreadNeverBlocks, NEW t \in Threads, ServerStep(t)
    PROVE  ServingThreadNeverBlocks'
<1> USE SentinelAssumption DEF kernelVars, bufferVars, serverVars, Holding
<1>t. /\ pc \in [Threads -> HandlerPc \cup ServerPc]
      /\ fd_num \in [Threads -> {0, 1}]
      /\ keys \in [Threads -> SUBSET Fds]
  BY DEF TypeInv, TypeOK, IOTypeOK
<1>1. CASE IOStep(t) /\ UNCHANGED serverVars
  <2>1. /\ \A u \in Threads \ {t} : pc'[u] \in {pc[u], "dead"} /\ keys'[u] = keys[u]
        /\ keys'[t] \subseteq keys[t]
        /\ fd_num' = fd_num
        /\ pc[t] \in HandlerPc \cup {"loop", "events"}
    BY <1>1, TypeInvParts, IOStepControl
  <2>2. ASSUME fd_num[t] = 0
        PROVE  pc'[t] = "lock"
    <3>1. pc[t] = "loop" /\ keys[t] = {}
      BY <2>1, <2>2 DEF ServingThreadNeverBlocks, HandlerPc
    <3>2. OnEpollLoop(t)
      BY <1>1, <3>1 DEF IOStep, ProcessEvent, OnReadable, OnMessage, WriteFails,
                        WriteCompletes, WriteBlocks, Rearm, OnPassivelyClosed, DestroyAndClose
    <3> QED BY <1>t, <3>1, <3>2 DEF OnEpollLoop, Goto
  <2> QED BY <1>1, <2>1, <2>2 DEF ServingThreadNeverBlocks
<1>2. CASE LockListen(t)
  BY <1>2, <1>t DEF LockListen, CountUp, Goto, ServingThreadNeverBlocks
<1>3. CASE TryLockFails(t)
  BY <1>3, <1>t DEF TryLockFails, Goto, ServingThreadNeverBlocks
<1>4. CASE RegisterListen(t)
  BY <1>4, <1>t DEF RegisterListen, Goto, Terminate, ServingThreadNeverBlocks
<1>5. CASE EpollWait(t)
  BY <1>5, <1>t DEF EpollWait, FetchEvents, Goto, ServingThreadNeverBlocks
<1>6. CASE ListenEvent(t)
  BY <1>6, <1>t DEF ListenEvent, Goto, ServingThreadNeverBlocks
<1>7. CASE Accept(t)
  BY <1>7, <1>t DEF Accept, createBuffer, Goto, ServingThreadNeverBlocks
<1>8. CASE AcceptFatal(t)
  BY <1>8, <1>t DEF AcceptFatal, Terminate, ServingThreadNeverBlocks
<1>9. CASE RemoveListen(t)
  BY <1>9, <1>t DEF RemoveListen, Goto, ServingThreadNeverBlocks
<1>10. CASE UnlockListen(t)
  BY <1>10, <1>t DEF UnlockListen, Goto, ServingThreadNeverBlocks
<1>11. CASE Register(t)
  BY <1>11, <1>t DEF Register, Goto, ServingThreadNeverBlocks
<1>12. CASE OnConnect(t)
  <2>1. /\ pc[t] = "connect"
        /\ UNCHANGED <<keys, fd_num, serverVars>>
        /\ \E l : pc' = [pc EXCEPT ![t] = l]
    BY <1>12 DEF OnConnect, AppendAndWrite, Finish, Goto
  <2> QED BY <1>t, <2>1 DEF ServingThreadNeverBlocks
<1> QED BY <1>1, <1>2, <1>3, <1>4, <1>5, <1>6, <1>7, <1>8, <1>9, <1>10, <1>11, <1>12
        DEF ServerStep

(* A thread that may have connections only ever uses try_lock, so it goes  *)
(* on serving them whoever holds the listening socket, itself included.    *)
THEOREM NeverBlocks == Spec => []ServingThreadNeverBlocks
<1>1. Init => ServingThreadNeverBlocks
  BY SentinelAssumption DEF Init, IOInit, ServingThreadNeverBlocks, Holding
<1>2. TypeInv /\ ServingThreadNeverBlocks /\ [Next]_vars => ServingThreadNeverBlocks'
  <2> SUFFICES ASSUME TypeInv, ServingThreadNeverBlocks, [Next]_vars
               PROVE  ServingThreadNeverBlocks'
    OBVIOUS
  <2>1. ASSUME NEW c \in Conns, ClientStep(c)
        PROVE  UNCHANGED <<pc, fd_num, keys, listenfd_lock>>
    BY <2>1 DEF ClientStep, PeerConnects, PeerStep, PeerSends, PeerReads, PeerCloses, PeerResets,
                controlVars, bufferVars, serverVars
  <2>2. CASE UNCHANGED vars
    BY <2>2 DEF vars, ioVars, controlVars, bufferVars, serverVars, ServingThreadNeverBlocks, Holding
  <2>3. CASE \E c \in Conns : ClientStep(c)
    BY <2>1, <2>3 DEF ServingThreadNeverBlocks, Holding
  <2> QED BY <2>2, <2>3, NeverBlocksStep DEF Next, Terminated
<1> QED BY <1>1, <1>2, SpecTypeInv, PTL DEF Spec
=============================================================================
