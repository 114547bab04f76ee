--------------------------- MODULE OneThreadProofs ---------------------------
(* "One connected socket handled only by one thread": proofs for any       *)
(* number of threads, connections and descriptors, for applications that   *)
(* leave closing to the library (AppCloses = {}).                          *)
EXTENDS IOHandlerServerProofs

(* The descriptor table is one to one with the open connections, a thread  *)
(* has buffers for the connections it accepted, and registrations only for *)
(* descriptors it has buffers for.                                         *)
OwnInv ==
    /\ \A f, g \in Fds : Connected(f) /\ sock[f] = sock[g] => f = g
    /\ \A f \in Fds : Connected(f) => st[sock[f]] = "open"
    /\ OneThreadPerSocket

(* Besides NoStaleEvent: the events not processed yet are not about the    *)
(* descriptor in hand, and none are left when the thread is outside its    *)
(* loop over the events.                                                   *)
EventInv ==
    /\ NoStaleEvent
    /\ \A t \in Threads :
          /\ pc[t] \in HandlerPc => \A e \in evs[t] : e[1] # cur[t]
          /\ \/ pc[t] \in {"loop", "lock", "listen", "wait"}
             \/ pc[t] \in HandlerPc /\ ret[t] = "lock"
             => evs[t] = {}
          /\ pc[t] = "events" => ret[t] = "events"

Inv == TypeInv /\ ListenInv /\ OwnInv /\ EventInv

(* Only the library closes, so only DestroyAndClose and Accept change who  *)
(* has which descriptor; the other steps of a thread change at most its    *)
(* own registration of the descriptor in hand.                             *)
Keeps(t) ==
    /\ UNCHANGED <<sock, st, owner, keys>>
    /\ \A u \in Threads, f \in Fds :
          interest'[u][f] = interest[u][f] \/ (u = t /\ f = cur[t] /\ pc[t] \in HandlerPc)

(* Such a step preserves the ownership part of the invariant.              *)
LEMMA KeepsOwnInv ==
    ASSUME Inv, NEW t \in Threads, Keeps(t)
    PROVE  OwnInv'
<1>1. pc[t] \in HandlerPc => cur[t] \in keys[t]
  BY DEF Inv, EventInv, NoStaleEvent
<1> QED BY <1>1 DEF Inv, OwnInv, OneThreadPerSocket, Keeps, Connected

(* A thread whose step keeps the descriptors and that stays in a handler   *)
(* for the same descriptor, or leaves it.                                  *)
LEMMA KeepsEventInv ==
    ASSUME Inv, NEW t \in Threads, Keeps(t), UNCHANGED <<ret, evs>>,
           pc[t] \in HandlerPc,
           \A u \in Threads \ {t} : pc'[u] = pc[u] /\ cur'[u] = cur[u],
           \/ pc'[t] \in HandlerPc /\ cur'[t] = cur[t]
           \/ pc'[t] = NextAfter(t)
    PROVE  EventInv'
<1>1. \A u \in Threads, f \in Fds :
          interest'[u][f] = interest[u][f] \/ (u = t /\ f = cur[t])
  BY DEF Keeps
<1>2. keys' = keys
  BY DEF Keeps
<1>3. \A e \in evs[t] : e[1] # cur[t]
  BY DEF Inv, EventInv
<1>4. NoStaleEvent'
  <2>1. ASSUME NEW u \in Threads, NEW e \in evs[u], e[1] \in Fds
        PROVE  e[1] \in keys[u] /\ interest'[u][e[1]] = e[2]
    BY <1>1, <1>3, <2>1 DEF Inv, EventInv, NoStaleEvent
  <2>2. ASSUME NEW u \in Threads, pc'[u] \in HandlerPc
        PROVE  cur'[u] \in keys[u]
    <3>1. NextAfter(t) \notin HandlerPc
      BY DEF NextAfter, Inv, TypeInv, TypeOK, IOTypeOK, HandlerPc
    <3> QED BY <2>2, <3>1 DEF Inv, EventInv, NoStaleEvent
  <2> QED BY <1>2, <2>1, <2>2 DEF NoStaleEvent
<1>5. \/ pc'[t] \in HandlerPc /\ cur'[t] = cur[t]
      \/ pc'[t] = "loop" /\ evs[t] = {}
      \/ pc'[t] = "lock" /\ ret[t] = "lock"
      \/ pc'[t] = "events" /\ ret[t] = "events"
      \/ pc'[t] = "accept"
  BY DEF NextAfter, Inv, TypeInv, TypeOK, IOTypeOK
<1> QED BY <1>4, <1>5 DEF Inv, EventInv, HandlerPc
-----------------------------------------------------------------------------
(* onClean's last step: destoryBuffer and close together take exactly the  *)
(* descriptor in hand away, from this thread and from nobody else.         *)
LEMMA DestroyAndCloseInv ==
    ASSUME Inv, NEW t \in Threads, DestroyAndClose(t)
    PROVE  OwnInv' /\ EventInv'
<1> DEFINE fd == cur[t]
           c == sock[fd]
<1>1. fd \in Fds /\ fd \in keys[t] /\ c \in Conns /\ owner[c] = t
  BY DEF DestroyAndClose, HandlerPc, Inv, TypeInv, TypeOK, IOTypeOK, CurOK, EventInv,
         NoStaleEvent, OwnInv, OneThreadPerSocket, Connected
<1>2. \A u \in Threads \ {t} : fd \notin keys[u]
  BY <1>1 DEF Inv, OwnInv, OneThreadPerSocket
<1>3. /\ sock' = [sock EXCEPT ![fd] = NoConn]
      /\ interest' = [u \in Threads |-> [interest[u] EXCEPT ![fd] = "none"]]
      /\ st' = [d \in Conns |-> IF d = c THEN "closed" ELSE st[d]]
      /\ owner' = [d \in Conns |-> IF d = c THEN NoThread ELSE owner[d]]
      /\ keys' = [keys EXCEPT ![t] = @ \ {fd}]
      /\ UNCHANGED <<ret, evs>>
  BY DEF DestroyAndClose, CloseFd, destoryBuffer
<1>4. /\ sock \in [Fds -> Conns \cup {NoConn}]
      /\ interest \in [Threads -> [Fds -> {"none", "IN", "OUT"}]]
      /\ keys \in [Threads -> SUBSET Fds]
      /\ cur \in [Threads -> Fds \cup {NoFd}]
      /\ pc \in [Threads -> HandlerPc \cup ServerPc]
  BY DEF Inv, TypeInv, TypeOK, IOTypeOK
<1>5. \A f \in Fds : f # fd /\ Connected(f) => sock'[f] = sock[f] /\ sock[f] # c /\ sock[f] \in Conns
  BY <1>1, <1>3, <1>4 DEF Inv, OwnInv, Connected
<1>6. /\ sock'[fd] = NoConn
      /\ \A f \in Fds : f # fd => sock'[f] = sock[f]
  BY <1>1, <1>3, <1>4
<1>7. /\ \A f, g \in Fds : Connected(f)' /\ sock'[f] = sock'[g] => f = g
      /\ \A f \in Fds : Connected(f)' => st'[sock'[f]] = "open"
  <2>1. \A f, g \in Fds : Connected(f)' /\ sock'[f] = sock'[g] => f = g
    BY <1>6 DEF Inv, OwnInv, Connected
  <2>2. \A f \in Fds : Connected(f)' => st'[sock'[f]] = "open"
    BY <1>3, <1>5, <1>6 DEF Inv, OwnInv, Connected
  <2> QED BY <2>1, <2>2
<1>8. OneThreadPerSocket'
  <2>1. ASSUME NEW f \in Fds, NEW u \in Threads
        PROVE  f \in keys'[u] <=> (Connected(f)' /\ owner'[sock'[f]] = u)
    <3>1. CASE f = fd
      <4>1. f \notin keys'[u]
        BY <1>2, <1>3, <1>4, <3>1
      <4> QED BY <1>6, <3>1, <4>1 DEF Connected
    <3>2. CASE f # fd
      <4>1. f \in keys'[u] <=> f \in keys[u]
        BY <1>3, <1>4, <3>2
      <4>2. Connected(f) => owner'[sock'[f]] = owner[sock[f]]
        BY <1>3, <1>5, <3>2
      <4> QED BY <1>6, <3>2, <4>1, <4>2 DEF Inv, OwnInv, OneThreadPerSocket, Connected
    <3> QED BY <3>1, <3>2
  <2>2. ASSUME NEW f \in Fds, NEW u \in Threads, interest'[u][f] # "none"
        PROVE  f \in keys'[u]
    <3>1. f # fd /\ interest[u][f] # "none"
      BY <1>1, <1>3, <1>4, <2>2
    <3> QED BY <1>3, <1>4, <3>1 DEF Inv, OwnInv, OneThreadPerSocket
  <2>3. ASSUME NEW d \in Conns, st'[d] = "open"
        PROVE  \E f \in Fds : sock'[f] = d
    <3>1. d # c /\ st[d] = "open"
      BY <1>3, <2>3
    <3>2. PICK f \in Fds : sock[f] = d
      BY <3>1 DEF Inv, OwnInv, OneThreadPerSocket
    <3> QED BY <1>3, <1>4, <3>1, <3>2
  <2> QED BY <2>1, <2>2, <2>3 DEF OneThreadPerSocket
<1>9. /\ pc' = [pc EXCEPT ![t] = NextAfter(t)]
      /\ NextAfter(t) \in {"loop", "lock", "events", "accept"}
      /\ cur' = [cur EXCEPT ![t] = NoFd]
  BY TypeInvParts, FinishType DEF DestroyAndClose, Inv, ServerRets
<1>10. NoStaleEvent'
  <2>1. ASSUME NEW u \in Threads, NEW e \in evs[u], e[1] \in Fds
        PROVE  e[1] \in keys'[u] /\ interest'[u][e[1]] = e[2]
    <3>1. e[1] \in keys[u] /\ interest[u][e[1]] = e[2]
      BY <2>1 DEF Inv, EventInv, NoStaleEvent
    <3>2. e[1] # fd
      BY <1>2, <3>1 DEF DestroyAndClose, HandlerPc, Inv, EventInv
    <3> QED BY <1>3, <1>4, <2>1, <3>1, <3>2
  <2>2. ASSUME NEW u \in Threads, pc'[u] \in HandlerPc
        PROVE  cur'[u] \in keys'[u]
    <3>1. u # t
      BY <1>4, <1>9, <2>2 DEF HandlerPc
    <3> QED BY <1>3, <1>4, <1>9, <2>2, <3>1 DEF Inv, EventInv, NoStaleEvent
  <2> QED BY <1>3, <2>1, <2>2 DEF NoStaleEvent
<1>11. \/ pc'[t] = "loop" /\ evs[t] = {}
       \/ pc'[t] = "lock" /\ ret[t] = "lock"
       \/ pc'[t] = "events" /\ ret[t] = "events"
       \/ pc'[t] = "accept"
  BY <1>4, <1>9 DEF NextAfter, Inv, TypeInv, TypeOK, IOTypeOK
<1>12. pc[t] = "destroy"
  BY DEF DestroyAndClose
<1>13. EventInv'
  BY <1>3, <1>4, <1>9, <1>10, <1>11, <1>12 DEF Inv, EventInv, HandlerPc
<1> QED BY <1>7, <1>8, <1>13 DEF OwnInv

(* The steps of the base class.                                            *)
LEMMA IOStepInv ==
    ASSUME AppCloses = {}, Inv, NEW t \in Threads, IOStep(t)
    PROVE  OwnInv' /\ EventInv'
<1> USE DEF kernelVars, bufferVars
<1>t. /\ pc \in [Threads -> HandlerPc \cup ServerPc]
      /\ ret \in [Threads -> {"lock", "events", "accept"}]
      /\ evs \in [Threads -> SUBSET Event]
      /\ cur \in [Threads -> Fds \cup {NoFd}]
      /\ interest \in [Threads -> [Fds -> {"none", "IN", "OUT"}]]
      /\ keys \in [Threads -> SUBSET Fds]
  BY DEF Inv, TypeInv, TypeOK, IOTypeOK
<1>k. ASSUME Keeps(t), UNCHANGED <<ret, evs>>, pc[t] \in HandlerPc,
             \/ UNCHANGED cur /\ \E l \in HandlerPc : Goto(t, l)
             \/ Finish(t)
      PROVE  OwnInv' /\ EventInv'
  <2>1. /\ \A u \in Threads \ {t} : pc'[u] = pc[u] /\ cur'[u] = cur[u]
        /\ \/ pc'[t] \in HandlerPc /\ cur'[t] = cur[t]
           \/ pc'[t] = NextAfter(t)
    BY <1>t, <1>k DEF Goto, Finish
  <2> QED BY <1>k, <2>1, KeepsOwnInv, KeepsEventInv
<1>1. CASE OnEpollLoop(t)
  <2>1. Keeps(t) /\ pc[t] = "loop" /\ UNCHANGED <<evs, keys, interest>>
    BY <1>1 DEF OnEpollLoop, Keeps
  <2>2. ret' = [ret EXCEPT ![t] = "lock"]
    BY <1>1 DEF OnEpollLoop
  <2>3. \/ pc' = [pc EXCEPT ![t] = "lock"] /\ UNCHANGED cur
        \/ \E fd \in keys[t] : pc' = [pc EXCEPT ![t] = "write"] /\ cur' = [cur EXCEPT ![t] = fd]
    BY <1>1 DEF OnEpollLoop, AppendAndWrite, Goto
  <2>4. evs[t] = {}
    BY <2>1 DEF Inv, EventInv
  <2>5. EventInv'
    BY <1>t, <2>1, <2>2, <2>3, <2>4 DEF Inv, EventInv, NoStaleEvent, HandlerPc
  <2> QED BY <2>1, <2>5, KeepsOwnInv
<1>2. CASE ProcessEvent(t)
  <2>1. Keeps(t) /\ pc[t] = "events" /\ UNCHANGED <<ret, keys, interest>>
    BY <1>2 DEF ProcessEvent, Keeps
  <2>2. PICK e \in evs[t] : /\ e[1] \in Fds
                            /\ evs' = [evs EXCEPT ![t] = @ \ {e}]
                            /\ cur' = [cur EXCEPT ![t] = e[1]]
                            /\ \/ pc' = [pc EXCEPT ![t] = "read"]
                               \/ pc' = [pc EXCEPT ![t] = "flush"]
    <3>1. \A e \in evs[t] : e[1] \in Fds => e[1] \in keys[t]
      BY DEF Inv, EventInv, NoStaleEvent
    <3> QED BY <1>2, <3>1 DEF ProcessEvent, DropEvent, Goto
  <2>3. e[1] \in keys[t]
    BY <2>2 DEF Inv, EventInv, NoStaleEvent
  <2>4. \A d \in evs[t] \ {e} : d[1] # e[1]
    <3>1. ASSUME NEW d \in evs[t], d[1] = e[1]
          PROVE  d = e
      <4>1. d \in Event /\ e \in Event
        BY <1>t
      <4>2. d[2] = e[2]
        BY <2>2, <3>1 DEF Inv, EventInv, NoStaleEvent
      <4> QED BY <3>1, <4>1, <4>2 DEF Event
    <3> QED BY <3>1
  <2>5. evs'[t] = evs[t] \ {e} /\ \A u \in Threads \ {t} : evs'[u] = evs[u]
    BY <1>t, <2>2
  <2>6. ret[t] = "events"
    BY <2>1 DEF Inv, EventInv
  <2>7. NoStaleEvent'
    BY <1>t, <2>1, <2>2, <2>3, <2>5 DEF Inv, EventInv, NoStaleEvent
  <2>8. EventInv'
    BY <1>t, <2>1, <2>2, <2>4, <2>5, <2>6, <2>7 DEF Inv, EventInv, HandlerPc
  <2> QED BY <2>1, <2>8, KeepsOwnInv
<1>3. CASE OnReadable(t)
  BY <1>3, <1>k DEF OnReadable, Keeps, HandlerPc
<1>4. CASE OnMessage(t)
  BY <1>4, <1>k DEF OnMessage, AppendAndWrite, Keeps, HandlerPc
<1>5. CASE WriteFails(t)
  BY <1>5, <1>k DEF WriteFails, Keeps, HandlerPc
<1>6. CASE WriteCompletes(t)
  BY <1>6, <1>k DEF WriteCompletes, AppMayClose, Keeps, HandlerPc
<1>7. CASE WriteBlocks(t)
  <2>1. pc[t] \in HandlerPc
    BY <1>7 DEF WriteBlocks, HandlerPc
  <2>2. \E v : interest' = [interest EXCEPT ![t][cur[t]] = v] \/ UNCHANGED interest
    BY <1>7 DEF WriteBlocks
  <2>3. Keeps(t)
    BY <1>7, <1>t, <2>1, <2>2 DEF WriteBlocks, Keeps
  <2> QED BY <1>7, <1>k, <2>1, <2>3 DEF WriteBlocks, HandlerPc
<1>8. CASE Rearm(t)
  <2>1. pc[t] \in HandlerPc
    BY <1>8 DEF Rearm, HandlerPc
  <2>2. interest' = [interest EXCEPT ![t][cur[t]] = "IN"] \/ UNCHANGED interest
    BY <1>8 DEF Rearm
  <2>3. Keeps(t)
    BY <1>8, <1>t, <2>1, <2>2 DEF Rearm, Keeps
  <2> QED BY <1>8, <1>k, <2>1, <2>3 DEF Rearm, HandlerPc
<1>9. CASE OnPassivelyClosed(t)
  BY <1>9, <1>k DEF OnPassivelyClosed, AppMayClose, Keeps, HandlerPc
<1>10. CASE DestroyAndClose(t)
  BY <1>10, DestroyAndCloseInv
<1> QED BY <1>1, <1>2, <1>3, <1>4, <1>5, <1>6, <1>7, <1>8, <1>9, <1>10 DEF IOStep

(* accept4 under a free number: a new owner for a new connection.          *)
LEMMA AcceptInv ==
    ASSUME Inv, NEW t \in Threads, Accept(t)
    PROVE  OwnInv' /\ EventInv'
<1> PICK c \in Pending, fd \in FreeFds :
        /\ sock' = [sock EXCEPT ![fd] = c]
        /\ st' = [st EXCEPT ![c] = "open"]
        /\ owner' = [owner EXCEPT ![c] = t]
        /\ cur' = [cur EXCEPT ![t] = fd]
        /\ createBuffer(t, fd)
  BY DEF Accept
<1>1. /\ c \in Conns /\ st[c] = "pending"
      /\ fd \in Fds /\ sock[fd] = NoConn
  BY DEF Pending, FreeFds, Connected
<1>2. /\ keys' = [keys EXCEPT ![t] = @ \cup {fd}]
      /\ pc' = [pc EXCEPT ![t] = "register"]
      /\ pc[t] = "accept"
      /\ UNCHANGED <<interest, ret, evs>>
  BY DEF Accept, createBuffer, Goto
<1>3. /\ sock \in [Fds -> Conns \cup {NoConn}]
      /\ st \in [Conns -> {"idle", "pending", "open", "closed"}]
      /\ owner \in [Conns -> Threads \cup {NoThread}]
      /\ keys \in [Threads -> SUBSET Fds]
      /\ cur \in [Threads -> Fds \cup {NoFd}]
      /\ pc \in [Threads -> HandlerPc \cup ServerPc]
  BY DEF Inv, TypeInv, TypeOK, IOTypeOK
<1>4. \A f \in Fds : sock[f] # c
  BY <1>1, SentinelAssumption DEF Inv, OwnInv, Connected
<1>5. \A u \in Threads : fd \notin keys[u]
  BY <1>1 DEF Inv, OwnInv, OneThreadPerSocket, Connected
<1>6. /\ sock'[fd] = c
      /\ \A f \in Fds : f # fd => sock'[f] = sock[f]
      /\ c # NoConn
  BY <1>1, <1>3, SentinelAssumption
<1>7. /\ \A f, g \in Fds : Connected(f)' /\ sock'[f] = sock'[g] => f = g
      /\ \A f \in Fds : Connected(f)' => st'[sock'[f]] = "open"
  <2>1. \A f, g \in Fds : Connected(f)' /\ sock'[f] = sock'[g] => f = g
    BY <1>4, <1>6 DEF Inv, OwnInv, Connected
  <2>2. \A f \in Fds : Connected(f)' => st'[sock'[f]] = "open"
    BY <1>1, <1>3, <1>6 DEF Inv, OwnInv, Connected
  <2> QED BY <2>1, <2>2
<1>8. OneThreadPerSocket'
  <2>1. ASSUME NEW f \in Fds, NEW u \in Threads
        PROVE  f \in keys'[u] <=> (Connected(f)' /\ owner'[sock'[f]] = u)
    <3>1. CASE f = fd
      <4>1. owner'[c] = t
        BY <1>1, <1>3
      <4>2. fd \in keys'[u] <=> u = t
        BY <1>2, <1>3, <1>5
      <4> QED BY <1>6, <3>1, <4>1, <4>2 DEF Connected
    <3>2. CASE f # fd
      <4>1. f \in keys'[u] <=> f \in keys[u]
        BY <1>2, <1>3, <3>2
      <4>2. Connected(f) => owner'[sock[f]] = owner[sock[f]]
        BY <1>3, <1>4 DEF Connected
      <4> QED BY <1>6, <3>2, <4>1, <4>2 DEF Inv, OwnInv, OneThreadPerSocket, Connected
    <3> QED BY <3>1, <3>2
  <2>2. \A f \in Fds, u \in Threads : interest'[u][f] # "none" => f \in keys'[u]
    BY <1>2, <1>3 DEF Inv, OwnInv, OneThreadPerSocket
  <2>3. ASSUME NEW d \in Conns, st'[d] = "open"
        PROVE  \E f \in Fds : sock'[f] = d
    <3>1. CASE d = c
      BY <1>1, <1>6, <3>1
    <3>2. CASE d # c
      <4>1. st[d] = "open"
        BY <1>3, <2>3, <3>2
      <4>2. PICK f \in Fds : sock[f] = d
        BY <4>1 DEF Inv, OwnInv, OneThreadPerSocket
      <4>3. f # fd
        BY <1>1, <4>2, SentinelAssumption
      <4> QED BY <1>6, <4>2, <4>3
    <3> QED BY <3>1, <3>2
  <2> QED BY <2>1, <2>2, <2>3 DEF OneThreadPerSocket
<1>9. ret[t] = "accept"
  BY <1>2 DEF Inv, ListenInv
<1>10. \A e \in evs[t] : e[1] # fd
  BY <1>1, <1>5 DEF Inv, EventInv, NoStaleEvent
<1>11. NoStaleEvent'
  <2>1. \A u \in Threads : keys[u] \subseteq keys'[u]
    BY <1>2, <1>3
  <2>2. fd \in keys'[t]
    BY <1>2, <1>3
  <2>3. \A u \in Threads : pc'[u] \in HandlerPc => cur'[u] \in keys'[u]
    BY <1>2, <1>3, <2>1, <2>2 DEF Inv, EventInv, NoStaleEvent
  <2> QED BY <1>2, <2>1, <2>3 DEF Inv, EventInv, NoStaleEvent
<1>12. EventInv'
  BY <1>2, <1>3, <1>9, <1>10, <1>11 DEF Inv, EventInv, HandlerPc
<1> QED BY <1>7, <1>8, <1>12 DEF OwnInv

(* epoll_wait returns each descriptor once, with the event it is           *)
(* registered for, and only descriptors that are registered.               *)
LEMMA EpollWaitInv ==
    ASSUME Inv, NEW t \in Threads, EpollWait(t)
    PROVE  EventInv'
<1> DEFINE ready == ReadyEvents(t) \cup ListenEvents(t)
<1>1. \A e \in ready : e[1] \in Fds => interest[t][e[1]] = e[2] /\ e[2] # "none"
  BY SentinelAssumption DEF ReadyEvents, ListenEvents
<1>2. \A e \in ready : e[1] \in Fds => e[1] \in keys[t]
  BY <1>1 DEF Inv, OwnInv, OneThreadPerSocket
<1>3. /\ evs' = [evs EXCEPT ![t] = ready]
      /\ ret' = [ret EXCEPT ![t] = "events"]
      /\ \/ pc' = [pc EXCEPT ![t] = "loop"] /\ ready = {}
         \/ pc' = [pc EXCEPT ![t] = "events"]
      /\ UNCHANGED <<interest, keys, cur>>
  BY DEF EpollWait, FetchEvents, Goto, kernelVars, bufferVars
<1>4. /\ pc \in [Threads -> HandlerPc \cup ServerPc]
      /\ ret \in [Threads -> {"lock", "events", "accept"}]
      /\ evs \in [Threads -> SUBSET Event]
  BY DEF Inv, TypeInv, TypeOK, IOTypeOK
<1>5. evs'[t] = ready /\ \A u \in Threads \ {t} : evs'[u] = evs[u]
  BY <1>3, <1>4
<1> HIDE DEF ready
<1>6. NoStaleEvent'
  BY <1>1, <1>2, <1>3, <1>4, <1>5 DEF Inv, EventInv, NoStaleEvent, HandlerPc
<1> QED BY <1>3, <1>4, <1>5, <1>6 DEF Inv, EventInv, HandlerPc

(* The steps of the server.                                                *)
LEMMA ServerStepInv ==
    ASSUME AppCloses = {}, Inv, NEW t \in Threads, ServerStep(t)
    PROVE  OwnInv' /\ EventInv'
<1> USE DEF kernelVars, bufferVars, serverVars
<1>t. /\ pc \in [Threads -> HandlerPc \cup ServerPc]
      /\ ret \in [Threads -> {"lock", "events", "accept"}]
      /\ evs \in [Threads -> SUBSET Event]
      /\ cur \in [Threads -> Fds \cup {NoFd}]
      /\ interest \in [Threads -> [Fds -> {"none", "IN", "OUT"}]]
      /\ keys \in [Threads -> SUBSET Fds]
  BY DEF Inv, TypeInv, TypeOK, IOTypeOK
<1>k. ASSUME UNCHANGED <<sock, st, owner, keys, interest>>
      PROVE  OwnInv'
  BY <1>k DEF Inv, OwnInv, OneThreadPerSocket, Connected
<1>1. CASE IOStep(t) /\ UNCHANGED serverVars
  BY <1>1, IOStepInv
<1>2. CASE LockListen(t)
  <2>1. EventInv'
    BY <1>2, <1>t DEF LockListen, CountUp, Goto, Inv, EventInv, NoStaleEvent, HandlerPc
  <2> QED BY <1>2, <1>k, <2>1 DEF LockListen, CountUp
<1>3. CASE TryLockFails(t)
  <2>1. EventInv'
    BY <1>3, <1>t DEF TryLockFails, Goto, Inv, EventInv, NoStaleEvent, HandlerPc
  <2> QED BY <1>3, <1>k, <2>1 DEF TryLockFails
<1>4. CASE RegisterListen(t)
  <2>1. EventInv'
    <3>1. pc[t] = "listen" /\ UNCHANGED <<interest, keys, ret, cur, evs>>
      BY <1>4 DEF RegisterListen
    <3>2. CASE pc' = [pc EXCEPT ![t] = "wait"]
      BY <1>t, <3>1, <3>2 DEF Inv, EventInv, NoStaleEvent, HandlerPc
    <3>3. CASE Terminate
      BY <3>1, <3>3 DEF Terminate, Inv, EventInv, NoStaleEvent, HandlerPc
    <3> QED BY <1>4, <3>2, <3>3 DEF RegisterListen, Goto
  <2> QED BY <1>4, <1>k, <2>1 DEF RegisterListen
<1>5. CASE EpollWait(t)
  BY <1>5, <1>k, EpollWaitInv DEF EpollWait, FetchEvents
<1>6. CASE ListenEvent(t)
  <2>1. EventInv'
    BY <1>6, <1>t DEF ListenEvent, DropEvent, Goto, Inv, EventInv, NoStaleEvent, HandlerPc
  <2> QED BY <1>6, <1>k, <2>1 DEF ListenEvent
<1>7. CASE Accept(t)
  BY <1>7, AcceptInv
<1>8. CASE AcceptFatal(t)
  <2>1. EventInv'
    BY <1>8, <1>t DEF AcceptFatal, Terminate, Inv, EventInv, NoStaleEvent, HandlerPc
  <2> QED BY <1>8, <1>k, <2>1 DEF AcceptFatal
<1>9. CASE RemoveListen(t)
  <2>1. EventInv'
    BY <1>9, <1>t DEF RemoveListen, Goto, Inv, EventInv, NoStaleEvent, HandlerPc
  <2> QED BY <1>9, <1>k, <2>1 DEF RemoveListen
<1>10. CASE UnlockListen(t)
  <2>1. EventInv'
    BY <1>10, <1>t DEF UnlockListen, Goto, Inv, EventInv, NoStaleEvent, HandlerPc
  <2> QED BY <1>10, <1>k, <2>1 DEF UnlockListen
<1>11. CASE Register(t)
  <2>1. pc[t] \in HandlerPc
    BY <1>11 DEF Register, HandlerPc
  <2>2. interest' = [interest EXCEPT ![t][cur[t]] = "IN"] \/ UNCHANGED interest
    BY <1>11 DEF Register
  <2>3. Keeps(t)
    BY <1>11, <1>t, <2>1, <2>2 DEF Register, Keeps
  <2>4. /\ \A u \in Threads \ {t} : pc'[u] = pc[u] /\ cur'[u] = cur[u]
        /\ pc'[t] \in HandlerPc /\ cur'[t] = cur[t]
        /\ UNCHANGED <<ret, evs>>
    BY <1>11, <1>t DEF Register, Goto, HandlerPc
  <2> QED BY <2>1, <2>3, <2>4, KeepsOwnInv, KeepsEventInv
<1>12. CASE OnConnect(t)
  <2>1. pc[t] \in HandlerPc /\ Keeps(t) /\ UNCHANGED <<ret, evs>>
    BY <1>12 DEF OnConnect, Keeps, HandlerPc
  <2>2. /\ \A u \in Threads \ {t} : pc'[u] = pc[u] /\ cur'[u] = cur[u]
        /\ \/ pc'[t] \in HandlerPc /\ cur'[t] = cur[t]
           \/ pc'[t] = NextAfter(t)
    BY <1>12, <1>t DEF OnConnect, AppendAndWrite, Finish, Goto, HandlerPc
  <2> QED BY <2>1, <2>2, KeepsOwnInv, KeepsEventInv
<1> QED BY <1>1, <1>2, <1>3, <1>4, <1>5, <1>6, <1>7, <1>8, <1>9, <1>10, <1>11, <1>12
        DEF ServerStep

(* The clients' steps: a client that connects is not in the table.         *)
LEMMA ClientStepInv ==
    ASSUME Inv, NEW c \in Conns, ClientStep(c)
    PROVE  OwnInv' /\ EventInv'
<1> USE DEF kernelVars, bufferVars, controlVars, serverVars
<1>1. /\ UNCHANGED <<sock, owner, keys, interest, pc, ret, cur, evs>>
      /\ \/ UNCHANGED st
         \/ st[c] = "idle" /\ st' = [st EXCEPT ![c] = "pending"]
  BY DEF ClientStep, PeerConnects, PeerStep, PeerSends, PeerReads, PeerCloses, PeerResets
<1>2. st \in [Conns -> {"idle", "pending", "open", "closed"}]
  BY DEF Inv, TypeInv, TypeOK, IOTypeOK
<1>3. sock \in [Fds -> Conns \cup {NoConn}]
  BY DEF Inv, TypeInv, TypeOK, IOTypeOK
<1>4. \A d \in Conns : st'[d] = "open" <=> st[d] = "open"
  BY <1>1, <1>2
<1>5. OwnInv'
  BY <1>1, <1>3, <1>4 DEF Inv, OwnInv, OneThreadPerSocket, Connected
<1>6. EventInv'
  BY <1>1 DEF Inv, EventInv, NoStaleEvent
<1> QED BY <1>5, <1>6

(* All steps preserve the invariant.                                       *)
LEMMA InvNext ==
    ASSUME AppCloses = {}, Inv, [Next]_vars
    PROVE  Inv'
<1>1. TypeInv' /\ ListenInv'
  BY NextType, ListenInvNext DEF Inv
<1>2. CASE UNCHANGED vars
  BY <1>1, <1>2 DEF vars, ioVars, kernelVars, bufferVars, controlVars, Inv, OwnInv, EventInv,
                    OneThreadPerSocket, NoStaleEvent, Connected
<1> QED BY <1>1, <1>2, ServerStepInv, ClientStepInv DEF Next, Terminated, Inv

(* A server without connections is in a state of the invariant.            *)
LEMMA InvInit ==
    ASSUME Init
    PROVE  Inv
<1>1. TypeInv
  BY InitType
<1>2. ListenInv
  BY DEF Init, IOInit, ListenInv
<1>3. OwnInv
  BY DEF Init, IOInit, OwnInv, OneThreadPerSocket, Connected
<1>4. EventInv
  BY DEF Init, IOInit, EventInv, NoStaleEvent, HandlerPc
<1> QED BY <1>1, <1>2, <1>3, <1>4 DEF Inv

(* The invariant holds in every state, when the callbacks do not close.    *)
LEMMA SpecInv ==
    ASSUME AppCloses = {}
    PROVE  Spec => []Inv
BY InvInit, InvNext, PTL DEF Spec

(* README.md:5 "One connected socket handled only by one thread", for any  *)
(* number of threads, connections and descriptors.                         *)
THEOREM OneThread ==
    ASSUME AppCloses = {}
    PROVE  Spec => []OneThreadPerSocket
<1>1. Inv => OneThreadPerSocket
  BY DEF Inv, OwnInv
<1> QED BY <1>1, SpecInv, PTL

(* No handler ever runs for a descriptor that was closed, re-used or re-   *)
(* registered since epoll_wait reported it, or that has no buffers.        *)
THEOREM NoStaleEvents ==
    ASSUME AppCloses = {}
    PROVE  Spec => []NoStaleEvent
<1>1. Inv => NoStaleEvent
  BY DEF Inv, EventInv
<1> QED BY <1>1, SpecInv, PTL

(* Only onClean's last step closes, for a connection the thread owns.      *)
LEMMA ClosesOwn ==
    ASSUME AppCloses = {}, Inv, [Next]_vars, NEW c \in Conns,
           st[c] = "open", st'[c] = "closed"
    PROVE  pc'[owner[c]] # pc[owner[c]]
<1> USE DEF kernelVars, bufferVars, controlVars, serverVars
<1>t. st \in [Conns -> {"idle", "pending", "open", "closed"}]
  BY DEF Inv, TypeInv, TypeOK, IOTypeOK
<1>1. st' # st
  OBVIOUS
<1>2. PICK t \in Threads : ServerStep(t)
  <2>1. ~ UNCHANGED vars
    BY <1>1 DEF vars, ioVars
  <2>2. \A d \in Conns : ~ ClientStep(d)
    BY <1>t DEF ClientStep, PeerConnects, PeerStep, PeerSends, PeerReads, PeerCloses, PeerResets
  <2> QED BY <2>1, <2>2 DEF Next, Terminated
<1>3. ~ Accept(t)
  BY <1>t DEF Accept
<1>4. IOStep(t)
  BY <1>1, <1>2, <1>3 DEF ServerStep, LockListen, TryLockFails, RegisterListen, EpollWait, FetchEvents,
         ListenEvent, AcceptFatal, RemoveListen, UnlockListen, Register, OnConnect
<1>5. DestroyAndClose(t)
  BY <1>1, <1>4 DEF IOStep, OnEpollLoop, ProcessEvent, OnReadable, OnMessage, WriteFails,
                    WriteCompletes, WriteBlocks, Rearm, OnPassivelyClosed, AppMayClose
<1>6. c = sock[cur[t]] /\ cur[t] \in keys[t] /\ cur[t] \in Fds
  BY <1>5, <1>t DEF DestroyAndClose, CloseFd, HandlerPc, Inv, TypeInv, CurOK, EventInv, NoStaleEvent
<1>7. owner[c] = t
  BY <1>6 DEF Inv, OwnInv, OneThreadPerSocket
<1>8. pc[t] = "destroy" /\ pc'[t] # "destroy"
  <2>1. pc' = [pc EXCEPT ![t] = NextAfter(t)] /\ NextAfter(t) \in {"loop", "lock", "events", "accept"}
    BY <1>5, TypeInvParts, FinishType DEF DestroyAndClose, Inv, ServerRets
  <2>2. pc \in [Threads -> HandlerPc \cup ServerPc]
    BY DEF Inv, TypeInv, TypeOK, IOTypeOK
  <2> QED BY <1>5, <2>1, <2>2 DEF DestroyAndClose
<1> QED BY <1>7, <1>8

(* Whoever closes a connection is the thread that accepted it: no thread   *)
(* ever closes a descriptor number that has become another thread's.       *)
THEOREM OwnerCloses ==
    ASSUME AppCloses = {}
    PROVE  Spec => OnlyOwnerCloses
<1>1. Inv /\ [Next]_vars =>
        [\A c \in Conns :
            st[c] = "open" /\ st'[c] = "closed" => pc'[owner[c]] # pc[owner[c]]]_vars
  BY ClosesOwn
<1> QED BY <1>1, SpecInv, PTL DEF Spec, OnlyOwnerCloses
-----------------------------------------------------------------------------
(* Buffers that pass through the pool. *)

(* The invariant behind LiveBytesApart: a thread holds bytes only of       *)
(* connections that are or were its own.                                   *)
BytesInv ==
    /\ LiveBytesApart
    /\ \A t \in Threads, c \in Conns : Holds(t, c) =>
          /\ st[c] \in {"open", "closed"}
          /\ st[c] = "open" => owner[c] = t

(* A step that keeps who has which descriptor, changes the two buffers of  *)
(* one descriptor of the thread only, and adds nothing to them but bytes   *)
(* of its own connection.                                                  *)
LEMMA KeepsBytes ==
    ASSUME Inv, BytesInv, NEW t \in Threads, NEW fd \in keys[t],
           UNCHANGED <<sock, st, owner, keys, buffer_pool>>,
           \A u \in Threads : \A f \in Fds : u # t \/ f # fd =>
               rbh'[u][f] = rbh[u][f] /\ wbh'[u][f] = wbh[u][f],
           rbh'[t][fd] \subseteq rbh[t][fd] \cup {sock[fd]},
           wbh'[t][fd] \subseteq wbh[t][fd] \cup {sock[fd]}
    PROVE  BytesInv'
<1>t. \A u \in Threads : keys[u] \subseteq Fds
  BY DEF Inv, TypeInv, TypeOK, IOTypeOK
<1>1. /\ fd \in Fds /\ sock[fd] \in Conns
      /\ st[sock[fd]] = "open" /\ owner[sock[fd]] = t
  BY <1>t DEF Inv, OwnInv, OneThreadPerSocket, Connected, TypeInv, TypeOK, IOTypeOK
<1>2. \A u \in Threads, c \in Conns :
          Holds(u, c)' => Holds(u, c) \/ (u = t /\ c = sock[fd])
  BY <1>t DEF Holds
<1>3. \A u \in Threads, c \in Conns : Holds(u, c)' =>
          /\ st[c] \in {"open", "closed"}
          /\ st[c] = "open" => owner[c] = u
  BY <1>1, <1>2 DEF BytesInv
<1>4. \A u, v \in Threads, c \in Conns : Holds(u, c)' /\ Holds(v, c)' => u = v
  <2> SUFFICES ASSUME NEW u \in Threads, NEW v \in Threads, NEW c \in Conns,
                      Holds(u, c)', Holds(v, c)'
               PROVE  u = v
    OBVIOUS
  <2>1. CASE c = sock[fd]
    BY <1>1, <1>3, <2>1
  <2>2. CASE c # sock[fd]
    BY <1>2, <2>2 DEF BytesInv, LiveBytesApart
  <2> QED BY <2>1, <2>2
<1>5. ASSUME NEW u \in Threads, NEW f \in keys[u]
      PROVE  rbh'[u][f] \cup wbh'[u][f] \subseteq {sock[f]} \cup Closed
  <2>1. f \in Fds /\ rbh[u][f] \cup wbh[u][f] \subseteq {sock[f]} \cup Closed
    BY <1>t DEF BytesInv, LiveBytesApart
  <2> QED BY <2>1
<1>6. Closed' = Closed
  BY DEF Closed
<1>7. \A u \in Threads : \A i \in DOMAIN buffer_pool[u] : buffer_pool[u][i] \subseteq Closed
  BY DEF BytesInv, LiveBytesApart
<1>8. LiveBytesApart'
  BY <1>4, <1>5, <1>6, <1>7 DEF LiveBytesApart
<1> QED BY <1>3, <1>8 DEF BytesInv

(* A step that touches neither buffers nor who has which connection.       *)
LEMMA SameBytes ==
    ASSUME BytesInv, UNCHANGED <<sock, st, owner, bufferVars>>
    PROVE  BytesInv'
BY DEF bufferVars, BytesInv, LiveBytesApart, Holds, Closed

(* destoryBuffer puts the two buffers into the pool as they are; the       *)
(* connection they belonged to is closed in the same step.                 *)
LEMMA DestroyAndCloseBytes ==
    ASSUME Inv, BytesInv, NEW t \in Threads, DestroyAndClose(t)
    PROVE  BytesInv'
<1> DEFINE fd == cur[t]
           c0 == sock[fd]
           both == <<rbh[t][fd], wbh[t][fd]>>
<1>t. /\ keys \in [Threads -> SUBSET Fds]
      /\ sock \in [Fds -> Conns \cup {NoConn}]
      /\ st \in [Conns -> {"idle", "pending", "open", "closed"}]
      /\ rbh \in [Threads -> [Fds -> Content]]
      /\ wbh \in [Threads -> [Fds -> Content]]
      /\ buffer_pool \in [Threads -> Seq(Content)]
  BY DEF Inv, TypeInv, TypeOK, IOTypeOK
<1>1. fd \in keys[t] /\ fd \in Fds
  BY <1>t DEF DestroyAndClose, HandlerPc, Inv, EventInv, NoStaleEvent
<1>2. \A u \in Threads \ {t} : fd \notin keys[u]
  BY <1>1 DEF Inv, OwnInv, OneThreadPerSocket
<1>3. c0 \in Conns
  BY <1>1, <1>t DEF Inv, OwnInv, OneThreadPerSocket, Connected
<1>4. /\ sock' = [sock EXCEPT ![fd] = NoConn]
      /\ st' = [c \in Conns |-> IF c = c0 THEN "closed" ELSE st[c]]
      /\ owner' = [c \in Conns |-> IF c = c0 THEN NoThread ELSE owner[c]]
      /\ keys' = [keys EXCEPT ![t] = @ \ {fd}]
      /\ rbh' = [rbh EXCEPT ![t][fd] = {}] /\ wbh' = [wbh EXCEPT ![t][fd] = {}]
      /\ buffer_pool' = [buffer_pool EXCEPT ![t] = @ \o both]
  BY DEF DestroyAndClose, CloseFd, destoryBuffer
<1>5. Closed' = Closed \cup {c0}
  BY <1>t, <1>3, <1>4 DEF Closed
<1>6. \A u \in Threads : \A f \in keys'[u] :
          /\ f \in keys[u] /\ f \in Fds /\ sock'[f] = sock[f]
          /\ rbh'[u][f] = rbh[u][f] /\ wbh'[u][f] = wbh[u][f]
  BY <1>t, <1>1, <1>2, <1>4
<1>7. /\ \A u \in Threads \ {t} : buffer_pool'[u] = buffer_pool[u]
      /\ \A i \in DOMAIN buffer_pool'[t] :
            buffer_pool'[t][i] \in {buffer_pool[t][j] : j \in DOMAIN buffer_pool[t]}
                                     \cup {rbh[t][fd], wbh[t][fd]}
  <2>1. buffer_pool'[t] = buffer_pool[t] \o both
    BY <1>t, <1>4
  <2>2. buffer_pool[t] \in Seq(Content) /\ rbh[t][fd] \in Content /\ wbh[t][fd] \in Content
    BY <1>t, <1>1
  <2> QED BY <1>t, <1>4, <2>1, <2>2, PushElements
<1>8. \A u \in Threads, c \in Conns : Holds(u, c)' => Holds(u, c)
  BY <1>1, <1>6, <1>7 DEF Holds
<1>9. \A u \in Threads : \A i \in DOMAIN buffer_pool'[u] : buffer_pool'[u][i] \subseteq Closed'
  <2>1. rbh[t][fd] \subseteq Closed' /\ wbh[t][fd] \subseteq Closed'
    BY <1>1, <1>5 DEF BytesInv, LiveBytesApart
  <2>2. \A u \in Threads : \A i \in DOMAIN buffer_pool[u] : buffer_pool[u][i] \subseteq Closed'
    BY <1>5 DEF BytesInv, LiveBytesApart
  <2> QED BY <1>7, <2>1, <2>2
<1>10. \A u \in Threads : \A f \in keys'[u] :
           rbh'[u][f] \cup wbh'[u][f] \subseteq {sock'[f]} \cup Closed'
  BY <1>5, <1>6 DEF BytesInv, LiveBytesApart
<1>11. LiveBytesApart'
  BY <1>8, <1>9, <1>10 DEF BytesInv, LiveBytesApart
<1>12. \A u \in Threads, c \in Conns : Holds(u, c)' =>
           /\ st'[c] \in {"open", "closed"}
           /\ st'[c] = "open" => owner'[c] = u
  BY <1>4, <1>8 DEF BytesInv
<1> QED BY <1>11, <1>12 DEF BytesInv

(* The steps of the base class, whatever onPassivelyClosed clears.         *)
LEMMA IOStepBytes ==
    ASSUME AppCloses = {}, Inv, BytesInv, NEW t \in Threads, IOStep(t)
    PROVE  BytesInv'
<1> USE DEF kernelVars
<1>t. /\ keys \in [Threads -> SUBSET Fds]
      /\ rbh \in [Threads -> [Fds -> Content]]
      /\ wbh \in [Threads -> [Fds -> Content]]
  BY DEF Inv, TypeInv, TypeOK, IOTypeOK
<1>h. ASSUME pc[t] \in HandlerPc
      PROVE  cur[t] \in keys[t] /\ cur[t] \in Fds
  BY <1>h, <1>t DEF Inv, EventInv, NoStaleEvent
<1>k. ASSUME NEW fd \in keys[t], UNCHANGED <<sock, st, owner, keys, buffer_pool>>,
             NEW r \in SUBSET (rbh[t][fd] \cup {sock[fd]}),
             NEW w \in SUBSET (wbh[t][fd] \cup {sock[fd]}),
             rbh' = [rbh EXCEPT ![t][fd] = r], wbh' = [wbh EXCEPT ![t][fd] = w]
      PROVE  BytesInv'
  <2>1. fd \in Fds
    BY <1>t
  <2>2. /\ \A u \in Threads : \A f \in Fds : u # t \/ f # fd =>
              rbh'[u][f] = rbh[u][f] /\ wbh'[u][f] = wbh[u][f]
        /\ rbh'[t][fd] = r /\ wbh'[t][fd] = w
    BY <1>t, <1>k, <2>1
  <2> QED BY <1>k, <2>2, KeepsBytes
<1>r. \A fd \in Fds : rbh = [rbh EXCEPT ![t][fd] = rbh[t][fd]]
                      /\ wbh = [wbh EXCEPT ![t][fd] = wbh[t][fd]]
  BY <1>t
<1>1. CASE OnEpollLoop(t)
  <2>1. CASE UNCHANGED wbh
    BY <1>1, <2>1, SameBytes DEF OnEpollLoop, bufferVars
  <2>2. ASSUME NEW fd \in keys[t], AppendAndWrite(t, fd)
        PROVE  BytesInv'
    <3>1. /\ UNCHANGED <<sock, st, owner, keys, buffer_pool, rbh>>
          /\ wbh' = [wbh EXCEPT ![t][fd] = wbh[t][fd] \cup {sock[fd]}]
      BY <1>1, <2>2 DEF OnEpollLoop, AppendAndWrite
    <3>2. fd \in Fds
      BY <1>t
    <3> QED BY <1>k, <1>r, <3>1, <3>2
  <2> QED BY <1>1, <2>1, <2>2 DEF OnEpollLoop
<1>2. CASE ProcessEvent(t) \/ WriteFails(t) \/ Rearm(t)
  BY <1>2, SameBytes DEF ProcessEvent, WriteFails, Rearm
<1>3. CASE OnReadable(t)
  <2>1. /\ UNCHANGED <<sock, st, owner, keys, buffer_pool, wbh>>
        /\ rbh' = [rbh EXCEPT ![t][cur[t]] = rbh[t][cur[t]] \cup ({sock[cur[t]]} \cap unread)]
        /\ cur[t] \in keys[t] /\ cur[t] \in Fds
    BY <1>3, <1>h DEF OnReadable, HandlerPc
  <2> QED BY <1>k, <1>r, <2>1
<1>4. CASE OnMessage(t)
  <2>1. cur[t] \in keys[t] /\ cur[t] \in Fds
    BY <1>4, <1>h DEF OnMessage, HandlerPc
  <2>2. UNCHANGED <<sock, st, owner, keys, buffer_pool>>
    BY <1>4 DEF OnMessage
  <2>3. PICK consumed \in BOOLEAN :
            rbh' = [rbh EXCEPT ![t][cur[t]] = IF consumed THEN {} ELSE rbh[t][cur[t]]]
    BY <1>4 DEF OnMessage
  <2>4. \/ wbh' = [wbh EXCEPT ![t][cur[t]] = wbh[t][cur[t]]]
        \/ wbh' = [wbh EXCEPT ![t][cur[t]] = wbh[t][cur[t]] \cup {sock[cur[t]]}]
    BY <1>4, <1>r, <2>1 DEF OnMessage, AppendAndWrite
  <2> QED BY <1>k, <2>1, <2>2, <2>3, <2>4
<1>5. CASE WriteCompletes(t) \/ WriteBlocks(t)
  <2>1. cur[t] \in keys[t] /\ cur[t] \in Fds
    BY <1>5, <1>h DEF WriteCompletes, WriteBlocks, HandlerPc
  <2>2. UNCHANGED <<sock, st, owner, keys, buffer_pool, rbh>>
    BY <1>5 DEF WriteCompletes, WriteBlocks, AppMayClose
  <2>3. PICK rest \in SUBSET wbh[t][cur[t]] : wbh' = [wbh EXCEPT ![t][cur[t]] = rest]
    BY <1>5 DEF WriteCompletes, WriteBlocks
  <2>4. rest \in SUBSET (wbh[t][cur[t]] \cup {sock[cur[t]]})
    OBVIOUS
  <2> QED BY <1>k, <1>r, <2>1, <2>2, <2>3, <2>4
<1>6. CASE OnPassivelyClosed(t)
  <2>1. cur[t] \in keys[t] /\ cur[t] \in Fds
    BY <1>6, <1>h DEF OnPassivelyClosed, HandlerPc
  <2>2. UNCHANGED <<sock, st, owner, keys, buffer_pool>>
    BY <1>6 DEF OnPassivelyClosed, AppMayClose
  <2>3. PICK r \in {{}, rbh[t][cur[t]]}, w \in {{}, wbh[t][cur[t]]} :
            /\ rbh' = [rbh EXCEPT ![t][cur[t]] = r]
            /\ wbh' = [wbh EXCEPT ![t][cur[t]] = w]
    BY <1>6 DEF OnPassivelyClosed
  <2>4. /\ r \in SUBSET (rbh[t][cur[t]] \cup {sock[cur[t]]})
        /\ w \in SUBSET (wbh[t][cur[t]] \cup {sock[cur[t]]})
    OBVIOUS
  <2> QED BY <1>k, <2>1, <2>2, <2>3, <2>4
<1>7. CASE DestroyAndClose(t)
  BY <1>7, DestroyAndCloseBytes
<1> QED BY <1>1, <1>2, <1>3, <1>4, <1>5, <1>6, <1>7 DEF IOStep

(* A new connection gets two buffers with bytes of closed connections at   *)
(* most, and nobody holds bytes of its own yet.                            *)
LEMMA AcceptBytes ==
    ASSUME Inv, BytesInv, NEW t \in Threads, Accept(t)
    PROVE  BytesInv'
<1>t. /\ keys \in [Threads -> SUBSET Fds]
      /\ sock \in [Fds -> Conns \cup {NoConn}]
      /\ st \in [Conns -> {"idle", "pending", "open", "closed"}]
      /\ owner \in [Conns -> Threads \cup {NoThread}]
      /\ rbh \in [Threads -> [Fds -> Content]]
      /\ wbh \in [Threads -> [Fds -> Content]]
      /\ buffer_pool \in [Threads -> Seq(Content)]
  BY DEF Inv, TypeInv, TypeOK, IOTypeOK
<1> PICK c0 \in Pending, fd \in FreeFds :
        /\ sock' = [sock EXCEPT ![fd] = c0] /\ st' = [st EXCEPT ![c0] = "open"]
        /\ owner' = [owner EXCEPT ![c0] = t]
        /\ createBuffer(t, fd)
  BY DEF Accept
<1> DEFINE pooled == {buffer_pool[t][j] : j \in DOMAIN buffer_pool[t]}
<1>1. fd \in Fds /\ sock[fd] = NoConn /\ c0 \in Conns /\ st[c0] = "pending"
  BY DEF FreeFds, Connected, Pending
<1>2. \A u \in Threads : fd \notin keys[u]
  BY <1>1 DEF Inv, OwnInv, OneThreadPerSocket, Connected
<1>3. /\ keys' = [keys EXCEPT ![t] = @ \cup {fd}]
      /\ \A u \in Threads \ {t} : buffer_pool'[u] = buffer_pool[u]
      /\ \A i \in DOMAIN buffer_pool'[t] : buffer_pool'[t][i] \in pooled
  BY <1>t, <1>1, CreateElements
<1>4. PICK r \in pooled \cup {{}}, w \in pooled \cup {{}} :
          /\ rbh' = [rbh EXCEPT ![t][fd] = r] /\ wbh' = [wbh EXCEPT ![t][fd] = w]
  BY <1>t, <1>1, CreateElements
<1>5. Closed' = Closed
  BY <1>t, <1>1 DEF Closed
<1>6. /\ rbh'[t][fd] = r /\ wbh'[t][fd] = w
      /\ \A u \in Threads : \A f \in keys'[u] : ~(u = t /\ f = fd) =>
            /\ f \in keys[u] /\ sock'[f] = sock[f]
            /\ rbh'[u][f] = rbh[u][f] /\ wbh'[u][f] = wbh[u][f]
  BY <1>t, <1>1, <1>2, <1>3, <1>4
<1>7. \A u \in Threads, c \in Conns : Holds(u, c)' => Holds(u, c)
  <2> SUFFICES ASSUME NEW u \in Threads, NEW c \in Conns, Holds(u, c)'
               PROVE  Holds(u, c)
    OBVIOUS
  <2>1. CASE \E i \in DOMAIN buffer_pool'[u] : c \in buffer_pool'[u][i]
    BY <1>3, <2>1 DEF Holds
  <2>2. ASSUME NEW f \in keys'[u], c \in rbh'[u][f] \cup wbh'[u][f]
        PROVE  Holds(u, c)
    <3>1. CASE u = t /\ f = fd
      <4>1. c \in r \cup w
        BY <1>6, <2>2, <3>1
      <4>2. \E p \in pooled : c \in p
        BY <4>1
      <4> QED BY <3>1, <4>2 DEF Holds
    <3>2. CASE ~(u = t /\ f = fd)
      BY <1>6, <2>2, <3>2 DEF Holds
    <3> QED BY <3>1, <3>2
  <2> QED BY <2>1, <2>2 DEF Holds
<1>8. \A p \in pooled \cup {{}} : p \subseteq Closed
  BY DEF BytesInv, LiveBytesApart
<1>9. \A u \in Threads : \A f \in keys'[u] :
          rbh'[u][f] \cup wbh'[u][f] \subseteq {sock'[f]} \cup Closed
  <2> SUFFICES ASSUME NEW u \in Threads, NEW f \in keys'[u]
               PROVE  rbh'[u][f] \cup wbh'[u][f] \subseteq {sock'[f]} \cup Closed
    OBVIOUS
  <2>1. CASE u = t /\ f = fd
    BY <1>6, <1>8, <2>1
  <2>2. CASE ~(u = t /\ f = fd)
    BY <1>6, <2>2 DEF BytesInv, LiveBytesApart
  <2> QED BY <2>1, <2>2
<1>10. \A u \in Threads : \A i \in DOMAIN buffer_pool'[u] : buffer_pool'[u][i] \subseteq Closed
  BY <1>3, <1>8 DEF BytesInv, LiveBytesApart
<1>11. LiveBytesApart'
  BY <1>5, <1>7, <1>9, <1>10 DEF BytesInv, LiveBytesApart
<1>12. \A u \in Threads, c \in Conns : Holds(u, c)' =>
           /\ st'[c] \in {"open", "closed"}
           /\ st'[c] = "open" => owner'[c] = u
  <2> SUFFICES ASSUME NEW u \in Threads, NEW c \in Conns, Holds(u, c)'
               PROVE  /\ st'[c] \in {"open", "closed"}
                      /\ st'[c] = "open" => owner'[c] = u
    OBVIOUS
  <2>1. /\ st[c] \in {"open", "closed"}
        /\ st[c] = "open" => owner[c] = u
    BY <1>7 DEF BytesInv
  <2>2. c # c0
    BY <1>1, <2>1
  <2> QED BY <1>t, <1>1, <2>1, <2>2
<1> QED BY <1>11, <1>12 DEF BytesInv

(* The steps of the server.                                                *)
LEMMA ServerStepBytes ==
    ASSUME AppCloses = {}, Inv, BytesInv, NEW t \in Threads, ServerStep(t)
    PROVE  BytesInv'
<1> USE DEF kernelVars
<1>1. CASE IOStep(t) /\ UNCHANGED serverVars
  BY <1>1, IOStepBytes
<1>2. CASE LockListen(t) \/ TryLockFails(t) \/ RegisterListen(t) \/ EpollWait(t)
  BY <1>2, SameBytes DEF LockListen, TryLockFails, RegisterListen, EpollWait, FetchEvents
<1>3. CASE ListenEvent(t) \/ AcceptFatal(t) \/ RemoveListen(t) \/ UnlockListen(t) \/ Register(t)
  BY <1>3, SameBytes DEF ListenEvent, AcceptFatal, RemoveListen, UnlockListen, Register
<1>4. CASE Accept(t)
  BY <1>4, AcceptBytes
<1>5. CASE OnConnect(t)
  <2>1. CASE UNCHANGED wbh
    BY <1>5, <2>1, SameBytes DEF OnConnect, bufferVars
  <2>2. CASE AppendAndWrite(t, cur[t])
    <3>1. /\ keys \in [Threads -> SUBSET Fds] /\ wbh \in [Threads -> [Fds -> Content]]
      BY DEF Inv, TypeInv, TypeOK, IOTypeOK
    <3>2. cur[t] \in keys[t] /\ cur[t] \in Fds
      BY <1>5, <3>1 DEF OnConnect, HandlerPc, Inv, EventInv, NoStaleEvent
    <3>3. /\ UNCHANGED <<sock, st, owner, keys, buffer_pool, rbh>>
          /\ wbh' = [wbh EXCEPT ![t][cur[t]] = wbh[t][cur[t]] \cup {sock[cur[t]]}]
      BY <1>5, <2>2 DEF OnConnect, AppendAndWrite
    <3>4. /\ \A u \in Threads : \A f \in Fds : u # t \/ f # cur[t] => wbh'[u][f] = wbh[u][f]
          /\ wbh'[t][cur[t]] = wbh[t][cur[t]] \cup {sock[cur[t]]}
      BY <3>1, <3>2, <3>3
    <3> QED BY <3>2, <3>3, <3>4, KeepsBytes
  <2> QED BY <1>5, <2>1, <2>2 DEF OnConnect
<1> QED BY <1>1, <1>2, <1>3, <1>4, <1>5 DEF ServerStep

(* All steps: nobody holds bytes of a client that connects.                *)
LEMMA NextBytes ==
    ASSUME AppCloses = {}, Inv, BytesInv, [Next]_vars
    PROVE  BytesInv'
<1>1. CASE UNCHANGED vars
  BY <1>1, SameBytes DEF vars, ioVars, kernelVars
<1>2. ASSUME NEW c0 \in Conns, ClientStep(c0)
      PROVE  BytesInv'
  <2>1. /\ UNCHANGED <<sock, owner, bufferVars>>
        /\ UNCHANGED st \/ (st[c0] = "idle" /\ st' = [st EXCEPT ![c0] = "pending"])
    BY <1>2 DEF ClientStep, PeerConnects, PeerStep, PeerSends, PeerReads, PeerCloses, PeerResets,
                controlVars
  <2>2. CASE UNCHANGED st
    BY <2>1, <2>2, SameBytes
  <2>3. CASE st[c0] = "idle" /\ st' = [st EXCEPT ![c0] = "pending"]
    <3>1. st \in [Conns -> {"idle", "pending", "open", "closed"}]
      BY DEF Inv, TypeInv, TypeOK, IOTypeOK
    <3>2. Closed' = Closed /\ \A c \in Conns : st[c] \in {"open", "closed"} => st'[c] = st[c]
      BY <2>3, <3>1 DEF Closed
    <3>3. \A u \in Threads, c \in Conns : Holds(u, c)' <=> Holds(u, c)
      BY <2>1 DEF Holds, bufferVars
    <3>4. LiveBytesApart'
      BY <2>1, <3>2, <3>3 DEF BytesInv, LiveBytesApart, bufferVars
    <3> QED BY <2>1, <3>2, <3>3, <3>4 DEF BytesInv
  <2> QED BY <2>1, <2>2, <2>3
<1> QED BY <1>1, <1>2, ServerStepBytes DEF Next, Terminated

(* The invariant of the buffers holds in every state.                      *)
LEMMA SpecBytes ==
    ASSUME AppCloses = {}
    PROVE  Spec => []BytesInv
<1>1. Init => BytesInv
  <2> SUFFICES ASSUME Init PROVE BytesInv
    OBVIOUS
  <2>1. \A t \in Threads : keys[t] = {} /\ buffer_pool[t] = <<>>
    BY DEF Init, IOInit
  <2>2. DOMAIN <<>> = {}
    OBVIOUS
  <2> QED BY <2>1, <2>2 DEF BytesInv, LiveBytesApart, Holds
<1> QED BY <1>1, NextBytes, SpecInv, PTL DEF Spec

(* Whatever the callbacks leave in their buffers, an open connection finds *)
(* there no bytes of another open one, and no connection's bytes are ever  *)
(* in the hands of two threads, for any number of threads, connections and *)
(* descriptors and however often buffers go through the pool               *)
(* (IOHandler.h:93-113).                                                   *)
THEOREM LiveBytes ==
    ASSUME AppCloses = {}
    PROVE  Spec => []LiveBytesApart
<1>1. BytesInv => LiveBytesApart
  BY DEF BytesInv
<1> QED BY <1>1, SpecBytes, PTL
-----------------------------------------------------------------------------
(* Registrations. *)

(* The invariant behind ServedIsPolled, for one thread: only a handler has *)
(* a descriptor in hand; on its way to a normal end the handler finds it   *)
(* registered, for EPOLLOUT if that is what the thread waited for or if    *)
(* the connection still has bytes to send.                                 *)
Polled(t) ==
    LET fd == cur[t]
        unsent == sock[fd] \in wbh[t][fd]
    IN  /\ \A f \in keys[t] \ {fd} :
              /\ interest[t][f] # "none"
              /\ sock[f] \in wbh[t][f] => interest[t][f] = "OUT"
        /\ pc[t] \notin HandlerPc \cup {"dead"} => fd = NoFd
        /\ pc[t] = "register" => ~unsent
        /\ pc[t] \in {"connect", "read", "message"} =>
              interest[t][fd] # "none" /\ (unsent => interest[t][fd] = "OUT")
        /\ pc[t] \in {"write", "rearm"} => interest[t][fd] # "none"
        /\ pc[t] = "flush" => interest[t][fd] = "OUT"

PolledInv == \A t \in Threads : Polled(t)

(* A step of another thread, or of a peer, that leaves the thread's        *)
(* descriptors alone.                                                      *)
LEMMA PolledFrame ==
    ASSUME Inv, NEW u \in Threads, Polled(u),
           pc'[u] \in {pc[u], "dead"}, cur'[u] = cur[u], keys'[u] = keys[u], wbh'[u] = wbh[u],
           \A f \in keys[u] : interest'[u][f] = interest[u][f] /\ sock'[f] = sock[f]
    PROVE  Polled(u)'
<1>1. pc[u] \in HandlerPc => cur[u] \in keys[u]
  BY DEF Inv, EventInv, NoStaleEvent
<1> QED BY <1>1 DEF Polled, HandlerPc

(* What a step leaves alone of the threads that do not take it.            *)
LEMMA OtherThreads ==
    ASSUME AppCloses = {}, Inv, NEW t \in Threads, ServerStep(t), NEW u \in Threads \ {t}
    PROVE  /\ pc'[u] \in {pc[u], "dead"} /\ cur'[u] = cur[u]
           /\ keys'[u] = keys[u] /\ wbh'[u] = wbh[u]
           /\ \A f \in keys[u] : interest'[u][f] = interest[u][f] /\ sock'[f] = sock[f]
<1> USE DEF kernelVars, bufferVars, serverVars
<1>t. /\ pc \in [Threads -> HandlerPc \cup ServerPc]
      /\ cur \in [Threads -> Fds \cup {NoFd}]
      /\ sock \in [Fds -> Conns \cup {NoConn}]
      /\ interest \in [Threads -> [Fds -> {"none", "IN", "OUT"}]]
      /\ keys \in [Threads -> SUBSET Fds]
      /\ rbh \in [Threads -> [Fds -> Content]]
      /\ wbh \in [Threads -> [Fds -> Content]]
  BY DEF Inv, TypeInv, TypeOK, IOTypeOK
<1> DEFINE Other ==
        /\ pc'[u] \in {pc[u], "dead"} /\ cur'[u] = cur[u]
        /\ keys'[u] = keys[u] /\ wbh'[u] = wbh[u]
        /\ \A f \in keys[u] : interest'[u][f] = interest[u][f] /\ sock'[f] = sock[f]
<1>k. ASSUME Terminate \/ \E l : Goto(t, l),
             UNCHANGED cur \/ \E v : cur' = [cur EXCEPT ![t] = v],
             UNCHANGED wbh \/ \E f, v : wbh' = [wbh EXCEPT ![t][f] = v],
             UNCHANGED interest \/ \E f, v : interest' = [interest EXCEPT ![t][f] = v],
             UNCHANGED <<sock, keys>>
      PROVE  Other
  BY <1>k, <1>t DEF Goto, Terminate
<1>1. CASE DestroyAndClose(t)
  <2>1. cur[t] \in keys[t] /\ cur[t] \in Fds
    BY <1>1, <1>t DEF DestroyAndClose, HandlerPc, Inv, EventInv, NoStaleEvent
  <2>2. cur[t] \notin keys[u]
    BY <2>1 DEF Inv, OwnInv, OneThreadPerSocket
  <2>3. /\ sock' = [sock EXCEPT ![cur[t]] = NoConn]
        /\ interest' = [v \in Threads |-> [interest[v] EXCEPT ![cur[t]] = "none"]]
        /\ keys' = [keys EXCEPT ![t] = @ \ {cur[t]}]
        /\ wbh' = [wbh EXCEPT ![t][cur[t]] = {}]
        /\ pc' = [pc EXCEPT ![t] = NextAfter(t)] /\ cur' = [cur EXCEPT ![t] = NoFd]
    BY <1>1 DEF DestroyAndClose, CloseFd, destoryBuffer, Finish, Goto
  <2> QED BY <1>t, <2>1, <2>2, <2>3
<1>2. CASE Accept(t)
  <2> PICK c \in Pending, fd \in FreeFds :
          /\ sock' = [sock EXCEPT ![fd] = c] /\ cur' = [cur EXCEPT ![t] = fd]
          /\ createBuffer(t, fd)
    BY <1>2 DEF Accept
  <2>1. fd \notin keys[u]
    BY DEF FreeFds, Inv, OwnInv, OneThreadPerSocket
  <2>2. /\ keys' = [keys EXCEPT ![t] = @ \cup {fd}]
        /\ \E w : wbh' = [wbh EXCEPT ![t][fd] = w]
    BY DEF createBuffer
  <2>3. pc' = [pc EXCEPT ![t] = "register"] /\ UNCHANGED interest
    BY <1>2 DEF Accept, Goto
  <2> QED BY <1>t, <2>1, <2>2, <2>3
<1>3. CASE OnEpollLoop(t) \/ ProcessEvent(t) \/ OnReadable(t) \/ OnMessage(t)
  BY <1>3, <1>k DEF OnEpollLoop, ProcessEvent, OnReadable, OnMessage, AppendAndWrite, Finish
<1>4. CASE WriteFails(t) \/ WriteCompletes(t) \/ OnPassivelyClosed(t)
  BY <1>4, <1>k DEF WriteFails, WriteCompletes, OnPassivelyClosed, AppMayClose, Finish
<1>5. CASE WriteBlocks(t) \/ Rearm(t)
  BY <1>5, <1>k DEF WriteBlocks, Rearm, Finish
<1>6. CASE LockListen(t) \/ TryLockFails(t) \/ RegisterListen(t) \/ EpollWait(t) \/ ListenEvent(t)
  BY <1>6, <1>k DEF LockListen, TryLockFails, RegisterListen, EpollWait, FetchEvents, ListenEvent
<1>7. CASE AcceptFatal(t) \/ RemoveListen(t) \/ UnlockListen(t) \/ Register(t) \/ OnConnect(t)
  BY <1>7, <1>k DEF AcceptFatal, RemoveListen, UnlockListen, Register, OnConnect,
                    AppendAndWrite, Finish
<1> QED BY <1>1, <1>2, <1>3, <1>4, <1>5, <1>6, <1>7 DEF ServerStep, IOStep

(* The thread that takes the step.                                         *)
LEMMA PolledStep ==
    ASSUME AppCloses = {}, Inv, BytesInv, NEW t \in Threads, Polled(t), ServerStep(t)
    PROVE  Polled(t)'
<1> USE DEF kernelVars, bufferVars, serverVars
<1>t. /\ pc \in [Threads -> HandlerPc \cup ServerPc]
      /\ cur \in [Threads -> Fds \cup {NoFd}]
      /\ sock \in [Fds -> Conns \cup {NoConn}]
      /\ interest \in [Threads -> [Fds -> {"none", "IN", "OUT"}]]
      /\ keys \in [Threads -> SUBSET Fds]
      /\ rbh \in [Threads -> [Fds -> Content]]
      /\ wbh \in [Threads -> [Fds -> Content]]
      /\ ret \in [Threads -> {"lock", "events", "accept"}]
  BY DEF Inv, TypeInv, TypeOK, IOTypeOK
<1>h. pc[t] \in HandlerPc => cur[t] \in keys[t] /\ cur[t] \in Fds
  BY <1>t DEF Inv, EventInv, NoStaleEvent
<1>n. NextAfter(t) \in {"loop", "lock", "events", "accept"}
  BY <1>t DEF NextAfter
<1>c. NoFd \notin keys[t]
  BY <1>t, SentinelAssumption
<1>l. ASSUME pc[t] \notin HandlerPc \cup {"dead"}, \E l \in ServerPc : Goto(t, l) \/ Terminate,
             UNCHANGED <<cur, sock, keys, wbh, interest>>
      PROVE  Polled(t)'
  <2>1. pc'[t] \in ServerPc
    BY <1>l, <1>t DEF Goto, Terminate, ServerPc
  <2> QED BY <1>l, <2>1 DEF Polled, ServerPc, HandlerPc
<1>w. ASSUME pc[t] \in HandlerPc, UNCHANGED <<sock, keys>>,
             Finish(t), UNCHANGED interest, UNCHANGED wbh,
             interest[t][cur[t]] # "none",
             sock[cur[t]] \in wbh[t][cur[t]] => interest[t][cur[t]] = "OUT"
      PROVE  Polled(t)'
  <2>1. cur'[t] = NoFd /\ pc'[t] = NextAfter(t)
    BY <1>w, <1>t DEF Finish, Goto
  <2>2. \A f \in keys[t] : /\ interest[t][f] # "none"
                           /\ sock[f] \in wbh[t][f] => interest[t][f] = "OUT"
    BY <1>w DEF Polled
  <2> QED BY <1>w, <1>n, <2>1, <2>2 DEF Polled, HandlerPc
<1>x. ASSUME pc[t] \in HandlerPc, UNCHANGED <<sock, keys, cur>>,
             Goto(t, "clean") \/ Goto(t, "destroy"),
             \A f \in keys[t] \ {cur[t]} : interest'[t][f] = interest[t][f] /\ wbh'[t][f] = wbh[t][f]
      PROVE  Polled(t)'
  <2>1. pc'[t] \in {"clean", "destroy"}
    BY <1>x, <1>t DEF Goto
  <2> QED BY <1>x, <2>1 DEF Polled, HandlerPc
<1>a. ASSUME NEW fd \in keys[t], pc[t] \in HandlerPc => fd = cur[t], pc[t] # "dead",
             AppendAndWrite(t, fd), cur'[t] = fd,
             UNCHANGED <<sock, keys, interest>>, interest[t][fd] # "none"
      PROVE  Polled(t)'
  <2>1. fd \in Fds
    BY <1>t
  <2>2. pc'[t] = "write" /\ \A f \in keys[t] \ {fd} : wbh'[t][f] = wbh[t][f]
    BY <1>a, <1>t, <2>1 DEF AppendAndWrite, Goto
  <2>3. \A f \in keys[t] \ {fd} : /\ interest[t][f] # "none"
                                  /\ sock[f] \in wbh[t][f] => interest[t][f] = "OUT"
    BY <1>a, <1>c DEF Polled
  <2> QED BY <1>a, <2>2, <2>3 DEF Polled, HandlerPc
<1>1. CASE OnEpollLoop(t)
  <2>1. pc[t] = "loop" /\ UNCHANGED <<sock, keys, interest>>
    BY <1>1 DEF OnEpollLoop
  <2>2. CASE Goto(t, "lock") /\ UNCHANGED <<cur, wbh>>
    BY <1>l, <2>1, <2>2 DEF ServerPc, HandlerPc
  <2>3. ASSUME NEW fd \in keys[t], cur' = [cur EXCEPT ![t] = fd], AppendAndWrite(t, fd)
        PROVE  Polled(t)'
    <3>1. cur[t] = NoFd /\ cur'[t] = fd
      BY <1>t, <2>1, <2>3 DEF Polled, HandlerPc
    <3>2. interest[t][fd] # "none"
      BY <1>c, <3>1 DEF Polled
    <3> QED BY <1>a, <2>1, <2>3, <3>1, <3>2 DEF HandlerPc
  <2> QED BY <1>1, <2>2, <2>3 DEF OnEpollLoop
<1>2. CASE ProcessEvent(t)
  <2>1. pc[t] = "events" /\ cur[t] = NoFd /\ UNCHANGED <<sock, keys, interest, wbh>>
    BY <1>2 DEF ProcessEvent, Polled, HandlerPc
  <2>2. PICK e \in evs[t] :
            /\ e[1] \in keys[t] /\ interest[t][e[1]] = e[2] /\ cur' = [cur EXCEPT ![t] = e[1]]
            /\ Goto(t, IF e[2] = "IN" THEN "read" ELSE "flush")
    <3>1. \A e \in evs[t] : e[1] \in Fds => e[1] \in keys[t] /\ interest[t][e[1]] = e[2]
      BY DEF Inv, EventInv, NoStaleEvent
    <3> QED BY <1>2, <3>1 DEF ProcessEvent
  <2>3. /\ interest[t][e[1]] # "none"
        /\ sock[e[1]] \in wbh[t][e[1]] => interest[t][e[1]] = "OUT"
        /\ interest[t][e[1]] \in {"none", "IN", "OUT"}
    BY <1>c, <1>t, <2>1, <2>2 DEF Polled
  <2>4. \/ pc'[t] = "read" /\ interest[t][e[1]] = "IN"
        \/ pc'[t] = "flush" /\ interest[t][e[1]] = "OUT"
    BY <1>t, <2>2, <2>3 DEF Goto
  <2>5. cur'[t] = e[1]
    BY <1>t, <2>2
  <2> QED BY <1>c, <2>1, <2>3, <2>4, <2>5 DEF Polled, HandlerPc
<1>3. CASE OnReadable(t)
  <2>1. /\ pc[t] = "read" /\ UNCHANGED <<sock, keys, interest, wbh, cur>>
        /\ pc'[t] \in {"clean", "message"}
    BY <1>3, <1>t DEF OnReadable, Goto
  <2> QED BY <2>1 DEF Polled, HandlerPc
<1>4. CASE OnMessage(t) \/ OnConnect(t)
  <2>1. /\ pc[t] \in {"message", "connect"} /\ UNCHANGED <<sock, keys, interest>>
        /\ pc[t] \in HandlerPc
    BY <1>4 DEF OnMessage, OnConnect, HandlerPc
  <2>2. /\ interest[t][cur[t]] # "none"
        /\ sock[cur[t]] \in wbh[t][cur[t]] => interest[t][cur[t]] = "OUT"
    BY <2>1 DEF Polled
  <2>3. CASE Finish(t) /\ UNCHANGED wbh
    BY <1>w, <2>1, <2>2, <2>3
  <2>4. CASE AppendAndWrite(t, cur[t]) /\ UNCHANGED cur
    BY <1>a, <1>h, <2>1, <2>2, <2>4
  <2>5. CASE (Goto(t, "clean") \/ Goto(t, "destroy")) /\ UNCHANGED <<cur, wbh>>
    BY <1>x, <2>1, <2>5
  <2> QED BY <1>4, <2>3, <2>4, <2>5 DEF OnMessage, OnConnect
<1>5. CASE WriteFails(t)
  BY <1>5, <1>x DEF WriteFails, HandlerPc
<1>6. CASE WriteCompletes(t)
  <2>1. /\ pc[t] \in {"write", "flush"} /\ UNCHANGED <<sock, keys, interest>>
        /\ wbh' = [wbh EXCEPT ![t][cur[t]] = {}]
        /\ \/ pc[t] = "flush" /\ Goto(t, "rearm") /\ UNCHANGED cur
           \/ Finish(t)
    BY <1>6 DEF WriteCompletes, AppMayClose
  <2>2. interest[t][cur[t]] # "none" /\ cur[t] \in keys[t] /\ cur[t] \in Fds
    BY <1>h, <2>1 DEF Polled, HandlerPc
  <2>3. wbh'[t][cur[t]] = {} /\ \A f \in keys[t] \ {cur[t]} : wbh'[t][f] = wbh[t][f]
    BY <1>t, <2>1, <2>2
  <2>4. \A f \in keys[t] : /\ interest[t][f] # "none"
                           /\ sock[f] \in wbh'[t][f] => interest[t][f] = "OUT"
    BY <2>2, <2>3 DEF Polled
  <2>5. \/ pc'[t] = "rearm" /\ cur'[t] = cur[t]
        \/ pc'[t] = NextAfter(t) /\ cur'[t] = NoFd
    BY <1>t, <2>1 DEF Finish, Goto
  <2> QED BY <1>n, <2>1, <2>2, <2>4, <2>5 DEF Polled, HandlerPc
<1>7. CASE WriteBlocks(t)
  <2>1. /\ pc[t] \in {"write", "flush"} /\ UNCHANGED <<sock, keys>>
        /\ \E rest : wbh' = [wbh EXCEPT ![t][cur[t]] = rest]
        /\ \/ pc[t] = "flush" /\ Finish(t) /\ UNCHANGED interest
           \/ Finish(t) /\ interest' = [interest EXCEPT ![t][cur[t]] = "OUT"]
           \/ Goto(t, "clean") /\ UNCHANGED cur
              /\ \E v : interest' = [interest EXCEPT ![t][cur[t]] = v]
    BY <1>7 DEF WriteBlocks
  <2>2. cur[t] \in keys[t] /\ cur[t] \in Fds /\ pc[t] \in HandlerPc
    BY <1>h, <2>1 DEF HandlerPc
  <2>3. \A f \in keys[t] \ {cur[t]} : wbh'[t][f] = wbh[t][f] /\ interest'[t][f] = interest[t][f]
    BY <1>t, <2>1, <2>2
  <2>4. CASE Goto(t, "clean") /\ UNCHANGED cur
    BY <1>x, <2>1, <2>2, <2>3, <2>4
  <2>5. CASE Finish(t) /\ interest'[t][cur[t]] = "OUT"
    <3>1. \A f \in keys[t] : /\ interest'[t][f] # "none"
                             /\ sock[f] \in wbh'[t][f] => interest'[t][f] = "OUT"
      BY <2>3, <2>5 DEF Polled
    <3>2. pc'[t] = NextAfter(t) /\ cur'[t] = NoFd
      BY <1>t, <2>5 DEF Finish, Goto
    <3> QED BY <1>n, <2>1, <3>1, <3>2 DEF Polled, HandlerPc
  <2>6. pc[t] = "flush" => interest[t][cur[t]] = "OUT"
    BY DEF Polled
  <2> QED BY <1>t, <2>1, <2>2, <2>4, <2>5, <2>6
<1>8. CASE Rearm(t)
  <2>1. pc[t] = "rearm" /\ interest[t][cur[t]] # "none"
    BY <1>8 DEF Rearm, Polled
  <2>2. Goto(t, "clean") /\ UNCHANGED <<interest, cur, sock, keys, wbh>>
    BY <1>8, <2>1 DEF Rearm, AddOK
  <2> QED BY <1>x, <2>1, <2>2 DEF HandlerPc
<1>9. CASE OnPassivelyClosed(t)
  <2>1. /\ pc[t] = "clean" /\ pc[t] \in HandlerPc /\ UNCHANGED <<sock, keys, cur, interest>>
        /\ Goto(t, "destroy")
        /\ \E w : wbh' = [wbh EXCEPT ![t][cur[t]] = w]
    BY <1>9 DEF OnPassivelyClosed, AppMayClose, HandlerPc
  <2>2. \A f \in keys[t] \ {cur[t]} : interest'[t][f] = interest[t][f] /\ wbh'[t][f] = wbh[t][f]
    BY <1>t, <2>1
  <2> QED BY <1>x, <2>1, <2>2
<1>10. CASE DestroyAndClose(t)
  <2>1. /\ pc[t] = "destroy"
        /\ sock' = [sock EXCEPT ![cur[t]] = NoConn]
        /\ interest' = [v \in Threads |-> [interest[v] EXCEPT ![cur[t]] = "none"]]
        /\ keys' = [keys EXCEPT ![t] = @ \ {cur[t]}]
        /\ wbh' = [wbh EXCEPT ![t][cur[t]] = {}]
        /\ pc' = [pc EXCEPT ![t] = NextAfter(t)] /\ cur' = [cur EXCEPT ![t] = NoFd]
    BY <1>10 DEF DestroyAndClose, CloseFd, destoryBuffer, Finish, Goto
  <2>2. keys'[t] = keys[t] \ {cur[t]} /\ cur'[t] = NoFd /\ pc'[t] = NextAfter(t)
    BY <1>t, <2>1
  <2>3. \A f \in keys[t] \ {cur[t]} :
            interest'[t][f] = interest[t][f] /\ wbh'[t][f] = wbh[t][f] /\ sock'[f] = sock[f]
    BY <1>t, <2>1
  <2> QED BY <1>n, <2>2, <2>3 DEF Polled, HandlerPc
<1>11. CASE LockListen(t) \/ TryLockFails(t) \/ RegisterListen(t) \/ EpollWait(t) \/ ListenEvent(t)
  BY <1>11, <1>l DEF LockListen, TryLockFails, RegisterListen, EpollWait, FetchEvents, ListenEvent,
                     ServerPc, HandlerPc
<1>12. CASE AcceptFatal(t) \/ RemoveListen(t) \/ UnlockListen(t)
  BY <1>12, <1>l DEF AcceptFatal, RemoveListen, UnlockListen, ServerPc, HandlerPc
<1>13. CASE Accept(t)
  <2> PICK c \in Pending, fd \in FreeFds :
          /\ sock' = [sock EXCEPT ![fd] = c] /\ cur' = [cur EXCEPT ![t] = fd]
          /\ createBuffer(t, fd)
    BY <1>13 DEF Accept
  <2>1. /\ fd \in Fds /\ fd \notin keys[t] /\ c \in Conns /\ c \notin Closed
        /\ pc[t] = "accept" /\ pc' = [pc EXCEPT ![t] = "register"] /\ UNCHANGED interest
    BY <1>13 DEF FreeFds, Pending, Closed, Accept, Goto, Inv, OwnInv, OneThreadPerSocket
  <2>2. cur[t] = NoFd /\ cur'[t] = fd /\ pc'[t] = "register" /\ sock'[fd] = c
    BY <1>t, <2>1 DEF Polled, HandlerPc
  <2>3. buffer_pool \in [Threads -> Seq(Content)]
    BY DEF Inv, TypeInv, TypeOK, IOTypeOK
  <2>4. /\ keys' = [keys EXCEPT ![t] = @ \cup {fd}]
        /\ \E w \in {buffer_pool[t][j] : j \in DOMAIN buffer_pool[t]} \cup {{}} :
              wbh' = [wbh EXCEPT ![t][fd] = w]
    BY <2>1, <2>3, CreateElements
  <2>5. wbh'[t][fd] \subseteq Closed
    BY <1>t, <2>1, <2>4 DEF BytesInv, LiveBytesApart
  <2>6. /\ keys'[t] = keys[t] \cup {fd}
        /\ \A f \in keys[t] : wbh'[t][f] = wbh[t][f] /\ sock'[f] = sock[f]
    BY <1>t, <2>1, <2>4
  <2>7. \A f \in keys[t] : /\ interest[t][f] # "none"
                           /\ sock[f] \in wbh[t][f] => interest[t][f] = "OUT"
    BY <1>c, <2>2 DEF Polled
  <2> QED BY <2>1, <2>2, <2>5, <2>6, <2>7 DEF Polled, HandlerPc
<1>14. CASE Register(t)
  <2>1. /\ pc[t] = "register" /\ pc[t] \in HandlerPc /\ UNCHANGED <<sock, keys, wbh, cur>>
        /\ \/ Goto(t, "connect") /\ interest' = [interest EXCEPT ![t][cur[t]] = "IN"]
           \/ Goto(t, "destroy") /\ UNCHANGED interest
    BY <1>14 DEF Register, HandlerPc
  <2>2. cur[t] \in keys[t] /\ cur[t] \in Fds
    BY <1>h, <2>1
  <2>3. CASE Goto(t, "destroy") /\ UNCHANGED interest
    BY <1>x, <2>1, <2>3
  <2>4. CASE Goto(t, "connect") /\ interest' = [interest EXCEPT ![t][cur[t]] = "IN"]
    <3>1. /\ pc'[t] = "connect" /\ interest'[t][cur[t]] = "IN"
          /\ \A f \in keys[t] \ {cur[t]} : interest'[t][f] = interest[t][f]
      BY <1>t, <2>2, <2>4 DEF Goto
    <3> QED BY <2>1, <3>1 DEF Polled, HandlerPc
  <2> QED BY <2>1, <2>3, <2>4
<1> QED BY <1>1, <1>2, <1>3, <1>4, <1>5, <1>6, <1>7, <1>8, <1>9, <1>10, <1>11, <1>12, <1>13, <1>14
        DEF ServerStep, IOStep

(* All steps.                                                              *)
LEMMA NextPolled ==
    ASSUME AppCloses = {}, Inv, BytesInv, PolledInv, [Next]_vars
    PROVE  PolledInv'
<1>1. CASE UNCHANGED vars
  BY <1>1, PolledFrame DEF vars, ioVars, kernelVars, bufferVars, controlVars, PolledInv
<1>2. ASSUME NEW c \in Conns, ClientStep(c)
      PROVE  PolledInv'
  <2>1. UNCHANGED <<pc, cur, keys, wbh, interest, sock>>
    BY <1>2 DEF ClientStep, PeerConnects, PeerStep, PeerSends, PeerReads, PeerCloses, PeerResets,
                controlVars, bufferVars
  <2> QED BY <2>1, PolledFrame DEF PolledInv
<1>3. ASSUME NEW t \in Threads, ServerStep(t)
      PROVE  PolledInv'
  BY <1>3, PolledStep, OtherThreads, PolledFrame DEF PolledInv
<1> QED BY <1>1, <1>2, <1>3 DEF Next, Terminated

(* For any number of threads, connections and descriptors, and whichever   *)
(* epoll_ctl or write fails: a served connection that no handler is at     *)
(* work on is registered, for EPOLLOUT while bytes of its own wait to be   *)
(* sent (IOHandler.h:131-143, 157-166, 360-375).                           *)
THEOREM AlwaysPolled ==
    ASSUME AppCloses = {}
    PROVE  Spec => []ServedIsPolled
<1>1. Init => PolledInv
  BY SentinelAssumption DEF Init, IOInit, PolledInv, Polled, HandlerPc
<1>2. PolledInv => ServedIsPolled
  BY DEF PolledInv, Polled, ServedIsPolled
<1> QED BY <1>1, <1>2, NextPolled, SpecBytes, SpecInv, PTL DEF Spec
=============================================================================
