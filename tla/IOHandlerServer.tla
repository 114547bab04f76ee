--------------------------- MODULE IOHandlerServer ---------------------------
(***************************************************************************)
(* The server's thread pool (IOHandlerForServer::_run, EpollTPServer):     *)
(* the IO threads compete for the listening socket through _listenfd_lock, *)
(* the holder registers it in its own epoll instance, accepts a batch of   *)
(* connections and serves them until they close.                           *)
(***************************************************************************)
EXTENDS IOHandler

CONSTANT Batch    \* _tsd->_batch

ASSUME BatchAssumption == Batch \in Nat \ {0}

VARIABLES
    listenfd_lock,  \* the owner of _tsd->_listenfd_lock
    listening,      \* the threads whose epoll instance holds _listenfd
    acc             \* j, the connections accepted in the current batch

serverVars == <<listenfd_lock, listening, acc>>
vars == <<ioVars, serverVars>>

ServerPc == {"loop", "lock", "listen", "wait", "events", "accept", "unlock",
             "dead"}

TypeOK ==
    /\ IOTypeOK(HandlerPc \cup ServerPc, {"lock", "events", "accept"})
    /\ listenfd_lock \in Threads \cup {NoThread} /\ listening \in SUBSET Threads
    /\ acc \in [Threads -> 0..Batch]

Init ==
    /\ IOInit
    /\ listenfd_lock = NoThread /\ listening = {}
    /\ acc = [t \in Threads |-> 0]
-----------------------------------------------------------------------------
(* Competing for the listening socket. *)

\* lock() for a thread that has never held it, try_lock() for the others.
LockListen(t) ==
    /\ pc[t] = "lock" /\ listenfd_lock = NoThread
    /\ listenfd_lock' = t /\ CountUp(t) /\ Goto(t, "listen")
    /\ UNCHANGED <<kernelVars, bufferVars, ret, cur, evs, listening, acc>>

\* try_lock() fails, also for the thread that holds the lock itself: a thread
\* keeps the listening socket until a connection arrives.
TryLockFails(t) ==
    /\ pc[t] = "lock" /\ fd_num[t] > 0 /\ listenfd_lock # NoThread
    /\ Goto(t, "wait")
    /\ UNCHANGED <<kernelVars, bufferVars, ret, cur, evs, fd_num, serverVars>>

\* epollRegister of the listening socket; nothing catches its exception.
RegisterListen(t) ==
    /\ pc[t] = "listen"
    /\ \/ /\ listening' = listening \cup {t}
          /\ Goto(t, "wait")
       \/ /\ TRUE \in AddFailure
          /\ Terminate
          /\ UNCHANGED listening
    /\ UNCHANGED <<kernelVars, bufferVars, ret, cur, evs, fd_num, listenfd_lock, acc>>

Pending == {c \in Conns : st[c] = "pending"}

ListenEvents(t) ==
    IF t \in listening /\ Pending # {} THEN {<<ListenFd, "IN">>} ELSE {}

EpollWait(t) ==
    /\ FetchEvents(t, ReadyEvents(t) \cup ListenEvents(t))
    /\ UNCHANGED serverVars
-----------------------------------------------------------------------------
(* Accepting a batch. *)

ListenEvent(t) ==
    /\ pc[t] = "events" /\ <<ListenFd, "IN">> \in evs[t]
    /\ DropEvent(t, <<ListenFd, "IN">>) /\ ret' = [ret EXCEPT ![t] = "accept"]
    /\ acc' = [acc EXCEPT ![t] = 0] /\ Goto(t, "accept")
    /\ UNCHANGED <<kernelVars, bufferVars, cur, fd_num, listenfd_lock, listening>>

MoreToAccept(t) == acc[t] < Batch

\* accept4 returns a connection: any pending one, under any free number (other
\* parts of the process open and close descriptors too); createBuffer.
Accept(t) ==
    /\ pc[t] = "accept" /\ MoreToAccept(t)
    /\ \E c \in Pending, fd \in FreeFds :
          /\ sock' = [sock EXCEPT ![fd] = c] /\ st' = [st EXCEPT ![c] = "open"]
          /\ owner' = [owner EXCEPT ![c] = t] /\ cur' = [cur EXCEPT ![t] = fd]
          /\ createBuffer(t, fd)
    /\ acc' = [acc EXCEPT ![t] = @ + 1] /\ Goto(t, "register")
    /\ UNCHANGED <<interest, peer, unread, full, ret, evs, fd_num,
                   listenfd_lock, listening>>

\* EMFILE comes before EAGAIN; fatalError throws and nothing catches it.
AcceptFatal(t) ==
    /\ pc[t] = "accept" /\ MoreToAccept(t) /\ FreeFds = {}
    /\ Terminate
    /\ UNCHANGED <<kernelVars, bufferVars, ret, cur, evs, fd_num, serverVars>>

\* Mutant: the lock is given back before the socket is taken out of epoll.
RemoveListen_UnlockFirst(t) ==
    /\ pc[t] = "accept"
    /\ ~MoreToAccept(t) \/ (Pending = {} /\ FreeFds # {})
    /\ listenfd_lock' = NoThread /\ Goto(t, "unlock")
    /\ UNCHANGED <<kernelVars, bufferVars, ret, cur, evs, fd_num, listening, acc>>

\* The batch is done or accept4 says EAGAIN: _remove_listen, first half.
RemoveListen(t) ==
    /\ pc[t] = "accept"
    /\ ~MoreToAccept(t) \/ (Pending = {} /\ FreeFds # {})
    /\ listening' = listening \ {t} /\ Goto(t, "unlock")
    /\ UNCHANGED <<kernelVars, bufferVars, ret, cur, evs, fd_num,
                   listenfd_lock, acc>>

\* Mutant: the holder forgets to unlock.
UnlockListen_Forgets(t) ==
    /\ pc[t] = "unlock"
    /\ ret' = [ret EXCEPT ![t] = "events"]
    /\ Goto(t, IF evs[t] = {} THEN "loop" ELSE "events")
    /\ UNCHANGED <<kernelVars, bufferVars, cur, evs, fd_num, serverVars>>

\* _remove_listen, second half; the loop over the events goes on.
UnlockListen(t) ==
    /\ pc[t] = "unlock"
    /\ listenfd_lock' = NoThread /\ ret' = [ret EXCEPT ![t] = "events"]
    /\ acc' = [acc EXCEPT ![t] = 0]
    /\ Goto(t, IF evs[t] = {} THEN "loop" ELSE "events")
    /\ UNCHANGED <<kernelVars, bufferVars, cur, evs, fd_num, listening>>

\* epollRegister of the accepted connection; catch (...) destroys its buffers.
Register(t) ==
    LET fd == cur[t] IN
    /\ pc[t] = "register"
    /\ \E failed \in AddFailure :
          IF AddOK(t, fd, failed)
          THEN /\ interest' = [interest EXCEPT ![t][fd] = "IN"]
               /\ Goto(t, "connect")
          ELSE /\ Goto(t, "destroy")
               /\ UNCHANGED interest
    /\ UNCHANGED <<sock, st, peer, unread, full, owner, bufferVars,
                   ret, cur, evs, fd_num, serverVars>>

\* The onConnect callback.
OnConnect(t) ==
    /\ pc[t] = "connect"
    /\ \/ Finish(t) /\ UNCHANGED wbh
       \/ /\ "onConnect" \in AppWrites
          /\ AppendAndWrite(t, cur[t])
          /\ UNCHANGED cur
       \/ /\ "onConnect" \in AppThrows
          /\ Goto(t, "destroy")
          /\ UNCHANGED <<cur, wbh>>
    /\ UNCHANGED <<kernelVars, keys, rbh, buffer_pool, ret, evs, fd_num, serverVars>>

\* A client connects: the kernel queues the connection.
PeerConnects(c) ==
    /\ st[c] = "idle"
    /\ st' = [st EXCEPT ![c] = "pending"]
    /\ UNCHANGED <<sock, interest, peer, unread, full, owner, bufferVars,
                   controlVars, serverVars>>
-----------------------------------------------------------------------------
ServerStep(t) ==
    \/ IOStep(t) /\ UNCHANGED serverVars
    \/ LockListen(t)
    \/ TryLockFails(t)
    \/ RegisterListen(t)
    \/ EpollWait(t)
    \/ ListenEvent(t)
    \/ Accept(t)
    \/ AcceptFatal(t)
    \/ RemoveListen(t)
    \/ UnlockListen(t)
    \/ Register(t)
    \/ OnConnect(t)

ClientStep(c) == PeerConnects(c) \/ (PeerStep(c) /\ UNCHANGED serverVars)

Terminated == (\A t \in Threads : pc[t] = "dead") /\ UNCHANGED vars

Next ==
    \/ \E t \in Threads : ServerStep(t)
    \/ \E c \in Conns : ClientStep(c)
    \/ Terminated

Spec == Init /\ [][Next]_vars

\* Every IO thread that can take a step is eventually scheduled, and what is
\* sent to a peer that has closed is eventually answered with a reset.
FairSpec ==
    /\ Spec
    /\ \A t \in Threads : WF_vars(ServerStep(t))
    /\ \A c \in Conns : WF_vars(ClosedPeerResets(c) /\ UNCHANGED serverVars)
-----------------------------------------------------------------------------
Holding(t) == listenfd_lock = t

(* Accepting threads exclude each other: the listening socket is in the    *)
(* epoll instance of the lock's holder only, and nobody is inside the      *)
(* accept loop, or about to enter it, without the lock (IOHandler.h:326-   *)
(* 330, 338-349, 355-377).                                                 *)
ListenExclusive ==
    \A t \in Threads :
        (\/ t \in listening
         \/ <<ListenFd, "IN">> \in evs[t]
         \/ ret[t] = "accept")
        => Holding(t)

(* A thread with connections never sleeps in lock(): once it may have      *)
(* buffers or registrations _fd_num is positive, so it only ever uses      *)
(* try_lock, and the holder never waits for its own lock (IOHandler.h:338- *)
(* 347).                                                                   *)
ServingThreadNeverBlocks ==
    \A t \in Threads :
        fd_num[t] = 0 => /\ keys[t] = {}
                         /\ ~Holding(t) /\ pc[t] \in {"loop", "lock", "dead"}

(* README.md: "One connected socket handled only by one thread."  Every    *)
(* open connection has buffers in exactly one thread, the one that         *)
(* accepted it; no thread keeps buffers of a closed descriptor, and only   *)
(* the serving thread has the descriptor in its epoll instance.            *)
OneThreadPerSocket ==
    /\ \A fd \in Fds, t \in Threads :
          /\ fd \in keys[t] <=> (Connected(fd) /\ owner[sock[fd]] = t)
          /\ interest[t][fd] # "none" => fd \in keys[t]
    /\ \A c \in Conns : st[c] = "open" => \E fd \in Fds : sock[fd] = c

(* No event is processed for a descriptor that was closed, re-used or re-  *)
(* registered since epoll_wait returned it, and a handler in progress      *)
(* always finds the buffers of its descriptor (IOHandler.h:130, 156, 173   *)
(* dereference what _wbh[conn] and _rbh[conn] hold).                       *)
NoStaleEvent ==
    \A t \in Threads :
        /\ \A e \in evs[t] : e[1] \in Fds =>
              e[1] \in keys[t] /\ interest[t][e[1]] = e[2]
        /\ pc[t] \in HandlerPc => cur[t] \in keys[t]

(* Only the thread that accepted a connection closes it: when one closes,  *)
(* the step is its owner's (IOHandler.h:119, 373).                         *)
OnlyOwnerCloses ==
    [][\A c \in Conns :
          st[c] = "open" /\ st'[c] = "closed" => pc'[owner[c]] # pc[owner[c]]]_vars

(* A connection that no handler is working on is in its thread's epoll     *)
(* instance, and for EPOLLOUT as long as bytes of its own wait to be sent: *)
(* whatever failed on the way, none is kept open with nobody looking at it *)
(* (IOHandler.h:131-143, 157-166, 360-375).                                *)
ServedIsPolled ==
    \A t \in Threads : \A fd \in keys[t] \ {cur[t]} :
        /\ interest[t][fd] # "none"
        /\ sock[fd] \in wbh[t][fd] => interest[t][fd] = "OUT"

\* Some buffer of t holds bytes of connection c.
Holds(t, c) ==
    \/ \E fd \in keys[t] : c \in rbh[t][fd] \cup wbh[t][fd]
    \/ \E i \in DOMAIN buffer_pool[t] : c \in buffer_pool[t][i]

(* Buffers go through the pool as they are, so a connection may find bytes *)
(* of an earlier one in its own (IOHandler.h:93-113).  Those are bytes of  *)
(* closed connections of the same thread, never of one that is still open: *)
(* what an open connection has received or has to send is in its own two   *)
(* buffers only, and no connection's bytes are in the hands of two threads.*)
LiveBytesApart ==
    \A t \in Threads :
        /\ \A fd \in keys[t] : rbh[t][fd] \cup wbh[t][fd] \subseteq {sock[fd]} \cup Closed
        /\ \A i \in DOMAIN buffer_pool[t] : buffer_pool[t][i] \subseteq Closed
        /\ \A u \in Threads, c \in Conns : Holds(t, c) /\ Holds(u, c) => t = u

(* examples/quick_start/README.md:122 "onPassivelyClosed(int conn) : Oppo  *)
(* closed socket or crash": the callback is only called for a connection   *)
(* whose peer closed, reset or crashed.                                    *)
PassivelyClosedMeansPeerGone ==
    \A t \in Threads :
        pc[t] = "clean" /\ Connected(cur[t]) => peer[sock[cur[t]]] # "up"

(* Every client that connects is eventually accepted, although the threads *)
(* hand the listening socket over only through the lock.                   *)
PendingIsAccepted ==
    \A c \in Conns : st[c] = "pending" ~> st[c] # "pending"

(* A connection whose peer has closed or crashed is eventually closed and  *)
(* its descriptor freed.                                                   *)
GoneIsClosed ==
    \A c \in Conns : st[c] = "open" /\ peer[c] # "up" ~> st[c] = "closed"
=============================================================================
