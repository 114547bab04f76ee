--------------------------- MODULE IOHandlerClient ---------------------------
(***************************************************************************)
(* The client's thread pool (IOHandlerForClient::_run, EpollTPClient) and  *)
(* the pool of targets its IO threads compete for (TPSharedDataForClient): *)
(* a thread takes a batch of targets, connects to them without blocking,   *)
(* sends the first message when a connection is established and serves the *)
(* connection from then on as the base class does.                         *)
(*                                                                         *)
(* A member of Conns is a call of add(host, port, init): the message init  *)
(* and, once a thread has taken it, the connection it is sent over.  In    *)
(* the kernel's state a connection that is being established is "pending"  *)
(* and cannot be written to (it is in full).                               *)
(***************************************************************************)
EXTENDS IOHandler

CONSTANTS
    Batch,          \* _tsd->_batch
    HostOf,         \* the host, <<ip, port>>, each message is meant for
    IpHash,         \* hash<string> of an ip
    NoHost,
    ConnectMayFail, \* may connectIp throw, for a target that refuses at once?
    EarlyLoss       \* may a peer go away, or its window fill up, between the
                    \* first message and the registration for reading?

Hosts == {HostOf[c] : c \in Conns}

ASSUME ClientAssumption ==
    /\ Batch \in Nat \ {0}
    /\ \A h \in Hosts : IpHash[h[1]] \in Nat /\ h[2] \in Nat
    /\ NoHost \notin Hosts /\ ConnectMayFail \in BOOLEAN
    /\ EarlyLoss \in BOOLEAN

VARIABLES
    pool,       \* _tsd->_pool: the messages under each key, in order of arrival
    pool_lock,  \* the owner of _tsd->_pool_lock
    notify,     \* application threads between add's unlock and its notify_all
    added,      \* history: the targets that add() has put into the pool
    syn_sent,   \* _syn_sent
    init_message, \* _conn_init_message
    conn,       \* the descriptor whose connection _run has just established
    got,        \* targets taken in the current batch
    dest        \* _conn_info: the host each target's connection goes to

poolVars == <<pool, pool_lock, notify, added>>
connVars == <<syn_sent, init_message, conn, got, dest>>
clientVars == <<poolVars, connVars>>
vars == <<ioVars, clientVars>>

\* _HostCompare orders the hosts by this number only.
HostKey(h) == IpHash[h[1]] * 100 + h[2]

Keys == {HostKey(h) : h \in Hosts}

ClientPc == {"loop", "lock", "asleep", "trylock", "get", "syn", "wait", "events",
             "first", "established", "arm", "dead"}

TypeOK ==
    /\ IOTypeOK(HandlerPc \cup ClientPc, {"lock", "events", "established", "arm"})
    /\ pool \in [Keys -> Seq(Conns)] /\ pool_lock \in Threads \cup {NoThread}
    /\ notify \in SUBSET Conns /\ added \in SUBSET Conns
    /\ syn_sent \in [Threads -> SUBSET Fds]
    /\ init_message \in [Threads -> [Fds -> Conns \cup {NoConn}]]
    /\ conn \in [Threads -> Fds \cup {NoFd}] /\ got \in [Threads -> 0..Batch]
    /\ dest \in [Conns -> Hosts \cup {NoHost}]

Init ==
    /\ IOInit
    /\ pool = [k \in Keys |-> <<>>] /\ pool_lock = NoThread
    /\ notify = {} /\ added = {} /\ syn_sent = [t \in Threads |-> {}]
    /\ init_message = [t \in Threads |-> [fd \in Fds |-> NoConn]]
    /\ conn = [t \in Threads |-> NoFd] /\ got = [t \in Threads |-> 0]
    /\ dest = [c \in Conns |-> NoHost]
-----------------------------------------------------------------------------
(* The pool of targets. *)

PoolEmpty == \A k \in Keys : pool[k] = <<>>

\* The entry the map begins with.  Its host is that of its first message,
\* which is the one that made the entry and the last one to leave it.
FirstKey == CHOOSE k \in Keys : pool[k] # <<>> /\ \A j \in Keys : pool[j] # <<>> => k <= j
FirstHost == HostOf[pool[FirstKey][1]]

\* raw_add
RawAdd(c) == pool' = [pool EXCEPT ![HostKey(HostOf[c])] = Append(@, c)]

\* Mutant: the message is read and not popped.
RawGet_Keeps == UNCHANGED pool

\* raw_get takes the last message of the first host.
Taken == pool[FirstKey][Len(pool[FirstKey])]
RawGet == pool' = [pool EXCEPT ![FirstKey] = SubSeq(@, 1, Len(@) - 1)]

\* Mutant: the thread is not told.
Awoken_Lost(t) == pc[t]

Awoken(t) == IF pc[t] = "asleep" THEN "lock" ELSE pc[t]

\* add, up to the end of its critical section.
Add(c) ==
    /\ c \notin added /\ \A t \in Threads : pc[t] # "dead"
    /\ pool_lock = NoThread
    /\ RawAdd(c) /\ added' = added \cup {c} /\ notify' = notify \cup {c}
    /\ UNCHANGED <<ioVars, pool_lock, connVars>>

\* add's notify_all.
NotifyAll(c) ==
    /\ c \in notify
    /\ notify' = notify \ {c} /\ pc' = [t \in Threads |-> Awoken(t)]
    /\ UNCHANGED <<kernelVars, bufferVars, ret, cur, evs, fd_num,
                   pool, pool_lock, added, connVars>>

\* A wait may end by itself; the predicate is then looked at again.
SpuriousWakeup(t) ==
    /\ pc[t] = "asleep"
    /\ Goto(t, "lock")
    /\ UNCHANGED <<kernelVars, bufferVars, ret, cur, evs, fd_num, clientVars>>
-----------------------------------------------------------------------------
(* Competing for the pool. *)

EnterPool(t) ==
    /\ pool_lock = NoThread
    /\ pool_lock' = t /\ got' = [got EXCEPT ![t] = 0] /\ Goto(t, "get")
    /\ UNCHANGED <<kernelVars, bufferVars, ret, cur, evs, fd_num, pool, notify, added,
                   syn_sent, init_message, conn, dest>>

\* A thread without connections: lock, and wait until the pool is not empty.
LockPool(t) ==
    /\ pc[t] = "lock" /\ fd_num[t] = 0 /\ ~PoolEmpty
    /\ EnterPool(t)

WaitForTarget(t) ==
    /\ pc[t] = "lock" /\ fd_num[t] = 0 /\ pool_lock = NoThread /\ PoolEmpty
    /\ Goto(t, "asleep")
    /\ UNCHANGED <<kernelVars, bufferVars, ret, cur, evs, fd_num, clientVars>>

\* The others look at the size without the lock, and try.
PeekPool(t) ==
    /\ pc[t] = "lock" /\ fd_num[t] > 0
    /\ Goto(t, IF PoolEmpty THEN "wait" ELSE "trylock")
    /\ UNCHANGED <<kernelVars, bufferVars, ret, cur, evs, fd_num, clientVars>>

TryLockPool(t) ==
    /\ pc[t] = "trylock"
    /\ EnterPool(t)

TryLockFails(t) ==
    /\ pc[t] = "trylock" /\ pool_lock # NoThread
    /\ Goto(t, "wait")
    /\ UNCHANGED <<kernelVars, bufferVars, ret, cur, evs, fd_num, clientVars>>

\* Mutant: the size that was read without the lock is trusted.
MoreToGet_Stale(t) == got[t] = 0 \/ (got[t] < Batch /\ ~PoolEmpty)

\* Mutant: one target too many.
MoreToGet_OffByOne(t) == got[t] <= Batch /\ ~PoolEmpty

MoreToGet(t) == got[t] < Batch /\ ~PoolEmpty

\* Mutant: the first message is inserted into the table, which keeps the entry of
\* the connection that used the number before.
GetFromPool_Inserts(t) ==
    /\ pc[t] = "get" /\ MoreToGet(t)
    /\ CountUp(t) /\ RawGet
    /\ \E fd \in FreeFds :
          /\ sock' = [sock EXCEPT ![fd] = Taken]
          /\ st' = [st EXCEPT ![Taken] = "pending"] /\ full' = full \cup {Taken}
          /\ owner' = [owner EXCEPT ![Taken] = t]
          /\ dest' = [dest EXCEPT ![Taken] = FirstHost]
          /\ init_message' = [init_message EXCEPT ![t][fd] =
                                IF @ = NoConn THEN Taken ELSE @]
          /\ cur' = [cur EXCEPT ![t] = fd]
    /\ got' = [got EXCEPT ![t] = @ + 1] /\ Goto(t, "syn")
    /\ UNCHANGED <<interest, peer, unread, bufferVars, ret, evs,
                   pool_lock, notify, added, syn_sent, conn>>

\* _get_from_pool: a target, and a socket that starts to connect to its host.
\* The thread's own table of first messages is written here already.
GetFromPool(t) ==
    /\ pc[t] = "get" /\ MoreToGet(t)
    /\ CountUp(t) /\ RawGet
    /\ \E fd \in FreeFds :
          /\ sock' = [sock EXCEPT ![fd] = Taken]
          /\ st' = [st EXCEPT ![Taken] = "pending"] /\ full' = full \cup {Taken}
          /\ owner' = [owner EXCEPT ![Taken] = t]
          /\ dest' = [dest EXCEPT ![Taken] = FirstHost]
          /\ init_message' = [init_message EXCEPT ![t][fd] = Taken]
          /\ cur' = [cur EXCEPT ![t] = fd]
    /\ got' = [got EXCEPT ![t] = @ + 1] /\ Goto(t, "syn")
    /\ UNCHANGED <<interest, peer, unread, bufferVars, ret, evs,
                   pool_lock, notify, added, syn_sent, conn>>

\* connectIp throws: no descriptor, or the connect fails at once.  The target
\* has left the pool; nothing catches the exception.
ConnectThrows(t) ==
    /\ pc[t] = "get" /\ MoreToGet(t)
    /\ ConnectMayFail \/ FreeFds = {}
    /\ CountUp(t) /\ RawGet /\ Terminate
    /\ UNCHANGED <<kernelVars, bufferVars, ret, cur, evs,
                   pool_lock, notify, added, connVars>>

\* epollRegister of the socket for EPOLLOUT.
RegisterSyn(t) ==
    LET fd == cur[t] IN
    /\ pc[t] = "syn"
    /\ \E failed \in AddFailure :
          IF AddOK(t, fd, failed)
          THEN /\ interest' = [interest EXCEPT ![t][fd] = "OUT"]
               /\ syn_sent' = [syn_sent EXCEPT ![t] = @ \cup {fd}]
               /\ Goto(t, "get")
          ELSE /\ Terminate
               /\ UNCHANGED <<interest, syn_sent>>
    /\ cur' = [cur EXCEPT ![t] = NoFd]
    /\ UNCHANGED <<sock, st, peer, unread, full, owner, bufferVars, ret, evs, fd_num,
                   poolVars, init_message, conn, got, dest>>

UnlockPool(t) ==
    /\ pc[t] = "get" /\ ~MoreToGet(t)
    /\ pool_lock' = NoThread /\ got' = [got EXCEPT ![t] = 0] /\ Goto(t, "wait")
    /\ UNCHANGED <<kernelVars, bufferVars, ret, cur, evs, fd_num,
                   pool, notify, added, syn_sent, init_message, conn, dest>>

EpollWait(t) ==
    /\ FetchEvents(t, ReadyEvents(t))
    /\ UNCHANGED clientVars
-----------------------------------------------------------------------------
(* The end of a connect. *)

\* SO_ERROR: no error is pending on the socket.
Established(fd) == st[sock[fd]] = "open" /\ peer[sock[fd]] # "rst"

\* What both ends of a connect begin with: epollRemove, erase from _syn_sent.
\* epollRemove throws, outside of any try, for what is no longer registered.
SynDone(t, e) ==
    /\ pc[t] = "events" /\ e \in evs[t] /\ e[1] \in syn_sent[t]
    /\ DropEvent(t, e) /\ syn_sent' = [syn_sent EXCEPT ![t] = @ \ {e[1]}]

\* Mutant: the socket is left to the callback.
OnConnectFailed_Leaks(fd) ==
    /\ interest' = [t \in Threads |-> [interest[t] EXCEPT ![fd] = "none"]]
    /\ UNCHANGED <<sock, st, peer, unread, full, owner>>

\* The callback, which does nothing here, and close.
OnConnectFailed(fd) == CloseFd(fd)

ConnectFailed(t) ==
    \E e \in evs[t] :
        /\ SynDone(t, e)
        /\ IF interest[t][e[1]] = "none"
           THEN Terminate /\ UNCHANGED kernelVars
           ELSE /\ ~Established(e[1]) /\ OnConnectFailed(e[1])
                /\ Goto(t, IF evs[t] = {e} THEN "loop" ELSE "events")
        /\ UNCHANGED <<bufferVars, ret, cur, fd_num, poolVars,
                       init_message, conn, got, dest>>

ConnectSucceeds(t) ==
    \E e \in evs[t] :
        /\ SynDone(t, e) /\ interest[t][e[1]] # "none" /\ Established(e[1])
        /\ interest' = [interest EXCEPT ![t][e[1]] = "none"]
        /\ createBuffer(t, e[1]) /\ conn' = [conn EXCEPT ![t] = e[1]]
        /\ Goto(t, "first")
        /\ UNCHANGED <<sock, st, peer, unread, full, owner, ret, cur, fd_num,
                       poolVars, init_message, got, dest>>

\* writeToBuffer(fd, _conn_init_message[fd]).
FirstWrite(t) ==
    LET fd == conn[t] IN
    /\ pc[t] = "first"
    /\ wbh' = [wbh EXCEPT ![t][fd] = @ \cup {init_message[t][fd]}]
    /\ cur' = [cur EXCEPT ![t] = fd] /\ ret' = [ret EXCEPT ![t] = "established"]
    /\ Goto(t, "write")
    /\ UNCHANGED <<kernelVars, keys, rbh, buffer_pool, evs, fd_num, clientVars>>

\* The onConnect callback, called whatever became of the first write.  An
\* exception, or a write to buffers that are gone, ends the process.
OnConnect(t) ==
    LET fd == conn[t] IN
    /\ pc[t] = "established"
    /\ ret' = [ret EXCEPT ![t] = "arm"]
    /\ \/ Goto(t, "arm") /\ UNCHANGED <<cur, wbh>>
       \/ /\ "onConnect" \in AppWrites
          /\ IF fd \in keys[t]
             THEN cur' = [cur EXCEPT ![t] = fd] /\ AppendAndWrite(t, fd)
             ELSE Terminate /\ UNCHANGED <<cur, wbh>>
       \/ /\ "onConnect" \in AppThrows
          /\ Terminate
          /\ UNCHANGED <<cur, wbh>>
    /\ UNCHANGED <<kernelVars, keys, rbh, buffer_pool, evs, fd_num, clientVars>>

\* epollRegister(_epfd, fd, EPOLLIN), outside of any try.
Arm(t) ==
    LET fd == conn[t] IN
    /\ pc[t] = "arm"
    /\ \E failed \in AddFailure :
          IF AddOK(t, fd, failed)
          THEN /\ interest' = [interest EXCEPT ![t][fd] = "IN"]
               /\ Goto(t, IF evs[t] = {} THEN "loop" ELSE "events")
          ELSE Terminate /\ UNCHANGED interest
    /\ conn' = [conn EXCEPT ![t] = NoFd] /\ ret' = [ret EXCEPT ![t] = "events"]
    /\ UNCHANGED <<sock, st, peer, unread, full, owner, bufferVars, cur, evs, fd_num,
                   poolVars, syn_sent, init_message, got, dest>>
-----------------------------------------------------------------------------
(* The base class, for descriptors that are not in _syn_sent; without      *)
(* EarlyLoss the first writes fit into the empty send buffer.              *)
ServeStep(t) ==
    /\ IOStep(t)
    /\ pc[t] = "events" => cur'[t] \notin syn_sent[t]
    /\ ~EarlyLoss /\ ret[t] \in {"established", "arm"} => full' = full
    /\ UNCHANGED clientVars

ClientStep(t) ==
    \/ ServeStep(t)
    \/ LockPool(t)
    \/ WaitForTarget(t)
    \/ PeekPool(t)
    \/ TryLockPool(t)
    \/ TryLockFails(t)
    \/ GetFromPool(t)
    \/ ConnectThrows(t)
    \/ RegisterSyn(t)
    \/ UnlockPool(t)
    \/ EpollWait(t)
    \/ ConnectFailed(t)
    \/ ConnectSucceeds(t)
    \/ FirstWrite(t)
    \/ OnConnect(t)
    \/ Arm(t)

\* The host accepts the connection.
HostAccepts(c) ==
    /\ st[c] = "pending" /\ peer[c] = "up"
    /\ st' = [st EXCEPT ![c] = "open"] /\ full' = full \ {c}
    /\ UNCHANGED <<sock, interest, peer, unread, owner, bufferVars, controlVars, clientVars>>

\* Is the connection registered with some thread, besides for its connect?
Registered(c) ==
    \E t \in Threads, fd \in Fds :
        sock[fd] = c /\ interest[t][fd] # "none" /\ fd \notin syn_sent[t]

\* The hosts, once they have accepted; PeerResets in the pending state is a
\* refusal or a timeout of the connect.
HostStep(c) ==
    \/ HostAccepts(c)
    \/ /\ PeerSends(c) \/ PeerReads(c) \/ PeerCloses(c)
       /\ st[c] = "open"
       /\ EarlyLoss \/ Registered(c)
       /\ UNCHANGED clientVars
    \/ /\ PeerResets(c)
       /\ EarlyLoss \/ Registered(c) \/ st[c] = "pending"
       /\ UNCHANGED clientVars

Terminated == (\A t \in Threads : pc[t] = "dead") /\ UNCHANGED vars

Next ==
    \/ \E t \in Threads : ClientStep(t) \/ SpuriousWakeup(t)
    \/ \E c \in Conns : Add(c) \/ NotifyAll(c) \/ HostStep(c)
    \/ Terminated

Spec == Init /\ [][Next]_vars

\* Every IO thread that can take a step is eventually scheduled, and so is an
\* application thread in the middle of add.
FairSpec ==
    /\ Spec
    /\ \A t \in Threads : WF_vars(ClientStep(t))
    /\ \A c \in Conns : WF_vars(NotifyAll(c))
-----------------------------------------------------------------------------
Dead == \A t \in Threads : pc[t] = "dead"

\* A thread is connecting over fd, or has just established its connection.
Connecting(t, fd) ==
    \/ fd \in syn_sent[t]
    \/ pc[t] = "syn" /\ cur[t] = fd

(* README.md: "One connected socket handled only by one thread."  Every    *)
(* socket belongs to the thread that took its target: there it is either   *)
(* being connected or has buffers, never both, and no other thread has it  *)
(* in its tables or in its epoll instance (IOHandler.h:234-245, 271-291).  *)
OneThreadPerSocket ==
    Dead \/ \A fd \in Fds, t \in Threads :
        /\ Connected(fd) /\ owner[sock[fd]] = t <=> fd \in keys[t] \/ Connecting(t, fd)
        /\ ~(fd \in keys[t] /\ Connecting(t, fd))
        /\ interest[t][fd] # "none" => fd \in keys[t] \cup syn_sent[t]

(* The pool is identified by a tuple (ip, port, init_message) (examples/   *)
(* quick_start/README.md:93).  A connection goes to the host its message   *)
(* was added for, or to one that _HostCompare takes for the same; the      *)
(* message queued first is its own, no matter who used the descriptor      *)
(* before; and what else its recycled buffers hold is left over from       *)
(* closed connections, never taken from one that is still open             *)
(* (TPSharedData.h:47-83, IOHandler.h:93-113, 238-243, 285).               *)
OwnMessageToOwnHost ==
    Dead \/ /\ \A c \in Conns :
                  dest[c] # NoHost => HostKey(dest[c]) = HostKey(HostOf[c])
            /\ \A t \in Threads :
                  /\ pc[t] = "first" => init_message[t][conn[t]] = sock[conn[t]]
                  /\ \A fd \in keys[t] :
                        rbh[t][fd] \cup wbh[t][fd] \subseteq {sock[fd]} \cup Closed

(* Every target that was added is in the pool, once, or has been taken by  *)
(* one thread, never both: competing threads neither lose nor repeat one   *)
(* (TPSharedData.h:61-83, IOHandler.h:235-238, 254-265).                   *)
TargetOnce ==
    \A c \in Conns :
        LET places == {p \in Keys \X (1..Len(pool[HostKey(HostOf[c])])) :
                         p[2] <= Len(pool[p[1]]) /\ pool[p[1]][p[2]] = c}
        IN  \/ places = {} /\ (c \in added => st[c] # "idle" \/ Dead)
            \/ (\E p \in places : places = {p}) /\ c \in added /\ st[c] = "idle"

(* The assertions of _run and raw_get hold, although the size of the pool  *)
(* is read without its lock: whoever takes a target finds one, and whoever *)
(* waits for events has had one (IOHandler.h:236-238, 260-266,             *)
(* TPSharedData.h:75).                                                     *)
AssertsHold ==
    \A t \in Threads :
        /\ pc[t] = "wait" => fd_num[t] > 0
        /\ pc[t] = "get" /\ MoreToGet(t) => ~PoolEmpty /\ pool_lock = t

(* No event is processed for a descriptor that was closed, re-used or re-  *)
(* registered since epoll_wait returned it: the thread has the buffers it  *)
(* dereferences, or is waiting for the connect (IOHandler.h:269-275).      *)
NoStaleEvent ==
    Dead \/ \A t \in Threads :
        /\ \A e \in evs[t] : /\ e[1] \in keys[t] \cup syn_sent[t]
                             /\ interest[t][e[1]] = e[2]
        /\ pc[t] \in HandlerPc => cur[t] \in keys[t]

(* A target that was added is eventually tried, although it may be added   *)
(* while every thread goes to sleep or serves others.                      *)
TargetIsTried ==
    \A c \in Conns : c \in added ~> st[c] # "idle" \/ Dead

(* A connect that has succeeded or failed is eventually noticed: the       *)
(* socket is served or closed.                                             *)
ConnectEnds ==
    \A c \in Conns :
        st[c] = "open" \/ (st[c] = "pending" /\ peer[c] = "rst") ~>
            \/ st[c] = "closed"
            \/ Registered(c)
            \/ Dead
=============================================================================
