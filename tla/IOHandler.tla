------------------------------ MODULE IOHandler ------------------------------
(***************************************************************************)
(* The base class of kingpin's IO threads (include/kingpin/IOHandler.h):   *)
(* the read and write buffers of the connections a thread serves, the      *)
(* buffer pool, the dispatch of epoll events, and the callbacks around     *)
(* reading, writing and cleaning up a connection.  The threads of a pool   *)
(* share the process's descriptor table, so a descriptor that one thread   *)
(* closes may be handed to another thread by the very next accept4.        *)
(*                                                                         *)
(* One step of a thread is one system call together with the thread-local  *)
(* work up to the next one.  A buffer is abstracted to the set of          *)
(* connections whose bytes it still holds: {} is an empty buffer           *)
(* (_start = _offset).  The application's overrides of the callbacks are   *)
(* nondeterministic within what the App* constants allow.                  *)
(***************************************************************************)
EXTENDS Naturals, Sequences

CONSTANTS
    Threads,      \* the IO threads of the pool
    Conns,        \* connections (the peers' identities), each used once
    Fds,          \* descriptor numbers the kernel can hand out
    ListenFd,     \* _tsd->_listenfd
    NoThread, NoConn, NoFd,
    AppWrites,    \* callbacks in which the application calls writeToBuffer
    AppThrows,    \* callbacks that may throw, before they append anything
    AppCloses,    \* callbacks in which the application may itself ::close(conn)
    EpollMayFail, \* may EPOLL_CTL_ADD fail for lack of kernel resources?
    Senders       \* bound: the connections whose peers send

ASSUME SentinelAssumption ==
    /\ NoThread \notin Threads /\ NoConn \notin Conns /\ NoFd \notin Fds
    /\ ListenFd \notin Fds

ASSUME AppAssumption ==
    /\ AppWrites \subseteq {"onEpollLoop", "onConnect", "onMessage"}
    /\ AppThrows \subseteq {"onConnect", "onMessage"}
    /\ AppCloses \subseteq {"onWriteComplete", "onPassivelyClosed"}
    /\ EpollMayFail \in BOOLEAN

VARIABLES
    \* The kernel.
    sock,         \* the connection behind each descriptor, NoConn when it is free
    interest,     \* per thread, the event each descriptor is registered for in _epfd
    st,           \* "idle", "pending" (in the accept queue), "open", "closed"
    peer,         \* the other end: "up", "fin" (closed), "rst" (reset, crashed)
    unread,       \* connections with received bytes nobody has read
    full,         \* connections whose send buffer is full
    \* The IO threads.
    pc,           \* the next step of each thread, "dead" after a crash of the process
    ret,          \* where the handler in progress returns to
    cur,          \* the descriptor the handler in progress is about
    evs,          \* _evs: events fetched by epoll_wait and not processed yet
    fd_num,       \* _fd_num, 1 standing for every positive value
    keys,         \* the descriptors that are keys of _rbh and _wbh
    rbh, wbh,     \* _rbh and _wbh: the content of the two buffers of a descriptor
    buffer_pool,  \* _buffer_pool
    owner         \* history: the thread that accepted an open connection

kernelVars == <<sock, interest, st, peer, unread, full, owner>>
bufferVars == <<keys, rbh, wbh, buffer_pool>>
controlVars == <<pc, ret, cur, evs, fd_num>>
ioVars == <<kernelVars, bufferVars, controlVars>>

Event == (Fds \cup {ListenFd}) \X {"IN", "OUT"}
HandlerPc == {"register", "connect", "read", "message", "write", "flush",
              "rearm", "clean", "destroy"}

\* What a buffer can hold: bytes of connections, NoConn standing for bytes that
\* the application appended for a descriptor that was no longer open.
Content == SUBSET (Conns \cup {NoConn})

\* pcs and rets: the steps, and the places to return to, of the _run at hand.
IOTypeOK(pcs, rets) ==
    /\ sock \in [Fds -> Conns \cup {NoConn}]
    /\ interest \in [Threads -> [Fds -> {"none", "IN", "OUT"}]]
    /\ st \in [Conns -> {"idle", "pending", "open", "closed"}]
    /\ peer \in [Conns -> {"up", "fin", "rst"}] /\ unread \in SUBSET Conns
    /\ full \in SUBSET Conns /\ owner \in [Conns -> Threads \cup {NoThread}]
    /\ pc \in [Threads -> pcs] /\ ret \in [Threads -> rets]
    /\ cur \in [Threads -> Fds \cup {NoFd}] /\ evs \in [Threads -> SUBSET Event]
    /\ fd_num \in [Threads -> {0, 1}] /\ keys \in [Threads -> SUBSET Fds]
    /\ rbh \in [Threads -> [Fds -> Content]]
    /\ wbh \in [Threads -> [Fds -> Content]]
    /\ buffer_pool \in [Threads -> Seq(Content)]

IOInit ==
    /\ sock = [fd \in Fds |-> NoConn]
    /\ interest = [t \in Threads |-> [fd \in Fds |-> "none"]]
    /\ st = [c \in Conns |-> "idle"] /\ peer = [c \in Conns |-> "up"]
    /\ unread = {} /\ full = {} /\ owner = [c \in Conns |-> NoThread]
    /\ pc = [t \in Threads |-> "loop"] /\ ret = [t \in Threads |-> "lock"]
    /\ cur = [t \in Threads |-> NoFd] /\ evs = [t \in Threads |-> {}]
    /\ fd_num = [t \in Threads |-> 0] /\ keys = [t \in Threads |-> {}]
    /\ rbh = [t \in Threads |-> [fd \in Fds |-> {}]]
    /\ wbh = [t \in Threads |-> [fd \in Fds |-> {}]]
    /\ buffer_pool = [t \in Threads |-> <<>>]
-----------------------------------------------------------------------------
(* The kernel calls, as the code uses them. *)

Connected(fd) == sock[fd] # NoConn

Closed == {c \in Conns : st[c] = "closed"}

FreeFds == {fd \in Fds : ~Connected(fd)}

\* epoll_ctl(EPOLL_CTL_ADD) succeeds only for an open descriptor that is not
\* registered yet (EBADF, EEXIST); failed: ENOMEM or ENOSPC.
AddOK(t, fd, failed) == Connected(fd) /\ interest[t][fd] = "none" /\ ~failed

AddFailure == IF EpollMayFail THEN BOOLEAN ELSE {FALSE}

\* ::close: frees the number and takes it out of every epoll set; the connection
\* is gone for the peer as well.  Closing a free number only returns EBADF, which
\* the code ignores.
CloseFd(fd) ==
    /\ sock' = [sock EXCEPT ![fd] = NoConn]
    /\ interest' = [u \in Threads |-> [interest[u] EXCEPT ![fd] = "none"]]
    /\ st' = [c \in Conns |-> IF c = sock[fd] THEN "closed" ELSE st[c]]
    /\ owner' = [c \in Conns |-> IF c = sock[fd] THEN NoThread ELSE owner[c]]
    /\ unread' = unread \ {sock[fd]} /\ full' = full \ {sock[fd]}
    /\ peer' = [c \in Conns |-> IF c = sock[fd] THEN "rst" ELSE peer[c]]

\* Level-triggered readiness; a reset makes a socket readable and writable.
Readable(fd) == sock[fd] \in unread \/ peer[sock[fd]] # "up"
Writable(fd) == sock[fd] \notin full \/ peer[sock[fd]] = "rst"

ReadyEvents(t) ==
    {<<fd, "IN">> : fd \in {f \in Fds : interest[t][f] = "IN" /\ Readable(f)}}
      \cup
    {<<fd, "OUT">> : fd \in {f \in Fds : interest[t][f] = "OUT" /\ Writable(f)}}
-----------------------------------------------------------------------------
(* Control: the thread goes on with step l; or the handler in progress     *)
(* returns to the loop that called it.                                     *)

Goto(t, l) == pc' = [pc EXCEPT ![t] = l]

\* An exception that leaves a thread's _run ends the process, with every thread.
Terminate == pc' = [u \in Threads |-> "dead"]

NextAfter(t) ==
    IF ret[t] = "events" /\ evs[t] = {} THEN "loop" ELSE ret[t]

Finish(t) ==
    /\ Goto(t, NextAfter(t)) /\ cur' = [cur EXCEPT ![t] = NoFd]

\* Mutant: the counter that tells a serving thread from an idle one stays.
CountUp_Forgets(t) == UNCHANGED fd_num

\* ++_fd_num
CountUp(t) == fd_num' = [fd_num EXCEPT ![t] = 1]

createBuffer(t, fd) ==
    LET pool == buffer_pool[t]
        n == Len(pool)
        fresh == n < 2
    IN  /\ keys' = [keys EXCEPT ![t] = @ \cup {fd}]
        /\ rbh' = [rbh EXCEPT ![t][fd] = IF fresh THEN {} ELSE pool[n]]
        /\ wbh' = [wbh EXCEPT ![t][fd] = IF fresh THEN {} ELSE pool[n - 1]]
        /\ buffer_pool' = [buffer_pool EXCEPT ![t] =
                              IF fresh THEN @ ELSE SubSeq(@, 1, n - 2)]

\* Mutant: the entries are put back into the pool but not erased.
destoryBuffer_NoErase(t, fd) ==
    /\ buffer_pool' = [buffer_pool EXCEPT ![t] = @ \o <<rbh[t][fd], wbh[t][fd]>>]
    /\ UNCHANGED <<keys, rbh, wbh>>

destoryBuffer(t, fd) ==
    /\ buffer_pool' = [buffer_pool EXCEPT ![t] = @ \o <<rbh[t][fd], wbh[t][fd]>>]
    /\ keys' = [keys EXCEPT ![t] = @ \ {fd}]
    /\ rbh' = [rbh EXCEPT ![t][fd] = {}] /\ wbh' = [wbh EXCEPT ![t][fd] = {}]

\* Mutant: the connection is closed around the callback, and by onClean again.
AppMayClose_Always(callback, fd) == CloseFd(fd)

\* What a callback may do to its connection besides writing.
AppMayClose(callback, fd) ==
    \/ callback \in AppCloses /\ CloseFd(fd)
    \/ UNCHANGED kernelVars

\* writeToBuffer(conn, str): the application appends bytes for the connection
\* in hand and calls writeToBuffer(conn).
AppendAndWrite(t, fd) ==
    /\ wbh' = [wbh EXCEPT ![t][fd] = @ \cup {sock[fd]}] /\ Goto(t, "write")
-----------------------------------------------------------------------------
(* The loop's first statement: the onEpollLoop callback.  It runs before   *)
(* the thread looks for new work and may write to a connection it serves.  *)

OnEpollLoop(t) ==
    /\ pc[t] = "loop"
    /\ ret' = [ret EXCEPT ![t] = "lock"]
    /\ \/ /\ Goto(t, "lock")
          /\ UNCHANGED <<cur, wbh>>
       \/ /\ "onEpollLoop" \in AppWrites
          /\ \E fd \in keys[t] : /\ cur' = [cur EXCEPT ![t] = fd]
                                 /\ AppendAndWrite(t, fd)
    /\ UNCHANGED <<kernelVars, keys, rbh, buffer_pool, evs, fd_num>>

\* epoll_wait, which has put the ready events into _evs; none when it timed out.
FetchEvents(t, ready) ==
    /\ pc[t] = "wait"
    /\ evs' = [evs EXCEPT ![t] = ready] /\ ret' = [ret EXCEPT ![t] = "events"]
    /\ Goto(t, IF ready = {} THEN "loop" ELSE "events")
    /\ UNCHANGED <<kernelVars, bufferVars, cur, fd_num>>

\* Mutant: an event of a connection is dispatched and not dropped.
DropEvent_Keeps(t, e) ==
    evs' = [evs EXCEPT ![t] = IF e[1] = ListenFd THEN @ \ {e} ELSE @]

DropEvent(t, e) == evs' = [evs EXCEPT ![t] = @ \ {e}]

\* processEvent for a connection; the listening socket is the server's.  Without
\* an entry operator[] makes a null pointer, which the handler dereferences.
ProcessEvent(t) ==
    /\ pc[t] = "events"
    /\ \E e \in evs[t] :
          /\ e[1] \in Fds
          /\ DropEvent(t, e) /\ cur' = [cur EXCEPT ![t] = e[1]]
          /\ IF e[1] \in keys[t]
             THEN Goto(t, IF e[2] = "IN" THEN "read" ELSE "flush")
             ELSE Terminate
    /\ UNCHANGED <<kernelVars, bufferVars, ret, fd_num>>

\* readNioToBufferTillBlock throws at the end of the stream, on a reset and on
\* a descriptor that is not open.
\* Mutant: end of file is taken for "no more data".
ReadThrows_NoEOF(fd) == Connected(fd) => peer[sock[fd]] = "rst"

ReadThrows(fd) == Connected(fd) => peer[sock[fd]] # "up"

\* onReadable, up to the call of onMessage: the bytes read before an exception
\* stay in the read buffer.
OnReadable(t) ==
    LET fd == cur[t] IN
    /\ pc[t] = "read"
    /\ rbh' = [rbh EXCEPT ![t][fd] = @ \cup ({sock[fd]} \cap unread)]
    /\ unread' = unread \ {sock[fd]}
    /\ Goto(t, IF ReadThrows(fd) THEN "clean" ELSE "message")
    /\ UNCHANGED <<sock, interest, st, peer, full, owner,
                   keys, wbh, buffer_pool, ret, cur, evs, fd_num>>

\* The onMessage callback: the application consumes the message or waits for
\* the rest of it, may answer, and may throw (caught by onReadable).
OnMessage(t) ==
    LET fd == cur[t] IN
    /\ pc[t] = "message"
    /\ \E consumed \in BOOLEAN :
          rbh' = [rbh EXCEPT ![t][fd] = IF consumed THEN {} ELSE @]
    /\ \/ Finish(t) /\ UNCHANGED wbh
       \/ /\ "onMessage" \in AppWrites
          /\ AppendAndWrite(t, fd)
          /\ UNCHANGED cur
       \/ /\ "onMessage" \in AppThrows
          /\ Goto(t, "clean")
          /\ UNCHANGED <<cur, wbh>>
    /\ UNCHANGED <<kernelVars, keys, buffer_pool, ret, evs, fd_num>>
-----------------------------------------------------------------------------
(* writeNioFromBufferTillBlock has three outcomes, for writeToBuffer       *)
(* (pc "write") and for onWritable (pc "flush").                           *)

\* writeNioFromBuffer may throw: EPIPE, ECONNRESET, EBADF.  A peer that has
\* closed may still take the first write.
WriteThrows(fd) == Connected(fd) => peer[sock[fd]] # "up"

\* writeNioFromBufferTillBlock may write everything; it makes no system call
\* when there is nothing to write.
WritesAll(t, fd) ==
    \/ wbh[t][fd] = {}
    \/ Connected(fd) /\ sock[fd] \notin full /\ peer[sock[fd]] # "rst"

\* The exception is caught by the caller, which cleans up.
WriteFails(t) ==
    LET fd == cur[t] IN
    /\ pc[t] \in {"write", "flush"} /\ wbh[t][fd] # {} /\ WriteThrows(fd)
    /\ Goto(t, "clean")
    /\ UNCHANGED <<kernelVars, bufferVars, ret, cur, evs, fd_num>>

\* The buffer is cleared and onWriteComplete called, in which the application
\* may close.
WriteCompletes(t) ==
    LET fd == cur[t] IN
    /\ pc[t] \in {"write", "flush"} /\ WritesAll(t, fd)
    /\ wbh' = [wbh EXCEPT ![t][fd] = {}] /\ AppMayClose("onWriteComplete", fd)
    /\ IF pc[t] = "flush"
       THEN Goto(t, "rearm") /\ UNCHANGED cur
       ELSE Finish(t)
    /\ UNCHANGED <<keys, rbh, buffer_pool, ret, evs, fd_num>>

\* Mutant: the outcome of the two epoll_ctl calls is not looked at.
WriteBlocks_Unchecked(t) ==
    LET fd == cur[t] IN
    /\ pc[t] \in {"write", "flush"} /\ Connected(fd) /\ peer[sock[fd]] # "rst"
    /\ wbh[t][fd] # {} /\ full' = full \cup {sock[fd]} /\ Finish(t)
    /\ \E failed \in AddFailure :
          interest' = [interest EXCEPT ![t][fd] =
                         IF pc[t] = "flush" THEN @ ELSE IF failed THEN "none" ELSE "OUT"]
    /\ UNCHANGED <<sock, st, peer, unread, owner, bufferVars, ret, evs, fd_num>>

\* The send buffer fills up with some bytes left; a peer that has closed may not
\* have answered with a reset yet.  writeToBuffer then takes the descriptor out
\* of epoll and adds it for EPOLLOUT; either call may throw.  onWritable leaves
\* the registration as it is.
WriteBlocks(t) ==
    LET fd == cur[t] IN
    /\ pc[t] \in {"write", "flush"} /\ Connected(fd) /\ peer[sock[fd]] # "rst"
    /\ \E rest \in SUBSET wbh[t][fd] :
          /\ rest # {}
          /\ sock[fd] \in full => rest = wbh[t][fd]
          /\ wbh' = [wbh EXCEPT ![t][fd] = rest]
    /\ full' = full \cup {sock[fd]}
    /\ IF pc[t] = "flush"
       THEN Finish(t) /\ UNCHANGED interest
       ELSE \E failed \in AddFailure :
              LET removed == interest[t][fd] # "none"
                  added == removed /\ ~failed
              IN /\ interest' = [interest EXCEPT ![t][fd] =
                                   IF added THEN "OUT" ELSE "none"]
                 /\ IF added
                    THEN Finish(t)
                    ELSE Goto(t, "clean") /\ UNCHANGED cur
    /\ UNCHANGED <<sock, st, peer, unread, owner,
                   keys, rbh, buffer_pool, ret, evs, fd_num>>

\* onWritable after a completed write: epollRegister(_epfd, conn, EPOLLIN).
\* The descriptor is still registered for EPOLLOUT, so epoll_ctl returns EEXIST
\* and the exception ends in onClean; after an application's close it is EBADF,
\* unless another thread has been given the number meanwhile.
Rearm(t) ==
    LET fd == cur[t] IN
    /\ pc[t] = "rearm"
    /\ \E failed \in AddFailure :
          IF AddOK(t, fd, failed)
          THEN /\ interest' = [interest EXCEPT ![t][fd] = "IN"]
               /\ Finish(t)
          ELSE /\ Goto(t, "clean")
               /\ UNCHANGED <<interest, cur>>
    /\ UNCHANGED <<sock, st, peer, unread, full, owner,
                   bufferVars, ret, evs, fd_num>>
-----------------------------------------------------------------------------
(* onClean: the onPassivelyClosed callback, then destoryBuffer and close.  *)

\* The library clears no buffer here.  An override may clear either of the two,
\* or leave them as they are.
OnPassivelyClosed(t) ==
    LET fd == cur[t] IN
    /\ pc[t] = "clean"
    /\ \E r \in {{}, rbh[t][fd]}, w \in {{}, wbh[t][fd]} :
          /\ rbh' = [rbh EXCEPT ![t][fd] = r]
          /\ wbh' = [wbh EXCEPT ![t][fd] = w]
    /\ AppMayClose("onPassivelyClosed", fd) /\ Goto(t, "destroy")
    /\ UNCHANGED <<keys, buffer_pool, ret, cur, evs, fd_num>>

\* Mutant: a connection that is closed is counted down.
DestroyAndClose_CountsDown(t) ==
    /\ pc[t] = "destroy"
    /\ destoryBuffer(t, cur[t]) /\ CloseFd(cur[t]) /\ Finish(t)
    /\ fd_num' = [fd_num EXCEPT ![t] = @ - 1]
    /\ UNCHANGED <<ret, evs>>

\* Mutant: onClean gives the buffers back and leaves closing to the callback.
DestroyAndClose_NoClose(t) ==
    /\ pc[t] = "destroy"
    /\ destoryBuffer(t, cur[t]) /\ Finish(t)
    /\ UNCHANGED <<kernelVars, ret, evs, fd_num>>

DestroyAndClose(t) ==
    /\ pc[t] = "destroy"
    /\ destoryBuffer(t, cur[t]) /\ CloseFd(cur[t]) /\ Finish(t)
    /\ UNCHANGED <<ret, evs, fd_num>>

IOStep(t) ==
    \/ OnEpollLoop(t)
    \/ ProcessEvent(t)
    \/ OnReadable(t)
    \/ OnMessage(t)
    \/ WriteFails(t)
    \/ WriteCompletes(t)
    \/ WriteBlocks(t)
    \/ Rearm(t)
    \/ OnPassivelyClosed(t)
    \/ DestroyAndClose(t)
-----------------------------------------------------------------------------
(* The peers. *)

Reachable(c) == st[c] \in {"pending", "open"}

PeerSends(c) ==
    /\ Reachable(c) /\ peer[c] = "up" /\ c \in Senders
    /\ unread' = unread \cup {c}
    /\ UNCHANGED <<sock, interest, st, peer, full, owner, bufferVars, controlVars>>

PeerReads(c) ==
    /\ Reachable(c) /\ peer[c] = "up"
    /\ full' = full \ {c}
    /\ UNCHANGED <<sock, interest, st, peer, unread, owner, bufferVars, controlVars>>

\* A close with unread data in the peer's receive buffer sends a reset, so an
\* orderly close implies that our send buffer has room.
PeerCloses(c) ==
    /\ Reachable(c) /\ peer[c] = "up" /\ c \notin full
    /\ peer' = [peer EXCEPT ![c] = "fin"]
    /\ UNCHANGED <<sock, interest, st, unread, full, owner, bufferVars, controlVars>>

PeerResets(c) ==
    /\ Reachable(c) /\ peer[c] # "rst"
    /\ peer' = [peer EXCEPT ![c] = "rst"]
    /\ UNCHANGED <<sock, interest, st, unread, full, owner, bufferVars, controlVars>>

\* The kernel of a peer that has closed answers what it is still sent.
ClosedPeerResets(c) == peer[c] = "fin" /\ c \in full /\ PeerResets(c)

PeerStep(c) == PeerSends(c) \/ PeerReads(c) \/ PeerCloses(c) \/ PeerResets(c)
=============================================================================
