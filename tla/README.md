# A TLA+ development for kingpin

kingpin is a C++ network library: pools of IO threads, each with an epoll
instance of its own, that compete for a listening socket (servers) or for a pool
of targets (clients); an asynchronous logger that every part of it uses; and
small wrappers (buffers, locks, a call with a timeout). This directory models
these parts in TLA+, checks them with TLC on small instances, and proves the main
invariants and refinements with TLAPS for instances of every size.

- [Inventory](#inventory)
- [Modules](#modules)
- [Runs](#runs)
- [Fairness](#fairness)
- [Proofs](#proofs)
- [What the runs found](#what-the-runs-found)
- [Not modelled](#not-modelled)
- [Plan](#plan)

Line numbers refer to `src/`. `PROJECT.json` holds the map from every definition
to the lines it models, the list of hazards, and one mutant per property.

## Inventory

| Component | State | Operations | What is hard | What makes it correct |
|---|---|---|---|---|
| `IOHandler` (IOHandler.h) | `_rbh`, `_wbh`, `_buffer_pool`, `_epfd`, `_evs`, `_fd_num`, per thread | `createBuffer`, `destoryBuffer`, `writeToBuffer`, `onReadable`, `onWritable`, `onClean`, `processEvent`, five callbacks | descriptor numbers are shared by all threads and re-used at once; events are stale by the time they are processed; a write may be deferred; a peer may go away anywhere | a connection is served, registered and closed by its own thread only, and stays registered while it is open; the bytes of an open connection are in its own buffers only |
| `IOHandlerForServer`, `TPSharedDataForServer`, `EpollTP*` | `_listenfd_lock`, `_listenfd`, the batch | `_run`, `_remove_listen` | the hand-over of the listening socket; `lock` for some threads, `try_lock` for others; exceptions that leave the thread | one thread at a time accepts; every client is accepted; a serving thread does not block |
| `IOHandlerForClient`, `TPSharedDataForClient` | `_pool`, `_pool_lock`, `_cv`, `_syn_sent`, `_conn_init_message` | `add`, `raw_get`, `_get_from_pool`, `_run` | unlocked read of the pool; a notification after the unlock; tables keyed by re-used numbers; a first write that closes the connection | every target is tried, once, by one thread, with its own message to its own host |
| `AsyncLogger` | `_t_buffers` (buffer, lock, count, time per thread), `_map_lock`, `_thr_cv`, `_stop` | `operator<<` (text, END), `_init_buffer`, `_run`, destructor | threads, backend and destructor interleave at every lock; entries expire; a notification may come before the wait | whole lines, each once, all of them before exit, each of them some day |
| `RWLock`, guards, `RecursiveLock` (Mutex.h) | `pthread_rwlock_t`, `_wr_owner` | `rd_lock`, `wr_lock`, `unlock` | `_wr_owner` is used outside the lock | the assertion holds; only a writer is refused |
| `Buffer` | `_start`, `_offset`, `_cap`, the block | read and write loops, `resize`, `clear`, `stripEnd`, `endsWith`, search for an end | reads and writes are cut anywhere; a terminator is cut by two reads; the block moves | a queue of bytes within the block |
| `Context`, `ThrWithCtx` | a pipe, an epoll instance, a thread | `done`, `wait`, `run` | the timeout races with completion; both sides close one number, which others may have been given meanwhile | true means finished; the thread does not outlive the frame |
| `Utils` | none | `epollRegister`, `epollRemove`, sockets, `split`, ... | error paths | |
| examples | `_match`, `_single`, `_message` in the chess server | the callbacks | they close descriptors in callbacks | |

How they interact: an IO thread calls its own callbacks, which the application
overrides; threads share the descriptor table of the process, the lock of the
listening socket or of the pool, and nothing else; every thread logs through `INFO`
and `ERROR`, whose backend threads share the map of entries with them under an
`RWLock`; an IO thread has two `Buffer`s per connection and keeps unused ones.

## Modules

| Module | Models |
|---|---|
| `IOHandler` | the base class: kernel calls as the code uses them, buffers, dispatch, read, write, clean-up, and the peers |
| `IOHandlerServer` | extends it by the server's loop; composes the threads of the pool and the clients; properties |
| `IOHandlerClient` | extends it by the client's loop and the pool of targets; composes threads, application and hosts; properties |
| `Buffer` | the block, its indices, and every member function; properties |
| `ByteQueue` | what a buffer promises: a queue of bytes. `Buffer` implements it |
| `Context` | calls of `ThrWithCtx::run` over one descriptor table; properties |
| `AsyncLogger` | logging threads, backend thread, destructor; properties |
| `LineLog` | what a logger promises: whole lines, in order. `AsyncLogger` implements it |
| `RWLock` | the lock with its note of the writer; properties |
| `MCServer`, `MCClient`, `MCBuffer`, `MCContext`, `MCLogger`, `MCRWLock` | model values, definitions of constants and symmetry for the runs |
| `IOHandlerProofs`, `IOHandlerServerProofs`, `OneThreadProofs`, `IOHandlerClientProofs`, `BufferProofs`, `ContextProofs`, `AsyncLoggerProofs`, `RWLockProofs` | theorems |

### IOHandler, IOHandlerServer and IOHandlerClient

A step is one system call and the thread-local work up to the next one: that is
the granularity at which threads see each other, because what they share are the
kernel's tables and a lock. `pc[t]` is the next step of thread `t`, `cur[t]` the
descriptor its handler is about and `ret[t]` the loop the handler returns to
(`"lock"` after `onEpollLoop`, `"events"`, `"accept"` in a server, `"established"`
and `"arm"` in a client).

| `pc` | Code |
|---|---|
| `loop` | `onEpollLoop` (253, 336) |
| `lock`, `listen` | server: `lock`/`try_lock` (338-344), `epollRegister` of the listening socket (348) |
| `lock`, `asleep`, `trylock` | client: lock and wait (254-257), the look at the size (260), `try_lock` (261) |
| `get`, `syn` | client: `_get_from_pool` (235-239), its `epollRegister` (241) |
| `wait`, `events` | `epoll_wait` (267, 351), the loop over `_evs` (269, 353) |
| `accept`, `register`, `connect`, `unlock` | server: the batch (358-375), `_remove_listen` (326-330) |
| `first`, `established`, `arm` | client: the first write (285), `onConnect` (286), `epollRegister` (287) |
| `read`, `message` | `onReadable` (174), `onMessage` (175) |
| `write`, `flush` | `writeNioFromBufferTillBlock` in `writeToBuffer` (131) and `onWritable` (157) |
| `rearm` | `epollRegister` at 161 |
| `clean`, `destroy` | `onPassivelyClosed` (117), `destoryBuffer` and `close` (118-119, 372-373) |
| `dead` | an exception left `_run`: the process has ended |

The kernel is `sock` (which connection a number stands for), `interest` (the
registrations of each epoll instance), `st`, `peer`, `unread`, `full`. A
connection is used once; a number is re-used as soon as it is free. `accept4` and
`socket` may return any free number, not only the lowest: other parts of the process
open and close descriptors as well. `CloseFd` frees the number, takes it out of every
epoll instance and ends the connection for the peer, which takes no part in it from
then on.

A buffer is the set of connections whose bytes it holds. This is what the
properties of the threads tell apart: empty or not, and whose bytes; what happens
to the bytes is `Buffer`'s. `_buffer_pool` is a sequence because the order in which
it gives buffers back matters. An event for a descriptor without entries makes
`operator[]` create null pointers, which the handler dereferences: the process ends
(`ProcessEvent`). So `destoryBuffer` is only reached for a descriptor with entries,
whatever the callbacks close.

The application is nondeterministic. `AppWrites` names the callbacks in which it may
call `writeToBuffer` (once per callback), `AppThrows` those that may throw, before
they write anything, and `AppCloses` those that call `::close(conn)` themselves.
`onPassivelyClosed` may clear either buffer of its connection, both or none: the
library's own clears none (IOHandler.h:87). The quick-start server is `AppWrites = {"onConnect"}`, `AppCloses = {"onWriteComplete"}`; the chess
server closes in `onPassivelyClosed`. `Senders` bounds who sends.

In the client a member of `Conns` is a call of `add`: its message, and later the
connection the message is sent over. `pool` maps a key to the messages queued under
it; the key is the number `_HostCompare` orders the hosts by, so hosts with the same
number share an entry, and `raw_get` takes the last message of the smallest key
together with the host the entry was made for (`FirstHost`). `notify` holds the
application threads between the end of `add`'s critical section and its
`notify_all`. A pending connection counts as one with a full send buffer; it becomes
writable when the host accepts (`HostAccepts`) or the connect fails (`PeerResets`).
`epollRemove` at the end of a connect (275) is outside of any `try`: when the number
is no longer registered, because somebody closed it, the process ends.
`EarlyLoss = FALSE` restricts the environment: a peer does not go away, and the send
buffer does not fill up, between the connect and the registration for reading.
Under it the client keeps its promises (`client_pool`); without it, it does not
(`client_early`).

### Buffer and ByteQueue

A step is one `read` or `write`, or one round of the loop in `resize`. The state
between two steps is the block, the indices, and the progress of the call (`op`,
`step`, `len`, `total`). The descriptor is a sequence of received bytes, the room it
has for sending, and the state of its peer. `Search` is the search for a terminator
after each piece, over the byte behind the content as in the code, with `Beyond` for
what memory behind the block holds. `ImplementsQueue` maps the queue to the bytes in
`[_start, _offset)`: reading moves bytes from the descriptor to the back, writing
from the front to the descriptor; `resize` and the rounds of the loops change
nothing.

### Context

Every call of `run()` has its own Context; they share the descriptor table `fdt`.
`num` is what a call has noted, which may be out of date: `close` frees whatever the
number refers to. `hit` notes the calls that lost a descriptor to another one.
`Hangs` are the calls whose function does not return, `Signals` those whose
`epoll_wait` may be interrupted. A cancelled thread acts on the cancellation in its
function or in `done()`.

### AsyncLogger and LineLog

A step is a critical section of `_map_lock`, or a part of one between two blocking
calls; a section under the write lock is one step, enabled when nobody reads. The
lock of an entry is its depth: only the entry's thread and the backend take it,
and the backend's use of it lies within one step (`VisitEntry`). Text is a token:
the header `_write_debug` puts in front of a line, a part, the newline of END.
`Enter` is the look-up, `InitBuffer` and `Relock` the detour of a thread without an
entry, `Put` and `End` the bodies of the two operators, `NotifyOne` the
notification, which is outside of every lock. `MaxOps` bounds the operators per
thread and `MaxTime` the clock; the threads end every line they begin.

`LineLog` has two variables, what each thread has logged and what is in the output,
and no locks, entries or times; only whole lines move. `AsyncLogger` implements it
with the entries' buffers as the first: removing an entry must not change it.

`pthread_rwlock_rdlock` with default attributes does not queue readers behind a
waiting writer, so `CanRead` is `TRUE` between steps. The mutant
`CanRead_WriterFirst` is the other policy: with it the backend (holding the map lock
and waiting for a line), a writer (waiting for the backend) and the line's thread
(waiting behind the writer) wait for each other.

### RWLock

A step is one access of `_wr_owner` or one pthread call. `InitOwner` is the value
`_wr_owner` has in a new object: `NoOwner` (0) in static storage, where `INFO` and
`ERROR` live, and anything elsewhere, because no constructor assigns it (Mutex.h:12,
27-32). The first reader's assertion (59) fails for any other value, which is why
the run and the theorems are about locks in static storage.

## Runs

| Run | Instance | Checks | Shows |
|---|---|---|---|
| `server_safety` | 2 threads, 2 connections, 2 descriptors, batch 2, `epoll_ctl` may fail | `TypeOK`, `OneThreadPerSocket`, `ListenExclusive`, `NoStaleEvent`, `ServingThreadNeverBlocks`, `ServedIsPolled`, `LiveBytesApart`, `OnlyOwnerCloses` | the library with callbacks that write and throw, and clear buffers or not, but do not close; only closed connections leave bytes behind, and only in their own thread |
| `server_live` | 2 threads, 2 connections, batch 1, answers, a handler that may close; fair, nothing runs out | `PendingIsAccepted`, `GoneIsClosed` | nobody starves at the listening socket; a peer may go away in the middle of a deferred write |
| `client_pool` | 2 threads, 2 targets on two ports of one host, 2 descriptors, connects and `epoll_ctl` may fail, one host that answers, an `onConnect` that writes or throws; fair | `TypeOK`, `OneThreadPerSocket`, `OwnMessageToOwnHost`, `TargetOnce`, `AssertsHold`, `NoStaleEvent`, `TargetIsTried`, `ConnectEnds` | competing for the pool loses nothing and mixes nothing up; recycled buffers come with what closed connections left in them |
| `buffer` | blocks of 1 or 2 bytes, steps 1 and 2, a terminator of 2, at most 3 bytes in | `TypeOK`, `WithinBlock`, `EndsWithIsExact`, `TillEndMissesNone`, `ImplementsQueue`, `CallEnds` | every way to cut 3 bytes; a call ends, unless a peer that goes on sending keeps a reading loop busy |
| `context` | 2 calls over a common table, one whose function hangs, one that may be interrupted | `TypeOK`, `TrueMeansFinished`, `FrameOutlivesThread`, `RunReturns` | the double close and the timeout race |
| `logger_safety` | 2 threads, 3 operators each, the clock moves once | `TypeOK`, `WholeLines`, `LineKeepsEntry`, `ExitsFlushed`, `ImplementsLineLog` | lines, expiry and exit |
| `logger_live` | 2 threads, 2 operators each, fair | `ScanEnds`, `StatementFinishes` | nobody waits for ever |
| `rwlock_static` | 3 threads, 2 nested read locks | `TypeOK`, `AssertHolds`, `RefusesTheWriterOnly` | the note agrees with the lock |
| `server_eexist`, `client_early`, `logger_wakeup`, `logger_expire` | see below | one property each | a disagreement between code and documentation |

Why the bounds are enough. With two threads, one can close a number while the
other is given it; with two connections and two numbers, a number can be re-used,
both can be in one thread, the numbers can run out (`AcceptFatal`, `ConnectThrows`),
and a buffer pair can pass through the pool. Batch 2 lets one thread accept both
connections in one round, batch 1 makes the threads alternate. Two targets under two
keys make the order of the pool matter, and the unlocked look at its size can be
stale for either thread. Three bytes into a block of one make it grow twice, can put
a terminator of two bytes before, across and after the cut of two reads, and leave
room for a write in between. Two calls of `run()` are one that closes a number late
and one that was given it. Three operators are a line of one part (`<<`, END) and
the beginning of the next, or a line of two parts; the backend can come along
between any two. One tick makes an entry old, since `Expired` is 0. A third thread
in `rwlock_static` can read while a writer and another reader change hands. Symmetry
is used in safety runs only.

`CHECK_DEADLOCK FALSE` is set for `buffer` and `context`: a buffer nobody calls and
a program whose calls have returned may stop.

## Fairness

- Server: `WF(ServerStep(t))` for every thread. The threads run an endless loop
  and the operating system schedules each of them; a blocked `lock()` is a
  disabled step. `WF` of the reset with which the kernel of a closed peer answers
  what it is still sent (`ClosedPeerResets`): a write to such a peer may block before
  the reset arrives, and nothing else would wake it. Nothing more is assumed of the
  peers. `epoll_wait` returns after
  `_ep_timeout` at the latest, so a thread always comes back to the lock.
- Client: the same, and `WF(NotifyAll(c))`: an application thread that is in the
  middle of `add` gets to its end. `Add` itself, the hosts, and wake-ups without
  a notification are not fair.
- Buffer: `WF(BufferStep)`: a call that has begun goes on. The application need not
  call and the peer need not send, read or go away.
- Context: `WF` of the caller and of the thread of each call. For the thread this
  says that a function that is not in `Hangs` returns, and that a function that has
  been cancelled reaches a cancellation point.
- Logger: `WF` of the backend, of the destructor once it has begun, and of a thread
  in the middle of a log statement. A thread need not log again, the program need
  not end, and the condition variable need not wake anybody by itself
  (`SpuriousWakeup` is not fair). `SF(InitBuffer)`: a thread that waits to write the
  map is served although readers come and go, as glibc's lock does once the readers
  that were there have left.

## Proofs

All theorems hold for every value of the constants that the named assumptions
allow: any number of threads, connections, descriptors, any batch, any expiry time,
any capacity and any input.

**IOHandlerProofs** holds the lemmas about the base class that the server and the
client share: what each step does to the types, to control and to the buffers, and
that a pool gives out what it was given.

**IOHandlerServerProofs.** `TypeCorrect`: `TypeOK` is not inductive alone, because
the type of `rbh[t][cur[t]]` needs a thread in a handler to have a descriptor in
hand; `TypeInv == TypeOK /\ CurOK` is. `ListenExclusion`: the strengthening
`ListenInv` ties each of the control points between `LockListen` and `UnlockListen`
to the lock, and to the registration of the listening socket. `NeverBlocks`:
`ServingThreadNeverBlocks` is inductive given `TypeInv`. None of the three assumes
anything of the callbacks.

**OneThreadProofs.** For `AppCloses = {}`: `Inv` adds `OwnInv` (descriptors and open
connections are one to one; a thread has buffers of exactly the connections it
accepted) and `EventInv` (`NoStaleEvent`; the events left in a batch are not about
the descriptor in hand; none are left outside of the loop over the events). The
first without the second is not inductive: a handler for a stale event would clean
up a number the thread does not own. All but two steps change nothing about who
has which descriptor (`Keeps`), and are dispatched by two lemmas; `Accept` and
`DestroyAndClose` have proofs of their own. `OneThread`, `NoStaleEvents` and
`OwnerCloses` follow. The assumption is needed: with the chess server's
`onPassivelyClosed`, the second close can hit another thread's connection.
`LiveBytes` makes no assumption on what `onPassivelyClosed` clears. `BytesInv` adds to
`LiveBytesApart` that a thread holds bytes only of connections that are or were its
own; without that, a connection accepted by one thread could already have bytes in
another. `AlwaysPolled` follows from `PolledInv`, which says for each control point of
a handler what the registration of the descriptor in hand is: `ServedIsPolled` is
about the descriptors no handler works on, and a handler returns one to them.

**IOHandlerClientProofs.** Three theorems assume nothing of callbacks or network.
`ClientTypesHold`: `TypeInv` adds that a step about a connection has a descriptor in
hand. `ClientAsserts`: the size of the pool is read without the lock, so `LockInv`
says what each step may still rely on: a thread that takes targets holds the lock,
and one that got there without a connection saw a target under the lock.
`TargetsTakenOnce`: `PoolInv` says that the pool holds the targets that were added
and not tried, each once and under the key of its host; that `raw_get` removes
exactly one of them needs a smallest key, which exists because the natural numbers
are well founded.

`ClientSocketsOwned` and `ClientEventsFresh` assume `Quiet`: callbacks do not close,
and `EarlyLoss = FALSE`; the run `client_early` is the counterexample without the
latter. `LiveInv`, which holds until the process ends, has three parts that need
each other: `OwnInv` (a socket has one descriptor and one thread, which is either
connecting it or has buffers for it), `FreshInv` (until it is registered, an
established connection has a peer and room in its send buffer, so that the first
write neither closes nor defers) and `ThreadsOK` (from the end of a connect to the
registration the connection in `conn[t]` stays the thread's own; the events left in
a batch are about the thread's descriptors, still as registered, and not about the
one in hand).

`OwnMessage` needs nothing but `Quiet`. `BytesInv` says that the buffers of a
connection hold its own bytes and those of closed connections, the pooled ones only
the latter, and that `_conn_init_message` of a number being connected is its socket's
own; `DestInv` that a target leaves the pool with a host of its own key. Both rest on
`ClosedStays`: a closed connection is never opened again, because `PoolInv` keeps the
targets that were tried out of the pool. That the host is the very one of `add` holds
as far as no two hosts in use have the same key.

**BufferProofs.** `StaysWithinBlock`: `WithinBlock` is strengthened by what each
control point knows of the call in progress: that `len` bytes fit after `resize`,
that the string fits before it is stored, and that the block is as long as `_cap`
says except while it is being doubled. `BufferIsQueue`: one lemma per action that
maps to a step of `ByteQueue`, from facts about the content as a sequence; the
others leave the content alone. `EndsWithExact`: `strcmp` stops where it should
because what lies behind the content is zero, which is part of the invariant of
`StaysWithinBlock`. `TillEndExact`: `TillInv` carries the property through the steps
between a read and the search that follows it, for the bytes searched so far: what
was searched holds no terminator, so the one that is found is the first.

**ContextProofs.** `TrueOnlyWhenFinished`: a thread has ended only after `finished`
was noted, or by a cancellation, and a call that returns true has cancelled nobody.
`ContextTypes` is the same invariant's type part. `FrameIsSafe`: a call that has not been hit still has the descriptors it noted, at
each control point, so that `epoll_ctl` and `epoll_wait` fail for signals only.

**AsyncLoggerProofs.** `LineKept`: `LineKeepsEntry` is inductive together with the
type invariant. The removal step is the interesting one: `Removable` demands an
empty buffer, and a thread in a line has a non-empty one. `OutputIsLines` adds that
what an entry holds is whole lines and at most one open one, whose lock is taken;
`LoggerIsLineLog` shows that every step is one of `LineLog` or leaves buffers and
output alone. `FlushedAtExit` is an action property: the one step that ends the
backend finds every entry empty under the write lock, and a thread without an entry
has no text. `LoggerTypes` is the type part.

**RWLockProofs.** For `InitOwner = NoOwner`: `NoteAgrees` (the note and the pthread
lock agree except between two steps of `wr_lock` and `unlock`) and `Exclusion`
(readers and a writer exclude each other). `AssertNeverFails` and `RefusalIsExact`
follow. `ReadersExcludeWriter` assumes nothing of `InitOwner`: whatever the note
says, types and exclusion hold.

Every invariant and every action property of the passing runs is stated by one of
these theorems. Only model-checked are the liveness properties, since fairness is
out of the prover's reach: `PendingIsAccepted`, `GoneIsClosed`, `TargetIsTried`,
`ConnectEnds`, `CallEnds`, `RunReturns`, `ScanEnds`, `StatementFinishes`. The
inductive invariants were checked with TLC, as invariants of the runs' instances,
before the proofs were completed.

## What the runs found

| Run | Code | What happens |
|---|---|---|
| `server_eexist` | IOHandler.h:161 | after a deferred write the connection is added to epoll a second time; `EEXIST`, and a live connection is closed |
| `client_early` | IOHandler.h:285-287 | the first write closes the descriptor, another thread is given the number, and the first thread registers it in its own epoll instance |
| `logger_wakeup` | AsyncLogger.cc:153-155 | a notification between the last look and the wait is lost; the line stays unwritten, and likewise the destructor's `join` can hang |
| `logger_expire` | AsyncLogger.cc:89-94 | a new entry is expired before its thread has taken the map lock again; null pointer |

Observations on other instances of the same modules, which have no run of their own:

- Buffers are recycled uncleared and in swapped roles (IOHandler.h:99-110): unless
  `onPassivelyClosed` clears both, a new connection's `onMessage` finds what an earlier
  connection of the thread left unsent, and what the earlier one had received and not
  consumed is sent to the new peer. `LiveBytesApart` and `OwnMessageToOwnHost` bound
  this: the bytes are those of closed connections.
- With `AppCloses = {"onPassivelyClosed"}` (StartServer.cc:92) and with `AppCloses =
  {"onWriteComplete"}` (SimpleServer.cc:16), `OnlyOwnerCloses` and
  `OneThreadPerSocket` fail: the library goes on to work on a number that may have
  become another thread's, and closes it.
- With `InitOwner` other than `NoOwner`, `AssertHolds` fails.
- Hosts whose hashes collide share an entry of the pool, and the messages of the
  second go to the first (TPSharedData.h:49).
- When the content fills the block to its last byte, `readNioToBufferTillEnd` and
  `endsWith` read one byte behind it (Buffer.cc:94, 175): the properties about them
  demand `offset < cap`.

## Not modelled

- The match table and the board of the chess example, the file transfer example,
  `split`.
- Messages, formatting, time stamps, name resolution, socket options, signals other
  than an interrupted `epoll_wait` in `Context`: no state that a property here is
  about. `SIGPIPE` is ignored by `EpollTP::run`, so a write to a closed peer is an
  error code.
- A callback that throws after `writeToBuffer` has already cleaned the connection
  up; a callback that writes to a connection of another thread (`Buffer` is
  documented as not thread safe).
- A log statement without END: the entry's lock stays taken.
- `write` errors of the logger's own output, and threads that log while the static
  loggers are being destroyed.
- `_evs` is as long as the number of ready descriptors: `_max_client_per_thr` only
  delays events. `_fd_num` is zero or positive: the code tests nothing else.
- Capacities of 0 and beyond 2^30 in `Buffer`; `stripEnd` on a partly written buffer
  whose whole content is the byte to be stripped, behind one that has been written
  (`_offset` would drop below `_start`); failures of `pipe`, `epoll_create` and the pthread calls in `Context`,
  functions without a cancellation point.

## Plan

1. Done: the library's components, each with runs; the refinements of `ByteQueue`
   and `LineLog`; proofs of all invariants and action properties the runs check.
2. Next: action properties of the client (who may close, what a taken target may
   turn into), checked and then proved from `LiveInv`; what a server with
   `AppCloses` still keeps.
3. The match table of the chess server, composed with the server's callbacks.
