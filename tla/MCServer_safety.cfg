\* Callbacks that write and throw, but leave closing to the library.  As many
\* connections as descriptors.
CONSTANTS
  t1 = t1  t2 = t2  c1 = c1  c2 = c2  c3 = c3  f1 = f1  f2 = f2  f3 = f3
  Threads = {t1, t2}
  Conns = {c1, c2}
  Fds = {f1, f2}
  ListenFd = ListenFd
  NoThread = NoThread
  NoConn = NoConn
  NoFd = NoFd
  Batch = 2
  AppWrites = {"onEpollLoop", "onConnect", "onMessage"}
  AppThrows = {"onConnect", "onMessage"}
  AppCloses = {}
  EpollMayFail = TRUE
  Senders = {c1, c2}
SPECIFICATION Spec
SYMMETRY Symmetry
INVARIANTS
  TypeOK
  OneThreadPerSocket
  ListenExclusive
  NoStaleEvent
  ServingThreadNeverBlocks
  ServedIsPolled
  LiveBytesApart
PROPERTIES
  OnlyOwnerCloses
