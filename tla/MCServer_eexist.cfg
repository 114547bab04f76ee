\* The library's own handling of a deferred write.
CONSTANTS
  t1 = t1  t2 = t2  c1 = c1  c2 = c2  c3 = c3  f1 = f1  f2 = f2  f3 = f3
  Threads = {t1, t2}
  Conns = {c1, c2}
  Fds = {f1, f2, f3}
  ListenFd = ListenFd
  NoThread = NoThread
  NoConn = NoConn
  NoFd = NoFd
  Batch = 1
  AppWrites = {"onEpollLoop", "onConnect", "onMessage"}
  AppThrows = {}
  AppCloses = {}
  EpollMayFail = FALSE
  Senders = {c1, c2}
SPECIFICATION Spec

INVARIANTS
  PassivelyClosedMeansPeerGone
