\* No resource runs out, so the process never ends.  The handlers answer a message
\* and may close when the answer is out, as the quick start's server does.
CONSTANTS
  t1 = t1  t2 = t2  c1 = c1  c2 = c2  c3 = c3  f1 = f1  f2 = f2  f3 = f3
  Threads = {t1, t2}
  Conns = {c1, c2}
  Fds = {f1, f2}
  ListenFd = ListenFd
  NoThread = NoThread
  NoConn = NoConn
  NoFd = NoFd
  Batch = 1
  AppWrites = {"onMessage"}
  AppThrows = {}
  AppCloses = {"onWriteComplete"}
  EpollMayFail = FALSE
  Senders = {c1}
SPECIFICATION FairSpec
PROPERTIES
  PendingIsAccepted
  GoneIsClosed
