CONSTANTS
  t1 = t1  t2 = t2  c1 = c1  c2 = c2  c3 = c3  f1 = f1  f2 = f2  f3 = f3
  Threads = {t1, t2}
  Conns = {c1, c2}
  Fds = {f1, f2}
  ListenFd = ListenFd
  NoThread = NoThread
  NoConn = NoConn
  NoFd = NoFd
  NoHost = NoHost
  HostOf <- MCHostOf
  IpHash <- MCIpHash
  Batch = 2
  AppWrites = {}
  AppThrows = {}
  AppCloses = {}
  EpollMayFail = FALSE
  Senders = {}
  ConnectMayFail = FALSE
  EarlyLoss = TRUE
SPECIFICATION Spec
INVARIANT OneThreadPerSocket
