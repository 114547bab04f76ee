CONSTANTS
  t1 = t1  t2 = t2  c1 = c1  c2 = c2  c3 = c3  f1 = f1  f2 = f2  f3 = f3
  Threads = {t1, t2}
  Conns = {c1, c2}
  Fds = {f1, f2}
  ListenFd = ListenFd
  NoThread = NoThread
  NoConn = NoConn
  NoFd = NoFd
  NoHost = NoHost
  HostOf <- MCHostOf
  IpHash <- MCIpHash
  Batch = 1
  AppWrites = {"onConnect"}
  AppThrows = {"onConnect"}
  AppCloses = {}
  EpollMayFail = TRUE
  Senders = {c1}
  ConnectMayFail = TRUE
  EarlyLoss = FALSE
SPECIFICATION FairSpec
INVARIANTS
  TypeOK
  OneThreadPerSocket
  OwnMessageToOwnHost
  TargetOnce
  AssertsHold
  NoStaleEvent
PROPERTIES
  TargetIsTried
  ConnectEnds
