\* One event loop with poll, select and epoll, and a thread that closes connections.
CONSTANTS
  t1 = t1
  t2 = t2
  t3 = t3
  t4 = t4
  Threads = {t1, t2}
  Calls <- CallsEventLoop
  MAX_CONNS = 2
  FD_TABLE_SIZE = 7
  NOFILE = 8
  Epolls <- OneEpoll
  SockDomains <- Tcp
  Signals = {}
  AcceptsReported = TRUE
  RegistersConns = TRUE
  DUP_STDIN = FALSE
  MaxSockets = 1
  Oneshot = {FALSE}
  StdTargets = {}
  MaxEvents = 2
SPECIFICATION FairSpec
INVARIANTS
  TokensBounded
  NoTokenLost
  ReportedAcceptDoesNotBlock
  MaxFdCovers
  HiddenListenerHasNoToken
PROPERTIES
  RefinesFairPool
  WaiterAdmitted
