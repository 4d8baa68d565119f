\* Two acceptors block in accept, two other threads close connections.
CONSTANTS
  t1 = t1
  t2 = t2
  t3 = t3
  t4 = t4
  Threads = {t1, t2, t3, t4}
  Calls <- CallsBlocking
  MAX_CONNS = 2
  FD_TABLE_SIZE = 8
  NOFILE = 8
  Epolls = {}
  SockDomains <- Tcp
  Signals = {}
  AcceptsReported = FALSE
  RegistersConns = FALSE
  DUP_STDIN = FALSE
  MaxSockets = 1
  Oneshot = {FALSE, TRUE}
  StdTargets = {}
  MaxEvents = 0
SPECIFICATION FairSpec
INVARIANTS
  TokensBounded
  NoTokenLost
  ConnIsServed
  FillSeesInet
PROPERTY RefinesFairPool
