\* Every call, in any order, by one thread; another opens files and closes.
CONSTANTS
  t1 = t1
  t2 = t2
  t3 = t3
  t4 = t4
  Threads = {t1, t2}
  Calls <- CallsAny
  MAX_CONNS = 1
  FD_TABLE_SIZE = 5
  NOFILE = 6
  Epolls = {}
  SockDomains <- TcpLocal
  Signals = {t1}
  AcceptsReported = FALSE
  RegistersConns = FALSE
  DUP_STDIN = FALSE
  MaxSockets = 2
  Oneshot = {FALSE}
  StdTargets = {1}
  MaxEvents = 0
SPECIFICATION Spec
INVARIANTS
  TypeOK
  SemBound
  
  
 
CHECK_DEADLOCK FALSE
