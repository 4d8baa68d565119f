\* tests/test_threads.c, with the default max_conns.
CONSTANTS
  t1 = t1
  t2 = t2
  t3 = t3
  t4 = t4
  Threads = {t1, t2}
  Calls <- CallsThreadsTest
  MAX_CONNS = 1
  FD_TABLE_SIZE = 6
  NOFILE = 6
  Epolls = {}
  SockDomains <- Tcp
  Signals = {}
  AcceptsReported = FALSE
  RegistersConns = FALSE
  DUP_STDIN = FALSE
  MaxSockets = 1
  Oneshot = {FALSE}
  StdTargets = {}
  MaxEvents = 0
SPECIFICATION Spec
INVARIANT AcceptedFdIs4
