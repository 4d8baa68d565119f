\* Two threads take turns at the only connection there may be.
CONSTANTS
  t1 = t1
  t2 = t2
  Threads = {t1, t2}
  Fds = {4, 5}
  MAX_CONNS = 1
  Bytes <- TwoBytes
  Delimiter <- ZeroOneZero
  MULTI_REQUEST = TRUE
  STATIC_BUFFER_SIZE = 2
  SizeLimit = 8
  Inputs <- Requests
  RegularFile = TRUE
  MallocFails = TRUE
  MaxLen = 3
  Iovs = {}
SPECIFICATION Spec
INVARIANT TypeOK
PROPERTY RefinesInput
