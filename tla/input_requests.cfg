\* A file of requests, read by every function in any order.
CONSTANTS
  Bytes <- TwoBytes
  Delimiter <- ZeroOneZero
  MULTI_REQUEST = TRUE
  STATIC_BUFFER_SIZE = 2
  SizeLimit = 8
  Inputs <- Requests
  RegularFile = TRUE
  MallocFails = TRUE
  MaxLen = 3
  Iovs <- SomeIovs
SPECIFICATION Spec
INVARIANTS
  TypeOK
  
  NoOverrun
  OneRequestAtATime
PROPERTIES
  PeekShowsWhatRecvReturns
  
