\* Without multiple_requests, from a pipe whose reads are short or fail.
CONSTANTS
  Bytes <- TwoBytes
  Delimiter <- ZeroOneZero
  MULTI_REQUEST = FALSE
  STATIC_BUFFER_SIZE = 2
  SizeLimit = 8
  Inputs <- Piped
  RegularFile = FALSE
  MallocFails = TRUE
  MaxLen = 3
  Iovs <- SomeIovs
SPECIFICATION Spec
INVARIANTS
  
  NothingLost
