\* read after recv(MSG_PEEK) saw the end of a request.
CONSTANTS
  Bytes <- TwoBytes
  Delimiter <- ZeroOneZero
  MULTI_REQUEST = TRUE
  STATIC_BUFFER_SIZE = 2
  SizeLimit = 8
  Inputs <- Requests
  RegularFile = TRUE
  MallocFails = FALSE
  MaxLen = 3
  Iovs <- SomeIovs
SPECIFICATION Spec
INVARIANT EachCallOneRequest
