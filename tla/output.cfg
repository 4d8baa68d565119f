\* Writes and files, in both builds.
CONSTANTS
  Builds = {FALSE, TRUE}
  MaxLen = 2
  Iovs <- SomeIovs
  FileSize = 5
  ChunkSize = 2
SPECIFICATION FairSpec
INVARIANTS
  TypeOK
  WrittenInOrder
  ReportedIsWritten
  SendfileSendsPart
PROPERTY CallsReturn
