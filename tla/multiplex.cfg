\* Tables of six descriptors, one intervention of other threads besides their closes.
CONSTANTS
  FD_TABLE_SIZE = 6
  NOFILE = 7
  Epolls <- OneEpoll
  MILLION = 2
  THOUSAND = 2
  TIME_MAX = 15
  INT32_MAX = 3
  Tables <- SmallTables
  MaxToken = 1
  MaxOthers = 1
  Polls <- Arrays
  Selects <- SmallSelects
  EventSlots = {1, 2, 3}
  Timeouts <- SmallTimeouts
  Builds <- SmallBuilds
  Answers <- SmallAnswers
SPECIFICATION Spec
INVARIANTS
  TypeOK
  ReportIsExact
  CountIsReport
  
  NeverSleepsWithWork
  ZeroIsTheKernels
  CarriedOutOnce
  WaitsAsAsked
