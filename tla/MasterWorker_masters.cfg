SPECIFICATION FairSpec
CONSTANTS
  TotalItems = 6
  MaxBufSize = 3
  NumWorkers = 3
  NumMasters = 2
  MaxSpurious = 0
INVARIANTS NoOverrun NothingLost SomeoneWillWake AllTestCasesPassed
PROPERTY DispatchFairSpec
CHECK_DEADLOCK FALSE
