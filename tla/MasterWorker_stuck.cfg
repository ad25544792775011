SPECIFICATION FairSpec
CONSTANTS
  TotalItems = 2
  MaxBufSize = 1
  NumWorkers = 1
  NumMasters = 2
  MaxSpurious = 0
PROPERTY MastersTerminate
CHECK_DEADLOCK FALSE
