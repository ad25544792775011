SPECIFICATION Spec
CONSTANTS
  TotalItems = 3
  MaxBufSize = 1
  NumWorkers = 1
  NumMasters = 2
  MaxSpurious = 0
INVARIANT InBuffer
CHECK_DEADLOCK FALSE
