SPECIFICATION FairSpec
CONSTANTS
  TotalItems = 2
  MaxBufSize = 2
  NumWorkers = 2
  NumMasters = 2
  MaxSpurious = 2
PROPERTY Termination
