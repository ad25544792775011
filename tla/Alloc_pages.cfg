SPECIFICATION Spec
CONSTANTS
  MINALLOC = 2
  Granules = 4
  Requests = {2, 3, 4, 6, 8, 10}
  Clients = {TRUE, FALSE}
INVARIANTS NoOverlap NoLeak FirstFit
PROPERTY BlocksSpec
