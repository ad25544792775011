SPECIFICATION Spec
CONSTANTS
  MINALLOC = 8
  Granules = 3
  Requests = {8, 16}
  Clients = {FALSE}
INVARIANT Inside
