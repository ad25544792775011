SPECIFICATION Spec
CONSTANTS
  MINALLOC = 8
  Granules = 3
  Requests = {0, 8}
  Clients = {FALSE}
INVARIANT NextApart
