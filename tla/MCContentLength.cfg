CONSTANTS
  c1 = c1
  c2 = c2
  free = free
  nobody = nobody
  Clients <- MCClients
  Free = free
  Nobody = nobody
  Limit = 11
  Length = 3
  Large = 6
  Garbage = {0, 2}
  PageLength = 4
  PrintEvery = 2
  MaxStarts = 1
SPECIFICATION Spec
INVARIANT ContentAsAnnounced
SYMMETRY Symmetry
CHECK_DEADLOCK FALSE
