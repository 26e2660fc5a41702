CONSTANTS
  c1 = c1
  c2 = c2
  free = free
  nobody = nobody
  Clients <- MCClients
  Free = free
  Nobody = nobody
  Limit = 11
  Length = 3
  Large = 6
  Garbage = {0, 2}
  PageLength = 4
  PrintEvery = 2
  MaxStarts = 2
SPECIFICATION Spec
INVARIANTS TypeOK NothingLeaks LogTellsTruth EnoughDescriptors
PROPERTY OwnBytesOnly
SYMMETRY Symmetry
CHECK_DEADLOCK FALSE
