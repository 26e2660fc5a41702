CONSTANTS
  c1 = c1
  c2 = c2
  c3 = c3
  nobody = nobody
  Clients <- MCClients
  Nobody = nobody
  Srv = 4
  Fds <- MCFds3
  Backlog = 2
  MaxEvents = 3
  SndBuf = 3
  Meaning <- MCMeaning
  Header <- MCHeader
  File <- MCFile
  Page <- MCPage
  Faults <- MCFaults
SPECIFICATION Spec
INVARIANTS TypeOK EventIsFresh BoundedConnections NobodyForgotten StopExplained AnswerIfRoom
PROPERTIES Served FirstComeFirstServed
CHECK_DEADLOCK FALSE
