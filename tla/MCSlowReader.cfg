CONSTANTS
  c1 = c1
  c2 = c2
  c3 = c3
  nobody = nobody
  Clients <- MCClients
  Nobody = nobody
  Srv = 4
  Fds <- MCFds2
  Backlog = 2
  MaxEvents = 3
  SndBuf = 2
  Meaning <- MCFoundMeaning
  Header <- MCHeader
  File <- MCFile
  Page <- MCPage
  Faults <- NoFaults
SPECIFICATION Spec
INVARIANTS AnswerPrefix
