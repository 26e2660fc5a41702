CONSTANTS
  Procs = {1, 2}
  Digits <- MCDigits
  Addrs <- OneAddr
  MaxStarts = 1
SPECIFICATION Spec
CHECK_DEADLOCK FALSE
INVARIANT PidFileNamesServer
