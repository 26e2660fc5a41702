CONSTANTS
  Procs = {1, 2, 3}
  Digits <- MCDigits
  Addrs <- MCAddrs
  MaxStarts = 1
SPECIFICATION Spec
CHECK_DEADLOCK FALSE
INVARIANTS TypeOK OneServer FailedForCause
PROPERTY StartsSettle
